------------------------ MODULE UnwindMachineProofs -------------------------
(***************************************************************************)
(* For every program, unwinder and number of calls: the machine is well    *)
(* typed, RAII accounting is exact on every path, the two measures of      *)
(* shallow traces agree, calls repeat, and no verdict that judges traces   *)
(* passes a call whose traces were bad.                                    *)
(***************************************************************************)
EXTENDS UnwindMachine, SequenceTheorems, TLAPS

(***************************************************************************)
(* The inductive invariant.  GuardsBalanced is not inductive alone: that a *)
(* returning call leaves no live guard needs the marks, which grow towards *)
(* the innermost scope from 0 at the exported function, and that unwinding *)
(* never leaves the exported function needs a clause to be waiting, with   *)
(* nothing above it that stops the exception.                              *)
(***************************************************************************)
MarksOrdered(s) ==
  /\ \A k \in 1 .. Len(s) : s[1].mark = 0
  /\ \A j, k \in 1 .. Len(s) : j <= k => s[j].mark <= s[k].mark

StackInv ==
  /\ MarksOrdered(stack)
  /\ status = "idle" <=> Len(stack) = 0
  /\ Len(stack) > 0 => Top.mark <= live

ClauseWaits == status = "unwinding" => Handled(flying)

IInv == TypeOK /\ StackInv /\ ClauseWaits /\ GuardsBalanced /\ ShallowAgrees

-----------------------------------------------------------------------------

\* What a statement that passes the check of Executes consists of.
LEMMA InstructionFields ==
  ASSUME NEW i \in Instructions
  PROVE  /\ i.op \in {"call", "try"} => i.fn \in STRING /\ i.args \in Seq(Int)
         /\ i.op = "throw" => i.exc \in Exceptions
BY DEF Instructions

LEMMA FrameFields ==
  ASSUME NEW f \in Frames
  PROVE  /\ f.fn \in STRING /\ f.args \in Seq(Int) /\ f.exc \in MaybeException
         /\ f.pc \in Nat \ {0} /\ f.mark \in Nat /\ f.depth \in Nat
         /\ [f EXCEPT !.pc = @ + 1] \in Frames
         /\ [f EXCEPT !.pc = @ + 1].mark = f.mark
         /\ [f EXCEPT !.pc = @ + 1].fn = f.fn
<1>1. /\ f.fn \in STRING /\ f.args \in Seq(Int) /\ f.exc \in MaybeException
      /\ f.pc \in Nat \ {0} /\ f.mark \in Nat /\ f.depth \in Nat
  BY DEF Frames
<1>2. f.pc + 1 \in Nat \ {0}
  BY <1>1
<1>3. f = [fn |-> f.fn, args |-> f.args, exc |-> f.exc, pc |-> f.pc,
           mark |-> f.mark, depth |-> f.depth]
  BY DEF Frames
<1>4. [f EXCEPT !.pc = @ + 1] = [fn |-> f.fn, args |-> f.args, exc |-> f.exc,
           pc |-> f.pc + 1, mark |-> f.mark, depth |-> f.depth]
  BY <1>3
<1> QED
  BY <1>1, <1>2, <1>4 DEF Frames

\* Moving the innermost program counter changes nothing else of the stack.
LEMMA AdvancedStack ==
  ASSUME stack \in Seq(Frames), Len(stack) > 0
  PROVE  /\ Advanced \in Seq(Frames)
         /\ Len(Advanced) = Len(stack)
         /\ \A k \in 1 .. Len(stack) :
              /\ Advanced[k].mark = stack[k].mark
              /\ Advanced[k].fn = stack[k].fn
<1>1. Len(stack) \in 1 .. Len(stack) /\ Top \in Frames
  BY DEF Top
<1>2. /\ [Top EXCEPT !.pc = @ + 1] \in Frames
      /\ [Top EXCEPT !.pc = @ + 1].mark = Top.mark
      /\ [Top EXCEPT !.pc = @ + 1].fn = Top.fn
  BY <1>1, FrameFields
<1>4. Advanced = [stack EXCEPT ![Len(stack)] = [Top EXCEPT !.pc = @ + 1]]
  BY <1>1 DEF Advanced, Top
<1> QED
  BY <1>1, <1>2, <1>4 DEF Top

\* A new scope starts above the guards alive so far.
LEMMA ScopeFrame ==
  ASSUME live \in Nat, NEW fn \in STRING, NEW args \in Seq(Int),
         NEW exc \in MaybeException, NEW depth \in Nat
  PROVE  Scope(fn, args, exc, depth) \in Frames /\ Scope(fn, args, exc, depth).mark = live
BY DEF Scope, Frames

LEMMA PushOrdered ==
  ASSUME NEW s \in Seq(Frames), NEW f \in Frames, MarksOrdered(s),
         Len(s) = 0 => f.mark = 0,
         Len(s) > 0 => s[Len(s)].mark <= f.mark
  PROVE  /\ Append(s, f) \in Seq(Frames)
         /\ Len(Append(s, f)) = Len(s) + 1
         /\ Append(s, f)[Len(s) + 1] = f
         /\ MarksOrdered(Append(s, f))
<1> DEFINE t == Append(s, f)
<1>1. /\ t \in Seq(Frames)
      /\ Len(t) = Len(s) + 1
      /\ t[Len(s) + 1] = f
      /\ \A k \in 1 .. Len(s) : t[k] = s[k]
  OBVIOUS
<1>2. \A k \in 1 .. Len(s) : s[k].mark \in Nat
  <2>1. \A k \in 1 .. Len(s) : s[k] \in Frames
    OBVIOUS
  <2> QED
    BY <2>1, FrameFields
<1>3. f.mark \in Nat
  BY FrameFields
<1>4. \A k \in 1 .. Len(t) : t[1].mark = 0
  <2>1. CASE Len(s) = 0
    BY <1>1, <2>1
  <2>2. CASE Len(s) > 0
    BY <1>1, <2>2 DEF MarksOrdered
  <2> QED
    BY <2>1, <2>2
<1>5. ASSUME NEW j \in 1 .. Len(t), NEW k \in 1 .. Len(t), j <= k
      PROVE  t[j].mark <= t[k].mark
  <2>1. CASE k <= Len(s)
    BY <1>1, <1>5, <2>1 DEF MarksOrdered
  <2>2. CASE k = Len(s) + 1 /\ j <= Len(s)
    <3>1. s[j].mark <= s[Len(s)].mark /\ Len(s) \in 1 .. Len(s)
      BY <2>2 DEF MarksOrdered
    <3> QED
      BY <1>1, <1>2, <1>3, <2>2, <3>1
  <2>3. CASE j = Len(s) + 1
    BY <1>1, <1>3, <1>5, <2>3
  <2> QED
    BY <1>1, <2>1, <2>2, <2>3
<1> QED
  BY <1>1, <1>4, <1>5 DEF MarksOrdered

\* The sequence without its last element.
LEMMA FrontOf ==
  ASSUME NEW S, NEW s \in Seq(S), Len(s) > 0
  PROVE  /\ SubSeq(s, 1, Len(s) - 1) \in Seq(S)
         /\ Len(SubSeq(s, 1, Len(s) - 1)) = Len(s) - 1
         /\ \A k \in 1 .. Len(s) - 1 : SubSeq(s, 1, Len(s) - 1)[k] = s[k]
<1> DEFINE n == Len(s) - 1
<1>1. \A k \in 1 .. n : s[k] \in S
  OBVIOUS
<1>2. n \in Nat
  OBVIOUS
<1> HIDE DEF n
<1>3. /\ SubSeq(s, 1, n) \in Seq(S)
      /\ Len(SubSeq(s, 1, n)) = IF 1 <= n THEN n - 1 + 1 ELSE 0
      /\ \A k \in 1 .. n - 1 + 1 : SubSeq(s, 1, n)[k] = s[1 + k - 1]
  BY <1>1, <1>2, SubSeqProperties
<1>4. Len(SubSeq(s, 1, n)) = n
  BY <1>2, <1>3
<1>5. \A k \in 1 .. n : SubSeq(s, 1, n)[k] = s[k]
  BY <1>2, <1>3
<1> QED
  BY <1>3, <1>4, <1>5 DEF n

LEMMA TopFrame ==
  ASSUME stack \in Seq(Frames), Len(stack) > 0
  PROVE  /\ Top \in Frames
         /\ Top.fn \in STRING /\ Top.args \in Seq(Int) /\ Top.exc \in MaybeException
         /\ Top.mark \in Nat /\ Top.depth \in Nat
<1>1. Top \in Frames
  BY DEF Top
<1> QED
  BY <1>1, FrameFields

LEMMA NoExceptionTyped == NoException \in MaybeException
BY DEF MaybeException

LEMMA BelowStack ==
  ASSUME stack \in Seq(Frames), Len(stack) > 0, MarksOrdered(stack)
  PROVE  /\ Below \in Seq(Frames)
         /\ Len(Below) = Len(stack) - 1
         /\ \A k \in 1 .. Len(stack) - 1 : Below[k] = stack[k]
         /\ MarksOrdered(Below)
         /\ Len(Below) > 0 => Below[Len(Below)].mark <= Top.mark
<1>1. /\ Below \in Seq(Frames)
      /\ Len(Below) = Len(stack) - 1
      /\ \A k \in 1 .. Len(stack) - 1 : Below[k] = stack[k]
  BY FrontOf DEF Below
<1> QED
  BY <1>1 DEF MarksOrdered, Top

\* The suite and the unwind runtime of an execution.
LEMMA SuiteFields ==
  ASSUME suite \in Suites, unwinder \in suite.unwinders
  PROVE  /\ suite.entry \in STRING /\ suite.frames \in Nat \ {0}
         /\ suite.iterations \subseteq Int
         /\ unwinder \in Walkers
<1>1. suite \in Scenarios
  BY MachineAssumption
<1> QED
  BY <1>1 DEF Scenarios

\* Captures keep the metrics well typed and the two shallowness measures equal.
LEMMA CapturedMetrics ==
  ASSUME NEW m \in Metrics, NEW depth \in Nat, suite \in Suites,
         unwinder \in suite.unwinders, metrics \in Metrics,
         (m.minDepth < 5) <=> (m.shallow > 0)
  PROVE  /\ Captured(m, depth) \in Metrics
         /\ Captured(m, depth).destructors = m.destructors
         /\ (Captured(m, depth).minDepth < 5) <=> (Captured(m, depth).shallow > 0)
<1> DEFINE d == WalkDepth(depth)
<1>1. d \in Nat
  BY SuiteFields, MachineAssumption DEF WalkDepth, Min2, Walkers
<1>2. m.captures \in Nat /\ m.minDepth \in Nat /\ m.shallow \in Nat /\ m.own \in Nat
  BY DEF Metrics
<1>3. Captured(m, depth) = [m EXCEPT !.captures = @ + 1,
                !.minDepth = Min2(@, d),
                !.shallow  = IF d < 5 THEN @ + 1 ELSE @,
                !.own      = IF d > 0 /\ unwinder.named THEN @ + 1 ELSE @]
  BY DEF Captured
<1> HIDE DEF d
<1>4. /\ Min2(m.minDepth, d) \in Nat
      /\ Min2(m.minDepth, d) < 5 <=> m.minDepth < 5 \/ d < 5
  BY <1>1, <1>2 DEF Min2
<1>5. /\ (IF d < 5 THEN m.shallow + 1 ELSE m.shallow) \in Nat
      /\ (IF d < 5 THEN m.shallow + 1 ELSE m.shallow) > 0 <=> m.shallow > 0 \/ d < 5
  BY <1>1, <1>2
<1>6. (IF d > 0 /\ unwinder.named THEN m.own + 1 ELSE m.own) \in Nat
  BY <1>2
<1>7. Captured(m, depth) =
        [captures |-> m.captures + 1,
         minDepth |-> Min2(m.minDepth, d),
         shallow |-> IF d < 5 THEN m.shallow + 1 ELSE m.shallow,
         own |-> IF d > 0 /\ unwinder.named THEN m.own + 1 ELSE m.own,
         destructors |-> m.destructors, events |-> m.events]
  BY <1>3 DEF Metrics
<1>8. m.captures + 1 \in Nat /\ m.destructors \in Nat /\ m.events \in [Events -> Nat]
  BY <1>2 DEF Metrics
<1> QED
  BY <1>4, <1>5, <1>6, <1>7, <1>8 DEF Metrics
-----------------------------------------------------------------------------

\* The innermost program counter moves while the exported function runs.
LEMMA AdvanceKeeps ==
  ASSUME TypeOK, StackInv, status = "running", status' = status,
         stack' = Advanced, live' \in Nat, live <= live'
  PROVE  stack' \in Seq(Frames) /\ StackInv' /\ ClauseWaits'
<1>1. Len(stack) > 0 /\ stack \in Seq(Frames) /\ live \in Nat
  BY DEF StackInv, TypeOK
<1>2. /\ stack' \in Seq(Frames)
      /\ Len(stack') = Len(stack)
      /\ \A k \in 1 .. Len(stack) : stack'[k].mark = stack[k].mark
  BY <1>1, AdvancedStack
<1>3. MarksOrdered(stack')
  BY <1>1, <1>2 DEF StackInv, MarksOrdered
<1>4. Top' = stack'[Len(stack)] /\ Top'.mark = Top.mark
  BY <1>1, <1>2 DEF Top
<1>5. Top.mark \in Nat /\ Top.mark <= live
  BY <1>1, TopFrame DEF StackInv
<1> QED
  BY <1>1, <1>2, <1>3, <1>4, <1>5 DEF StackInv, ClauseWaits

\* A call or a try block: advance, then open a scope.
LEMMA EnterKeeps ==
  ASSUME TypeOK, StackInv, status = "running", status' = status,
         live' = live, NEW fn \in STRING, NEW args \in Seq(Int), NEW depth \in Nat,
         stack' = Append(Advanced, Scope(fn, args, NoException, depth))
  PROVE  stack' \in Seq(Frames) /\ StackInv' /\ ClauseWaits'
<1> DEFINE f == Scope(fn, args, NoException, depth)
<1>1. Len(stack) > 0 /\ stack \in Seq(Frames) /\ live \in Nat
  BY DEF StackInv, TypeOK
<1>2. /\ Advanced \in Seq(Frames)
      /\ Len(Advanced) = Len(stack)
      /\ \A k \in 1 .. Len(stack) : Advanced[k].mark = stack[k].mark
  BY <1>1, AdvancedStack
<1>3. MarksOrdered(Advanced)
  <2>1. MarksOrdered(stack)
    BY DEF StackInv
  <2> QED
    BY <1>1, <1>2, <2>1 DEF MarksOrdered
<1>4. f \in Frames /\ f.mark = live
  BY <1>1, ScopeFrame, NoExceptionTyped
<1>5. Advanced[Len(Advanced)].mark <= live
  BY <1>1, <1>2 DEF StackInv, Top
<1> HIDE DEF f
<1>6. /\ stack' \in Seq(Frames)
      /\ Len(stack') = Len(stack) + 1
      /\ stack'[Len(stack) + 1] = f
      /\ MarksOrdered(stack')
  BY <1>1, <1>2, <1>3, <1>4, <1>5, PushOrdered DEF f
<1>7. Top'.mark = live'
  BY <1>4, <1>6 DEF Top
<1> QED
  BY <1>1, <1>6, <1>7 DEF StackInv, ClauseWaits

-----------------------------------------------------------------------------

(* Each action preserves the invariant. *)

LEMMA ExecutesRunning ==
  ASSUME IInv, NEW op, Executes(op)
  PROVE  /\ status = "running" /\ Len(stack) > 0 /\ stack \in Seq(Frames)
         /\ Top.depth \in Nat
         /\ Statements[Top.pc] \in Instructions /\ Statements[Top.pc].op = op
<1>1. status = "running" /\ Len(stack) > 0 /\ stack \in Seq(Frames)
  BY DEF Executes, IInv, StackInv, TypeOK
<1> QED
  BY <1>1, TopFrame DEF Executes

LEMMA BeginCallKeeps == IInv /\ BeginCall => IInv'
<1> SUFFICES ASSUME IInv, BeginCall PROVE IInv'
  OBVIOUS
<1>1. live = 0 /\ live' = 0 /\ built' = 0 /\ status' = "running"
  BY DEF IInv, GuardsBalanced, BeginCall
<1>2. metrics' = FreshMetrics
  BY DEF BeginCall, ResetMetrics
<1>3. /\ metrics' \in Metrics /\ metrics'.destructors = 0
      /\ metrics'.minDepth = 1000000 /\ metrics'.shallow = 0
  BY <1>2 DEF FreshMetrics, Metrics
<1>4. PICK i \in suite.iterations :
        /\ iterations' = IF i <= 0 THEN 1 ELSE i
        /\ stack' = << Scope(suite.entry, << IF i <= 0 THEN 1 ELSE i >>, NoException, 1) >>
  BY DEF BeginCall
<1>5. iterations' \in Nat /\ << IF i <= 0 THEN 1 ELSE i >> \in Seq(Int)
  BY <1>4, SuiteFields DEF IInv, TypeOK
<1>6. Scope(suite.entry, << IF i <= 0 THEN 1 ELSE i >>, NoException, 1) \in Frames
      /\ Scope(suite.entry, << IF i <= 0 THEN 1 ELSE i >>, NoException, 1).mark = 0
  BY <1>1, <1>5, ScopeFrame, NoExceptionTyped, SuiteFields DEF IInv, TypeOK
<1>7. stack' \in Seq(Frames) /\ Len(stack') = 1 /\ stack'[1].mark = 0
  BY <1>4, <1>6
<1>8. TypeOK'
  BY <1>1, <1>3, <1>5, <1>7 DEF IInv, TypeOK, BeginCall
<1>9. StackInv' /\ ClauseWaits'
  BY <1>1, <1>7 DEF StackInv, MarksOrdered, ClauseWaits, Top
<1> QED
  BY <1>1, <1>3, <1>8, <1>9 DEF IInv, GuardsBalanced, ShallowAgrees

LEMMA ConstructGuardKeeps == IInv /\ ConstructGuard => IInv'
<1> SUFFICES ASSUME IInv, ConstructGuard PROVE IInv'
  OBVIOUS
<1>1. status = "running" /\ live \in Nat /\ built \in Nat
  BY DEF IInv, TypeOK, ConstructGuard, Executes
<1>2. stack' \in Seq(Frames) /\ StackInv' /\ ClauseWaits'
  BY <1>1, AdvanceKeeps DEF IInv, ConstructGuard
<1>3. TypeOK'
  BY <1>1, <1>2 DEF IInv, TypeOK, ConstructGuard
<1>4. metrics.destructors \in Nat
  BY DEF IInv, TypeOK, Metrics
<1> QED
  BY <1>1, <1>2, <1>3, <1>4 DEF IInv, GuardsBalanced, ShallowAgrees, ConstructGuard

LEMMA CaptureTraceKeeps == IInv /\ CaptureTrace => IInv'
<1> SUFFICES ASSUME IInv, CaptureTrace PROVE IInv'
  OBVIOUS
<1>1. status = "running" /\ live \in Nat /\ Top.depth \in Nat
  <2>1. Executes("capture")
    BY DEF CaptureTrace
  <2> QED
    BY <2>1, ExecutesRunning DEF IInv, TypeOK
<1>2. stack' \in Seq(Frames) /\ StackInv' /\ ClauseWaits'
  BY <1>1, AdvanceKeeps DEF IInv, CaptureTrace
<1>3. /\ metrics' \in Metrics
      /\ metrics'.destructors = metrics.destructors
      /\ (metrics'.minDepth < 5) <=> (metrics'.shallow > 0)
  BY <1>1, CapturedMetrics, MachineAssumption
     DEF IInv, TypeOK, ShallowAgrees, CaptureTrace
<1>4. TypeOK'
  BY <1>1, <1>2, <1>3 DEF IInv, TypeOK, CaptureTrace
<1> QED
  BY <1>1, <1>2, <1>3, <1>4 DEF IInv, GuardsBalanced, ShallowAgrees, CaptureTrace

LEMMA CountEventKeeps == IInv /\ CountEvent => IInv'
<1> SUFFICES ASSUME IInv, CountEvent PROVE IInv'
  OBVIOUS
<1> DEFINE event == Statements[Top.pc].event
<1>1. status = "running" /\ live \in Nat /\ metrics \in Metrics
  BY DEF IInv, TypeOK, CountEvent, Executes
<1>2. stack' \in Seq(Frames) /\ StackInv' /\ ClauseWaits'
  BY <1>1, AdvanceKeeps DEF IInv, CountEvent
<1>3. metrics' = [metrics EXCEPT !.events[event] = @ + 1]
  BY DEF CountEvent
<1> HIDE DEF event
<1>4. metrics.events \in [Events -> Nat]
  BY <1>1 DEF Metrics
<1>5. [metrics.events EXCEPT ![event] = @ + 1] \in [Events -> Nat]
  <2>1. CASE event \in Events
    BY <1>4, <2>1
  <2>2. CASE event \notin Events
    <3>1. [metrics.events EXCEPT ![event] = @ + 1] = metrics.events
      BY <1>4, <2>2
    <3> QED
      BY <1>4, <3>1
  <2> QED
    BY <2>1, <2>2
<1>6. metrics' = [metrics EXCEPT !.events = [metrics.events EXCEPT ![event] = @ + 1]]
  BY <1>1, <1>3 DEF Metrics
<1>7. /\ metrics' \in Metrics
      /\ metrics'.destructors = metrics.destructors
      /\ metrics'.minDepth = metrics.minDepth
      /\ metrics'.shallow = metrics.shallow
  BY <1>1, <1>5, <1>6 DEF Metrics
<1>8. TypeOK'
  BY <1>1, <1>2, <1>7 DEF IInv, TypeOK, CountEvent
<1> QED
  BY <1>1, <1>2, <1>7, <1>8 DEF IInv, GuardsBalanced, ShallowAgrees, CountEvent

LEMMA CallFunctionKeeps == IInv /\ CallFunction => IInv'
<1> SUFFICES ASSUME IInv, CallFunction PROVE IInv'
  OBVIOUS
<1> DEFINE i == Statements[Top.pc]
<1>1. Executes("call")
  BY DEF CallFunction
<1>2. status = "running" /\ Top.depth + 1 \in Nat /\ i \in Instructions /\ i.op = "call"
  BY <1>1, ExecutesRunning
<1>3. /\ stack' = Append(Advanced, Scope(i.fn, i.args, NoException, Top.depth + 1))
      /\ status' = status /\ live' = live /\ metrics' = metrics
  BY DEF CallFunction
<1> HIDE DEF i
<1>4. i.fn \in STRING /\ i.args \in Seq(Int)
  BY <1>2, InstructionFields
<1>5. stack' \in Seq(Frames) /\ StackInv' /\ ClauseWaits'
  BY <1>2, <1>3, <1>4, EnterKeeps DEF IInv
<1>6. TypeOK'
  BY <1>5 DEF IInv, TypeOK, CallFunction
<1> QED
  BY <1>5, <1>6 DEF IInv, GuardsBalanced, ShallowAgrees, CallFunction

LEMMA EnterTryKeeps == IInv /\ EnterTry => IInv'
<1> SUFFICES ASSUME IInv, EnterTry PROVE IInv'
  OBVIOUS
<1> DEFINE i == Statements[Top.pc]
<1>1. Executes("try")
  BY DEF EnterTry
<1>2. status = "running" /\ Top.depth \in Nat /\ i \in Instructions /\ i.op = "try"
  BY <1>1, ExecutesRunning
<1>3. /\ stack' = Append(Advanced, Scope(i.fn, i.args, NoException, Top.depth))
      /\ status' = status /\ live' = live /\ metrics' = metrics
  BY DEF EnterTry
<1> HIDE DEF i
<1>4. i.fn \in STRING /\ i.args \in Seq(Int)
  BY <1>2, InstructionFields
<1>5. stack' \in Seq(Frames) /\ StackInv' /\ ClauseWaits'
  BY <1>2, <1>3, <1>4, EnterKeeps DEF IInv
<1>6. TypeOK'
  BY <1>5 DEF IInv, TypeOK, EnterTry
<1> QED
  BY <1>5, <1>6 DEF IInv, GuardsBalanced, ShallowAgrees, EnterTry

LEMMA PropagateKeeps ==
  ASSUME IInv, status = "running", NEW exc \in MaybeException, Propagate(exc)
  PROVE  IInv'
<1>1. /\ stack' = stack /\ live' = live /\ metrics' = metrics /\ built' = built
      /\ flying' = exc /\ status' \in {"unwinding", "terminated"}
  BY DEF Propagate
<1>2. TypeOK'
  BY <1>1 DEF IInv, TypeOK, Propagate
<1>3. StackInv'
  BY <1>1 DEF IInv, StackInv, MarksOrdered, Top
<1>4. ClauseWaits'
  BY <1>1 DEF ClauseWaits, Propagate, Handled, ClauseFor
<1> QED
  BY <1>1, <1>2, <1>3, <1>4 DEF IInv, GuardsBalanced, ShallowAgrees

LEMMA ThrowKeeps == IInv /\ Throw => IInv'
<1> SUFFICES ASSUME IInv, Throw PROVE IInv'
  OBVIOUS
<1> DEFINE i == Statements[Top.pc]
<1>1. Executes("throw") /\ Propagate(i.exc)
  BY DEF Throw
<1>2. status = "running" /\ i \in Instructions /\ i.op = "throw"
  BY <1>1, ExecutesRunning
<1> HIDE DEF i
<1>3. i.exc \in MaybeException
  BY <1>2, InstructionFields DEF MaybeException
<1> QED
  BY <1>1, <1>2, <1>3, PropagateKeeps

LEMMA RethrowKeeps == IInv /\ Rethrow => IInv'
<1> SUFFICES ASSUME IInv, Rethrow PROVE IInv'
  OBVIOUS
<1>1. Executes("rethrow") /\ Propagate(Top.exc)
  BY DEF Rethrow
<1>2. status = "running" /\ Len(stack) > 0 /\ stack \in Seq(Frames)
  BY <1>1, ExecutesRunning
<1>3. Top.exc \in MaybeException
  BY <1>2, TopFrame
<1> QED
  BY <1>1, <1>2, <1>3, PropagateKeeps

LEMMA DestroyGuardKeeps == IInv /\ DestroyGuard => IInv'
<1> SUFFICES ASSUME IInv, DestroyGuard PROVE IInv'
  OBVIOUS
<1> DEFINE counted == [metrics EXCEPT !.destructors = @ + 1]
<1>1. /\ status \in {"running", "unwinding"} /\ live > Top.mark
      /\ live' = live - 1 /\ metrics' = Captured(counted, Top.depth)
      /\ stack' = stack /\ status' = status /\ built' = built /\ flying' = flying
      /\ suite' = suite
  BY DEF DestroyGuard
<1>2. Len(stack) > 0 /\ stack \in Seq(Frames) /\ live \in Nat /\ metrics \in Metrics
  BY <1>1 DEF IInv, StackInv, TypeOK
<1>3. Top.mark \in Nat /\ Top.depth \in Nat
  BY <1>2, TopFrame
<1>4. metrics.destructors \in Nat
  BY <1>2 DEF Metrics
<1>5. /\ counted \in Metrics /\ counted.destructors = metrics.destructors + 1
      /\ counted.minDepth = metrics.minDepth /\ counted.shallow = metrics.shallow
  BY <1>2, <1>4 DEF Metrics
<1> HIDE DEF counted
<1>6. /\ metrics' \in Metrics
      /\ metrics'.destructors = metrics.destructors + 1
      /\ (metrics'.minDepth < 5) <=> (metrics'.shallow > 0)
  BY <1>1, <1>2, <1>3, <1>5, CapturedMetrics, MachineAssumption
     DEF IInv, TypeOK, ShallowAgrees
<1>7. live' \in Nat /\ Top.mark <= live'
  BY <1>1, <1>2, <1>3
<1>8. TypeOK'
  BY <1>1, <1>6, <1>7 DEF IInv, TypeOK, DestroyGuard
<1>9. StackInv' /\ ClauseWaits'
  BY <1>1, <1>2, <1>7
     DEF IInv, StackInv, MarksOrdered, ClauseWaits, Handled, Top, ClauseFor
<1>10. built \in Nat
  BY DEF IInv, TypeOK
<1> QED
  BY <1>1, <1>2, <1>4, <1>6, <1>8, <1>9, <1>10 DEF IInv, GuardsBalanced, ShallowAgrees
\* A scope that is left without a handler: its guards are gone, so the live
\* guards are those of the scopes below.
LEMMA PopKeeps ==
  ASSUME TypeOK, StackInv, Len(stack) > 1, live = Top.mark, live' = live,
         stack' = Below, status' = status
  PROVE  stack' \in Seq(Frames) /\ StackInv'
<1>1. stack \in Seq(Frames) /\ live \in Nat
  BY DEF TypeOK
<1>2. /\ stack' \in Seq(Frames)
      /\ Len(stack') = Len(stack) - 1
      /\ MarksOrdered(stack')
      /\ Len(stack') > 0 => stack'[Len(stack')].mark <= Top.mark
  BY <1>1, BelowStack DEF StackInv
<1>3. Len(stack') > 0 => Top'.mark <= live'
  BY <1>2 DEF Top
<1>4. status' = "idle" <=> Len(stack') = 0
  BY <1>1, <1>2 DEF StackInv
<1> QED
  BY <1>2, <1>3, <1>4 DEF StackInv

LEMMA LeaveKeeps == IInv /\ Leave => IInv'
<1> SUFFICES ASSUME IInv, Leave PROVE IInv'
  OBVIOUS
<1>1. stack' \in Seq(Frames) /\ StackInv'
  BY PopKeeps DEF IInv, Leave, Clean
<1>2. TypeOK'
  BY <1>1 DEF IInv, TypeOK, Leave
<1>3. ClauseWaits'
  BY DEF ClauseWaits, Leave
<1> QED
  BY <1>1, <1>2, <1>3 DEF IInv, GuardsBalanced, ShallowAgrees, Leave

LEMMA UnwindScopeKeeps == IInv /\ UnwindScope => IInv'
<1> SUFFICES ASSUME IInv, UnwindScope PROVE IInv'
  OBVIOUS
<1>1. /\ status = "unwinding" /\ ClauseFor(Top, flying) = "none"
      /\ stack' = Below /\ status' = status /\ flying' = flying /\ suite' = suite
  BY DEF UnwindScope
<1>2. stack \in Seq(Frames) /\ Len(stack) > 0
  BY <1>1 DEF IInv, TypeOK, StackInv
<1>3. PICK k \in 1 .. Len(stack) :
        /\ ClauseFor(stack[k], flying) \notin {"none", "terminate"}
        /\ \A j \in k + 1 .. Len(stack) : ClauseFor(stack[j], flying) = "none"
  BY <1>1 DEF IInv, ClauseWaits, Handled
<1>4. k \in 1 .. Len(stack) - 1
  BY <1>1, <1>2, <1>3 DEF Top
<1>5. stack' \in Seq(Frames) /\ StackInv'
  BY <1>1, <1>4, PopKeeps DEF IInv, UnwindScope, Clean
<1>6. /\ Len(stack') = Len(stack) - 1
      /\ \A j \in 1 .. Len(stack) - 1 : stack'[j] = stack[j]
  BY <1>1, <1>2, <1>4, BelowStack DEF IInv, StackInv
<1>7. ClauseWaits'
  BY <1>1, <1>2, <1>3, <1>4, <1>6 DEF ClauseWaits, Handled, ClauseFor
<1>8. TypeOK'
  BY <1>5 DEF IInv, TypeOK, UnwindScope
<1> QED
  BY <1>5, <1>7, <1>8 DEF IInv, GuardsBalanced, ShallowAgrees, UnwindScope

LEMMA EnterHandlerKeeps == IInv /\ EnterHandler => IInv'
<1> SUFFICES ASSUME IInv, EnterHandler PROVE IInv'
  OBVIOUS
<1> DEFINE clause == ClauseFor(Top, flying)
           f == Scope(clause, Top.args, flying, Top.depth)
<1>1. /\ status = "unwinding" /\ live = Top.mark /\ clause \in STRING
      /\ stack' = Append(Below, f) /\ live' = live
      /\ status' = "running" /\ flying' = NoException
  BY DEF EnterHandler, Clean
<1>2. /\ stack \in Seq(Frames) /\ Len(stack) > 0 /\ live \in Nat
      /\ flying \in MaybeException /\ MarksOrdered(stack)
  BY <1>1 DEF IInv, TypeOK, StackInv
<1>3. f \in Frames /\ f.mark = live
  BY <1>1, <1>2, TopFrame, ScopeFrame
<1>4. /\ Below \in Seq(Frames) /\ Len(Below) = Len(stack) - 1 /\ MarksOrdered(Below)
      /\ Len(Below) > 0 => Below[Len(Below)].mark <= f.mark
  BY <1>1, <1>2, <1>3, BelowStack
<1> HIDE DEF f, clause
<1>5. Len(Below) = 0 => f.mark = 0
  <2>1. SUFFICES ASSUME Len(Below) = 0 PROVE Top.mark = 0
    BY <1>1, <1>3
  <2>2. Len(stack) = 1
    BY <1>2, <1>4, <2>1
  <2> QED
    BY <1>2, <2>2 DEF MarksOrdered, Top
<1>6. /\ stack' \in Seq(Frames) /\ Len(stack') = Len(stack)
      /\ stack'[Len(stack)] = f /\ MarksOrdered(stack')
  BY <1>1, <1>2, <1>3, <1>4, <1>5, PushOrdered
<1>7. StackInv' /\ ClauseWaits'
  BY <1>1, <1>2, <1>3, <1>6 DEF StackInv, ClauseWaits, Top
<1>8. TypeOK'
  BY <1>6, NoExceptionTyped DEF IInv, TypeOK, EnterHandler
<1> QED
  BY <1>7, <1>8 DEF IInv, GuardsBalanced, ShallowAgrees, EnterHandler

LEMMA FinishCallKeeps == IInv /\ FinishCall => IInv'
<1> SUFFICES ASSUME IInv, FinishCall PROVE IInv'
  OBVIOUS
<1>1. /\ Len(stack) = 1 /\ live = Top.mark /\ live' = live
      /\ status' = "idle" /\ stack' = << >>
      /\ reports' = Append(reports, [iterations |-> iterations, metrics |-> metrics])
  BY DEF FinishCall, Clean
<1>2. live = 0
  BY <1>1 DEF IInv, StackInv, MarksOrdered, Top
<1>3. reports' \in Seq([iterations : Nat, metrics : Metrics])
  BY <1>1 DEF IInv, TypeOK
<1>4. TypeOK'
  BY <1>1, <1>3 DEF IInv, TypeOK, FinishCall
<1>5. StackInv' /\ ClauseWaits'
  BY <1>1 DEF StackInv, MarksOrdered, ClauseWaits
<1> QED
  BY <1>1, <1>2, <1>4, <1>5 DEF IInv, GuardsBalanced, ShallowAgrees, FinishCall

-----------------------------------------------------------------------------

LEMMA InitInv == Init => IInv
<1> SUFFICES ASSUME Init PROVE IInv
  OBVIOUS
<1>1. /\ metrics \in Metrics /\ metrics.destructors = 0
      /\ metrics.minDepth = 1000000 /\ metrics.shallow = 0
  BY DEF Init, FreshMetrics, Metrics
<1>2. TypeOK
  BY <1>1, NoExceptionTyped DEF Init, TypeOK
<1>3. StackInv /\ ClauseWaits
  BY DEF Init, StackInv, MarksOrdered, ClauseWaits
<1> QED
  BY <1>1, <1>2, <1>3 DEF Init, IInv, GuardsBalanced, ShallowAgrees

LEMMA StepInv == IInv /\ [Next]_vars => IInv'
<1> SUFFICES ASSUME IInv, [Next]_vars PROVE IInv'
  OBVIOUS
<1>1. CASE BeginCall
  BY <1>1, BeginCallKeeps
<1>2. CASE Statement
  BY <1>2, ConstructGuardKeeps, CaptureTraceKeeps, CountEventKeeps, CallFunctionKeeps,
     EnterTryKeeps, ThrowKeeps, RethrowKeeps DEF Statement
<1>3. CASE ScopeExit
  BY <1>3, DestroyGuardKeeps, LeaveKeeps, UnwindScopeKeeps, EnterHandlerKeeps,
     FinishCallKeeps DEF ScopeExit
<1>4. CASE UNCHANGED vars
  BY <1>4 DEF vars, IInv, TypeOK, StackInv, MarksOrdered, ClauseWaits, GuardsBalanced,
     ShallowAgrees, Top, Handled, ClauseFor
<1> QED
  BY <1>1, <1>2, <1>3, <1>4 DEF Next

\* The variables of the machine always have their types.
THEOREM TypeCorrect == Spec => []TypeOK
<1>1. IInv => TypeOK
  BY DEF IInv
<1> QED
  BY InitInv, StepInv, <1>1, PTL DEF Spec

\* On every path of every program each guard is destroyed exactly once, and the
\* destructors counter equals the guards constructed when a call returns.
THEOREM GuardsAreBalanced == Spec => []GuardsBalanced
<1>1. IInv => GuardsBalanced
  BY DEF IInv
<1> QED
  BY InitInv, StepInv, <1>1, PTL DEF Spec

\* The minimum depth is below 5 exactly when a trace was counted as shallow, for
\* any unwinder, so either of the two tests of finishResult implies the other.
THEOREM ShallowCountsAgree == Spec => []ShallowAgrees
<1>1. IInv => ShallowAgrees
  BY DEF IInv
<1> QED
  BY InitInv, StepInv, <1>1, PTL DEF Spec

-----------------------------------------------------------------------------

(***************************************************************************)
(* Calls repeat.  What a call counts is settled by its Core: the part of   *)
(* the state that its control reads and that Repeatable compares.  After   *)
(* is the step of that part, a function of it alone, so the other part     *)
(* (what traces looked like, what earlier calls left) cannot matter.       *)
(***************************************************************************)
Core == [status |-> status, stack |-> stack, live |-> live, flying |-> flying,
         captures |-> metrics.captures, destructors |-> metrics.destructors,
         events |-> metrics.events]

Cores == [status : {"idle", "running", "unwinding", "terminated"}, stack : Seq(Frames),
          live : Nat, flying : MaybeException,
          captures : Nat, destructors : Nat, events : [Events -> Nat]]

\* The core of a call that starts with n iterations.
StartCore(entry, n) ==
  [status |-> "running",
   stack |-> << [fn |-> entry, args |-> << n >>, exc |-> NoException,
                 pc |-> 1, mark |-> 0, depth |-> 1] >>,
   live |-> 0, flying |-> NoException,
   captures |-> 0, destructors |-> 0, events |-> [e \in Events |-> 0]]

CoreTop(c) == c.stack[Len(c.stack)]
CoreBody(entry, c) == Body(entry, CoreTop(c).fn, CoreTop(c).args, CoreTop(c).exc)
CoreScope(c, fn, args, exc, depth) ==
  [fn |-> fn, args |-> args, exc |-> exc, pc |-> 1, mark |-> c.live, depth |-> depth]
CoreNext(c) == [c.stack EXCEPT ![Len(c.stack)].pc = @ + 1]
CoreBelow(c) == SubSeq(c.stack, 1, Len(c.stack) - 1)
CoreMoved(c) == [c EXCEPT !.stack = CoreNext(c)]
CoreHandled(entry, c, exc) ==
  \E k \in 1 .. Len(c.stack) :
    /\ Catches(entry, c.stack[k].fn, exc.type) \notin {"none", "terminate"}
    /\ \A j \in k + 1 .. Len(c.stack) : Catches(entry, c.stack[j].fn, exc.type) = "none"
CoreRaised(entry, c, exc) ==
  [c EXCEPT !.flying = exc,
            !.status = IF CoreHandled(entry, c, exc) THEN "unwinding" ELSE "terminated"]

\* One statement of the innermost scope.
CoreExecuted(entry, c, s) ==
  CASE s.op = "guard"   -> [CoreMoved(c) EXCEPT !.live = @ + 1]
    [] s.op = "capture" -> [CoreMoved(c) EXCEPT !.captures = @ + 1]
    [] s.op = "count"   -> [CoreMoved(c) EXCEPT !.events[s.event] = @ + 1]
    [] s.op = "call"    -> [c EXCEPT !.stack = Append(CoreNext(c),
                              CoreScope(c, s.fn, s.args, NoException, CoreTop(c).depth + 1))]
    [] s.op = "try"     -> [c EXCEPT !.stack = Append(CoreNext(c),
                              CoreScope(c, s.fn, s.args, NoException, CoreTop(c).depth))]
    [] s.op = "throw"   -> CoreRaised(entry, c, s.exc)
    [] s.op = "rethrow" -> CoreRaised(entry, c, CoreTop(c).exc)

\* One step of the way out of the innermost scope.
CoreLeft(entry, c) ==
  LET clause == Catches(entry, CoreTop(c).fn, c.flying.type)
  IN  IF c.live > CoreTop(c).mark
      THEN [c EXCEPT !.live = @ - 1, !.destructors = @ + 1, !.captures = @ + 1]
      ELSE IF c.status = "running" \/ clause = "none"
      THEN [c EXCEPT !.stack = CoreBelow(c)]
      ELSE [c EXCEPT !.stack = Append(CoreBelow(c),
                                      CoreScope(c, clause, CoreTop(c).args, c.flying, CoreTop(c).depth)),
                     !.flying = NoException, !.status = "running"]

After(entry, c) ==
  IF c.status = "running" /\ ~(CoreTop(c).pc > Len(CoreBody(entry, c)))
  THEN CoreExecuted(entry, c, CoreBody(entry, c)[CoreTop(c).pc])
  ELSE CoreLeft(entry, c)

\* The exported function is about to return.
FinalCore(entry, c) ==
  /\ c.status = "running"
  /\ Len(c.stack) = 1
  /\ CoreTop(c).pc > Len(CoreBody(entry, c))
  /\ c.live = CoreTop(c).mark

\* Core b is on the way from core a: it is in every set of cores that has a and
\* is closed under the steps of calls that are not about to return.
ClosedCores(entry, S) ==
  \A c \in S : FinalCore(entry, c) \/ (After(entry, c) \in Cores => After(entry, c) \in S)

LeadsTo(entry, a, b) ==
  \A S \in SUBSET Cores : ClosedCores(entry, S) /\ a \in S => b \in S

\* A call is on the way from its start, and each call reported was.
CallsReplay ==
  /\ status \in {"idle", "running"} => flying = NoException
  /\ status # "idle" => LeadsTo(suite.entry, StartCore(suite.entry, iterations), Core)
  /\ \A c \in 1 .. Len(reports) :
       \E d \in Cores :
         /\ LeadsTo(suite.entry, StartCore(suite.entry, reports[c].iterations), d)
         /\ FinalCore(suite.entry, d)
         /\ d.captures = reports[c].metrics.captures
         /\ d.destructors = reports[c].metrics.destructors
         /\ d.events = reports[c].metrics.events

\* A start leads to one return at most, because each core has one successor.
LEMMA OneReturn ==
  ASSUME NEW entry, NEW a \in Cores, NEW b \in Cores, NEW d \in Cores,
         LeadsTo(entry, a, b), FinalCore(entry, b),
         LeadsTo(entry, a, d), FinalCore(entry, d)
  PROVE  b = d
<1> DEFINE S == {c \in Cores : LeadsTo(entry, c, d)}
<1>1. ASSUME NEW c \in S, ~FinalCore(entry, c), After(entry, c) \in Cores
      PROVE  LeadsTo(entry, After(entry, c), d)
  <2> SUFFICES ASSUME NEW T \in SUBSET Cores, ClosedCores(entry, T), After(entry, c) \in T
               PROVE  d \in T
    BY DEF LeadsTo
  <2>1. T \cup {c} \in SUBSET Cores /\ ClosedCores(entry, T \cup {c}) /\ c \in T \cup {c}
    BY DEF ClosedCores
  <2>2. d \in T \cup {c}
    BY <2>1 DEF LeadsTo
  <2> QED
    BY <1>1, <2>2
<1>2. ClosedCores(entry, S)
  BY <1>1 DEF ClosedCores
<1>3. b \in S
  BY <1>2 DEF LeadsTo
<1>4. {b} \in SUBSET Cores /\ ClosedCores(entry, {b})
  BY DEF ClosedCores
<1> QED
  BY <1>3, <1>4 DEF LeadsTo

\* A core on the way leads to the one after it.
LEMMA OnTheWay ==
  ASSUME NEW entry, NEW a, NEW b \in Cores, LeadsTo(entry, a, b), ~FinalCore(entry, b),
         After(entry, b) \in Cores
  PROVE  LeadsTo(entry, a, After(entry, b))
BY DEF LeadsTo, ClosedCores

\* The core of a state reads as the state does.
LEMMA CoreFields ==
  /\ Core.status = status /\ Core.stack = stack /\ Core.live = live /\ Core.flying = flying
  /\ Core.captures = metrics.captures /\ Core.destructors = metrics.destructors
  /\ Core.events = metrics.events
  /\ CoreTop(Core) = Top
  /\ CoreBody(suite.entry, Core) = Statements
BY DEF Core, CoreTop, Top, CoreBody, Statements

\* A well typed state has a well typed core.
LEMMA CoreTyped == TypeOK => Core \in Cores
<1> SUFFICES ASSUME TypeOK PROVE Core \in Cores
  OBVIOUS
<1>1. /\ metrics.captures \in Nat /\ metrics.destructors \in Nat
      /\ metrics.events \in [Events -> Nat]
  BY DEF TypeOK, Metrics
<1>2. /\ status \in {"idle", "running", "unwinding", "terminated"}
      /\ stack \in Seq(Frames) /\ live \in Nat /\ flying \in MaybeException
  BY DEF TypeOK
<1> QED
  BY <1>1, <1>2 DEF Core, Cores

\* A core with the innermost program counter moved.
LEMMA CoreAdvances ==
  /\ CoreMoved(Core) =
    [status |-> status, stack |-> Advanced, live |-> live, flying |-> flying,
     captures |-> metrics.captures, destructors |-> metrics.destructors,
     events |-> metrics.events]
  /\ CoreNext(Core) = Advanced
  /\ CoreBelow(Core) = Below
<1>1. CoreNext(Core) = Advanced
  BY CoreFields DEF CoreNext, Advanced
<1>2. CoreBelow(Core) = Below
  BY CoreFields DEF CoreBelow, Below
<1> QED
  BY <1>1, <1>2 DEF CoreMoved, Core

\* The cases of After, for the three ways the innermost scope goes on.
LEMMA StatementStep ==
  ASSUME NEW op, Executes(op)
  PROVE  /\ ~FinalCore(suite.entry, Core)
         /\ After(suite.entry, Core) = CoreExecuted(suite.entry, Core, Statements[Top.pc])
         /\ Statements[Top.pc].op = op
<1>1. status = "running" /\ ~(Top.pc > Len(Statements)) /\ Statements[Top.pc].op = op
  BY DEF Executes, AtEnd
<1> QED
  BY <1>1, CoreFields DEF FinalCore, After

\* The way out of the innermost scope, for a scope that has ended or is unwound.
LEMMA ScopeEndStep ==
  ASSUME \/ status = "running" /\ AtEnd
         \/ status = "unwinding"
  PROVE  After(suite.entry, Core) = CoreLeft(suite.entry, Core)
BY CoreFields DEF After, AtEnd

\* Every step of a call is the step of its core.
LEMMA CoreSteps ==
  ASSUME IInv, status \in {"running"} => flying = NoException,
         Statement \/ DestroyGuard \/ Leave \/ UnwindScope \/ EnterHandler
  PROVE  ~FinalCore(suite.entry, Core) /\ Core' = After(suite.entry, Core)
<1> DEFINE e == suite.entry
           s == Statements[Top.pc]
<1>0. /\ stack \in Seq(Frames) /\ live \in Nat /\ metrics \in Metrics
  BY DEF IInv, TypeOK
<1>1. ASSUME ConstructGuard PROVE ~FinalCore(e, Core) /\ Core' = After(e, Core)
  <2>1. Executes("guard")
    BY <1>1 DEF ConstructGuard
  <2>2. ~FinalCore(e, Core) /\ After(e, Core) = CoreExecuted(e, Core, s) /\ s.op = "guard"
    BY <2>1, StatementStep
  <2>3. CoreExecuted(e, Core, s) = [CoreMoved(Core) EXCEPT !.live = @ + 1]
    BY <2>2 DEF CoreExecuted
  <2> QED
    BY <1>1, <2>2, <2>3, CoreAdvances DEF Core, ConstructGuard
<1>2. ASSUME CaptureTrace PROVE ~FinalCore(e, Core) /\ Core' = After(e, Core)
  <2>1. Executes("capture")
    BY <1>2 DEF CaptureTrace
  <2>2. ~FinalCore(e, Core) /\ After(e, Core) = CoreExecuted(e, Core, s) /\ s.op = "capture"
    BY <2>1, StatementStep
  <2>3. CoreExecuted(e, Core, s) = [CoreMoved(Core) EXCEPT !.captures = @ + 1]
    BY <2>2 DEF CoreExecuted
  <2>4. /\ metrics'.captures = metrics.captures + 1
        /\ metrics'.destructors = metrics.destructors
        /\ metrics'.events = metrics.events
    BY <1>0, <1>2 DEF CaptureTrace, Captured, Metrics
  <2> QED
    BY <1>2, <2>2, <2>3, <2>4, CoreAdvances DEF Core, CaptureTrace
<1>3. ASSUME CountEvent PROVE ~FinalCore(e, Core) /\ Core' = After(e, Core)
  <2>1. Executes("count")
    BY <1>3 DEF CountEvent
  <2>2. ~FinalCore(e, Core) /\ After(e, Core) = CoreExecuted(e, Core, s) /\ s.op = "count"
    BY <2>1, StatementStep
  <2>3. CoreExecuted(e, Core, s) = [CoreMoved(Core) EXCEPT !.events[s.event] = @ + 1]
    BY <2>2 DEF CoreExecuted
  <2>4. /\ metrics'.captures = metrics.captures
        /\ metrics'.destructors = metrics.destructors
        /\ metrics'.events = [metrics.events EXCEPT ![s.event] = @ + 1]
    BY <1>0, <1>3 DEF CountEvent, Metrics
  <2> QED
    BY <1>3, <2>2, <2>3, <2>4, CoreAdvances DEF Core, CountEvent
<1>4. ASSUME CallFunction PROVE ~FinalCore(e, Core) /\ Core' = After(e, Core)
  <2>1. Executes("call")
    BY <1>4 DEF CallFunction
  <2>2. ~FinalCore(e, Core) /\ After(e, Core) = CoreExecuted(e, Core, s) /\ s.op = "call"
    BY <2>1, StatementStep
  <2>3. CoreExecuted(e, Core, s) =
          [Core EXCEPT !.stack =
             Append(Advanced, CoreScope(Core, s.fn, s.args, NoException, Top.depth + 1))]
    BY <2>2, CoreFields, CoreAdvances DEF CoreExecuted
  <2>4. CoreScope(Core, s.fn, s.args, NoException, Top.depth + 1)
          = Scope(s.fn, s.args, NoException, Top.depth + 1)
    BY CoreFields DEF CoreScope, Scope
  <2> QED
    BY <1>4, <2>2, <2>3, <2>4, CoreAdvances DEF Core, CallFunction
<1>5. ASSUME EnterTry PROVE ~FinalCore(e, Core) /\ Core' = After(e, Core)
  <2>1. Executes("try")
    BY <1>5 DEF EnterTry
  <2>2. ~FinalCore(e, Core) /\ After(e, Core) = CoreExecuted(e, Core, s) /\ s.op = "try"
    BY <2>1, StatementStep
  <2>3. CoreExecuted(e, Core, s) =
          [Core EXCEPT !.stack =
             Append(Advanced, CoreScope(Core, s.fn, s.args, NoException, Top.depth))]
    BY <2>2, CoreFields, CoreAdvances DEF CoreExecuted
  <2>4. CoreScope(Core, s.fn, s.args, NoException, Top.depth)
          = Scope(s.fn, s.args, NoException, Top.depth)
    BY CoreFields DEF CoreScope, Scope
  <2> QED
    BY <1>5, <2>2, <2>3, <2>4, CoreAdvances DEF Core, EnterTry
<1>6. ASSUME NEW exc, Propagate(exc) PROVE Core' = CoreRaised(e, Core, exc)
  <2>1. CoreRaised(e, Core, exc) = [Core EXCEPT !.flying = exc, !.status = status']
    BY <1>6, CoreFields DEF Propagate, Handled, CoreRaised, CoreHandled, ClauseFor
  <2> QED
    BY <1>6, <2>1 DEF Propagate, Core
<1>7. ASSUME Throw PROVE ~FinalCore(e, Core) /\ Core' = After(e, Core)
  <2>1. Executes("throw") /\ Propagate(s.exc)
    BY <1>7 DEF Throw
  <2>2. ~FinalCore(e, Core) /\ After(e, Core) = CoreExecuted(e, Core, s) /\ s.op = "throw"
    BY <2>1, StatementStep
  <2>3. CoreExecuted(e, Core, s) = CoreRaised(e, Core, s.exc)
    BY <2>2 DEF CoreExecuted
  <2> QED
    BY <1>6, <2>1, <2>2, <2>3
<1>8. ASSUME Rethrow PROVE ~FinalCore(e, Core) /\ Core' = After(e, Core)
  <2>1. Executes("rethrow") /\ Propagate(Top.exc)
    BY <1>8 DEF Rethrow
  <2>2. ~FinalCore(e, Core) /\ After(e, Core) = CoreExecuted(e, Core, s) /\ s.op = "rethrow"
    BY <2>1, StatementStep
  <2>3. CoreExecuted(e, Core, s) = CoreRaised(e, Core, Top.exc)
    BY <2>2, CoreFields DEF CoreExecuted
  <2> QED
    BY <1>6, <2>1, <2>2, <2>3
<1>9. ASSUME DestroyGuard PROVE ~FinalCore(e, Core) /\ Core' = After(e, Core)
  <2>1. After(e, Core) = CoreLeft(e, Core) /\ live > Top.mark
    BY <1>9, ScopeEndStep DEF DestroyGuard
  <2>2. Top.mark \in Nat
    <3>1. Len(stack) > 0
      BY <1>9 DEF DestroyGuard, IInv, StackInv, TypeOK
    <3> QED
      BY <1>0, <3>1, TopFrame
  <2>3. ~FinalCore(e, Core)
    BY <1>0, <2>1, <2>2, CoreFields DEF FinalCore
  <2>4. CoreLeft(e, Core) =
          [Core EXCEPT !.live = @ - 1, !.destructors = @ + 1, !.captures = @ + 1]
    BY <2>1, CoreFields DEF CoreLeft
  <2>5. /\ metrics'.captures = metrics.captures + 1
        /\ metrics'.destructors = metrics.destructors + 1
        /\ metrics'.events = metrics.events
    BY <1>0, <1>9 DEF DestroyGuard, Captured, Metrics
  <2> QED
    BY <1>9, <2>1, <2>3, <2>4, <2>5 DEF Core, DestroyGuard
<1>10. ASSUME Leave PROVE ~FinalCore(e, Core) /\ Core' = After(e, Core)
  <2>1. After(e, Core) = CoreLeft(e, Core)
    BY <1>10, ScopeEndStep DEF Leave
  <2>0. live = Top.mark /\ Len(stack) > 1
    BY <1>10 DEF Leave, Clean
  <2>2. ~(live > Top.mark)
    BY <1>0, <2>0
  <2>5. Len(stack) # 1
    <3> SUFFICES ASSUME Len(stack) = 1 PROVE FALSE
      OBVIOUS
    <3> QED
      BY <1>0, <2>0
  <2>3. CoreLeft(e, Core) = [Core EXCEPT !.stack = Below]
    BY <1>10, <2>2, CoreFields, CoreAdvances DEF CoreLeft, Leave
  <2>4. ~FinalCore(e, Core)
    BY <2>5, CoreFields DEF FinalCore
  <2> QED
    BY <1>10, <2>1, <2>3, <2>4 DEF Core, Leave
<1>11. ASSUME UnwindScope PROVE ~FinalCore(e, Core) /\ Core' = After(e, Core)
  <2>1. After(e, Core) = CoreLeft(e, Core) /\ ~(live > Top.mark) /\ status # "running"
    BY <1>0, <1>11, ScopeEndStep DEF UnwindScope, Clean
  <2>2. CoreLeft(e, Core) = [Core EXCEPT !.stack = Below]
    BY <1>11, <2>1, CoreFields, CoreAdvances DEF CoreLeft, UnwindScope, ClauseFor
  <2>3. ~FinalCore(e, Core)
    BY <2>1, CoreFields DEF FinalCore
  <2> QED
    BY <1>11, <2>1, <2>2, <2>3 DEF Core, UnwindScope
<1>12. ASSUME EnterHandler PROVE ~FinalCore(e, Core) /\ Core' = After(e, Core)
  <2> DEFINE clause == ClauseFor(Top, flying)
  <2>1. /\ After(e, Core) = CoreLeft(e, Core) /\ ~(live > Top.mark) /\ status # "running"
        /\ clause # "none" /\ clause = Catches(e, Top.fn, flying.type)
    BY <1>0, <1>12, ScopeEndStep DEF EnterHandler, Clean, ClauseFor
  <2>2. CoreLeft(e, Core) =
          [Core EXCEPT !.stack = Append(Below,
                                        CoreScope(Core, clause, Top.args, flying, Top.depth)),
                       !.flying = NoException, !.status = "running"]
    BY <2>1, CoreFields, CoreAdvances DEF CoreLeft
  <2>3. CoreScope(Core, clause, Top.args, flying, Top.depth)
          = Scope(clause, Top.args, flying, Top.depth)
    BY CoreFields DEF CoreScope, Scope
  <2>4. ~FinalCore(e, Core)
    BY <2>1, CoreFields DEF FinalCore
  <2> QED
    BY <1>12, <2>1, <2>2, <2>3, <2>4 DEF Core, EnterHandler
<1> QED
  BY <1>1, <1>2, <1>3, <1>4, <1>5, <1>7, <1>8, <1>9, <1>10, <1>11, <1>12 DEF Statement

\* A call begins with the core its arguments determine,
LEMMA BeginReplay ==
  ASSUME IInv, CallsReplay, BeginCall
  PROVE  Core' = StartCore(suite.entry, iterations')
<1>1. flying = NoException /\ live = 0
  BY DEF BeginCall, CallsReplay, IInv, GuardsBalanced
<1>2. /\ status' = "running" /\ live' = live /\ flying' = flying
      /\ stack' = << Scope(suite.entry, << iterations' >>, NoException, 1) >>
      /\ metrics' = FreshMetrics
  BY DEF BeginCall, ResetMetrics
<1>3. Scope(suite.entry, << iterations' >>, NoException, 1)
        = [fn |-> suite.entry, args |-> << iterations' >>, exc |-> NoException,
           pc |-> 1, mark |-> 0, depth |-> 1]
  BY <1>1 DEF Scope
<1>4. /\ metrics'.captures = 0 /\ metrics'.destructors = 0
      /\ metrics'.events = [e \in Events |-> 0]
  BY <1>2 DEF FreshMetrics
<1> QED
  BY <1>1, <1>2, <1>3, <1>4 DEF Core, StartCore

\* and its report holds the final one.
LEMMA FinishReplay ==
  ASSUME IInv, FinishCall
  PROVE  FinalCore(suite.entry, Core)
BY CoreFields DEF FinishCall, FinalCore, AtEnd, Clean

\* Every step keeps the running call and the reports on their way.
LEMMA ReplayStep == IInv /\ CallsReplay /\ [Next]_vars => CallsReplay'
<1> SUFFICES ASSUME IInv, CallsReplay, [Next]_vars PROVE CallsReplay'
  OBVIOUS
<1> DEFINE e == suite.entry
<1>1. Core \in Cores /\ Core' \in Cores
  <2>1. TypeOK /\ TypeOK'
    BY StepInv DEF IInv
  <2>2. (TypeOK => Core \in Cores)'
    BY CoreTyped, PTL
  <2> QED
    BY <2>1, <2>2, CoreTyped
<1>2. CASE BeginCall
  <2>1. status' = "running" /\ reports' = reports /\ suite' = suite /\ flying' = flying
        /\ status = "idle"
    BY <1>2 DEF BeginCall
  <2>2. Core' = StartCore(suite'.entry, iterations')
    BY <1>2, <2>1, BeginReplay
  <2>3. LeadsTo(suite'.entry, StartCore(suite'.entry, iterations'), Core')
    BY <2>2 DEF LeadsTo
  <2> QED
    BY <2>1, <2>3 DEF CallsReplay
<1>3. CASE Statement \/ DestroyGuard \/ Leave \/ UnwindScope \/ EnterHandler
  <2>1. /\ status \in {"running", "unwinding"} /\ status' # "idle"
        /\ status' = "running" => flying' = NoException
        /\ reports' = reports /\ suite' = suite /\ iterations' = iterations
    <3>1. status = "running" => flying = NoException
      BY DEF CallsReplay
    <3> QED
      BY <1>3, <3>1 DEF Statement, ConstructGuard, CaptureTrace, CountEvent, CallFunction,
         EnterTry, Throw, Rethrow, Propagate, Executes, DestroyGuard, Leave, UnwindScope,
         EnterHandler
  <2>2. LeadsTo(e, StartCore(e, iterations), Core)
    BY <2>1 DEF CallsReplay
  <2>3. ~FinalCore(e, Core) /\ Core' = After(e, Core)
    BY <1>3, CoreSteps DEF CallsReplay
  <2>4. LeadsTo(e, StartCore(e, iterations), Core')
    BY <1>1, <2>2, <2>3, OnTheWay
  <2> QED
    BY <2>1, <2>4 DEF CallsReplay
<1>4. CASE FinishCall
  <2> DEFINE r == [iterations |-> iterations, metrics |-> metrics]
  <2>1. /\ status = "running" /\ status' = "idle" /\ flying' = flying
        /\ reports' = Append(reports, r) /\ suite' = suite
    BY <1>4 DEF FinishCall
  <2>2. reports \in Seq([iterations : Nat, metrics : Metrics])
    BY DEF IInv, TypeOK
  <2>3. /\ LeadsTo(e, StartCore(e, iterations), Core) /\ FinalCore(e, Core)
        /\ flying = NoException
    BY <1>4, <2>1, FinishReplay DEF CallsReplay
  <2>4. ASSUME NEW c \in 1 .. Len(reports')
        PROVE  \E d \in Cores :
                 /\ LeadsTo(e, StartCore(e, reports'[c].iterations), d)
                 /\ FinalCore(e, d)
                 /\ d.captures = reports'[c].metrics.captures
                 /\ d.destructors = reports'[c].metrics.destructors
                 /\ d.events = reports'[c].metrics.events
    <3>1. CASE c = Len(reports) + 1
      <4>1. reports'[c] = r
        BY <2>1, <2>2, <3>1
      <4>2. reports'[c].iterations = iterations /\ reports'[c].metrics = metrics
        BY <4>1
      <4> QED
        BY <1>1, <2>3, <4>2, CoreFields
    <3>2. CASE c # Len(reports) + 1
      <4>1. c \in 1 .. Len(reports) /\ reports'[c] = reports[c]
        BY <2>1, <2>2, <3>2
      <4> QED
        BY <4>1 DEF CallsReplay
    <3> QED
      BY <3>1, <3>2
  <2> QED
    BY <2>1, <2>3, <2>4 DEF CallsReplay
<1>5. CASE UNCHANGED vars
  BY <1>5 DEF vars, CallsReplay, Core
<1> QED
  BY <1>2, <1>3, <1>4, <1>5 DEF Next, ScopeExit

\* Two calls with the same iterations do the same captures, destroy the same
\* number of guards and count the same events, on any unwinder and for every
\* program, whatever the call before left in the globals of the library.
THEOREM CallsAreRepeatable == Spec => []Repeatable
<1>1. Init => CallsReplay
  BY DEF Init, CallsReplay
<1>2. ASSUME IInv, CallsReplay PROVE Repeatable
  <2> SUFFICES ASSUME NEW c \in 1 .. Len(reports), NEW d \in 1 .. Len(reports),
                      reports[c].iterations = reports[d].iterations
               PROVE  /\ reports[c].metrics.captures = reports[d].metrics.captures
                      /\ reports[c].metrics.destructors = reports[d].metrics.destructors
                      /\ reports[c].metrics.events = reports[d].metrics.events
    BY DEF Repeatable
  <2>1. reports[c].iterations \in Nat
    <3>1. reports \in Seq([iterations : Nat, metrics : Metrics])
      BY <1>2 DEF IInv, TypeOK
    <3>2. reports[c] \in [iterations : Nat, metrics : Metrics]
      BY <3>1, ElementOfSeq
    <3> QED
      BY <3>2
  <2>2. StartCore(suite.entry, reports[c].iterations) \in Cores
    <3>1. suite.entry \in STRING
      BY <1>2, SuiteFields DEF IInv, TypeOK
    <3> QED
      BY <2>1, <3>1, NoExceptionTyped DEF StartCore, Cores, Frames
  <2>3. PICK b \in Cores :
          /\ LeadsTo(suite.entry, StartCore(suite.entry, reports[c].iterations), b)
          /\ FinalCore(suite.entry, b)
          /\ b.captures = reports[c].metrics.captures
          /\ b.destructors = reports[c].metrics.destructors
          /\ b.events = reports[c].metrics.events
    BY <1>2 DEF CallsReplay
  <2>4. PICK g \in Cores :
          /\ LeadsTo(suite.entry, StartCore(suite.entry, reports[d].iterations), g)
          /\ FinalCore(suite.entry, g)
          /\ g.captures = reports[d].metrics.captures
          /\ g.destructors = reports[d].metrics.destructors
          /\ g.events = reports[d].metrics.events
    BY <1>2 DEF CallsReplay
  <2>5. b = g
    BY <2>2, <2>3, <2>4, OneReturn
  <2> QED
    BY <2>3, <2>4, <2>5
<1> QED
  BY InitInv, StepInv, ReplayStep, <1>1, <1>2, PTL DEF Spec

-----------------------------------------------------------------------------

(***************************************************************************)
(* What NoFalsePass needs to know of a call: the metrics it has so far     *)
(* show each fault of the unwinder that it has met.  Only the metrics of a *)
(* running call count, since those of a finished one stay in g_metrics.    *)
(***************************************************************************)
FaultsShown(c, m) ==
  /\ unwinder.call = c /\ unwinder.at \in 1 .. m.captures => m.minDepth <= unwinder.reach
  /\ ~unwinder.named => m.own = 0

TraceInv ==
  /\ status # "idle" => FaultsShown(Len(reports) + 1, metrics)
  /\ \A c \in 1 .. Len(reports) : FaultsShown(c, reports[c].metrics)

-----------------------------------------------------------------------------

\* A capture shows the fault it meets and hides none that was shown before.
LEMMA CaptureShows ==
  ASSUME NEW m \in Metrics, NEW depth \in Nat, suite \in Suites,
         unwinder \in suite.unwinders, metrics \in Metrics,
         m.captures = metrics.captures, FaultsShown(Len(reports) + 1, m)
  PROVE  FaultsShown(Len(reports) + 1, Captured(m, depth))
<1> DEFINE d == WalkDepth(depth)
           c == Captured(m, depth)
           hit == unwinder.call = Len(reports) + 1 /\ unwinder.at = metrics.captures + 1
<1>1. /\ unwinder.at \in Nat /\ unwinder.reach \in Nat /\ suite.frames \in Nat
      /\ m.captures \in Nat /\ m.minDepth \in Nat
  BY SuiteFields DEF Walkers, Metrics
<1>2. d \in Nat /\ (hit => d <= unwinder.reach)
  BY <1>1, MachineAssumption DEF WalkDepth, Min2
<1>3. /\ c.captures = m.captures + 1
      /\ c.minDepth = Min2(m.minDepth, d)
      /\ c.own = IF d > 0 /\ unwinder.named THEN m.own + 1 ELSE m.own
  BY DEF Captured, Metrics
<1> HIDE DEF c, d
<1>4. c.minDepth <= m.minDepth /\ c.minDepth <= d /\ c.minDepth \in Nat
  BY <1>1, <1>2, <1>3 DEF Min2
<1>5. ASSUME unwinder.call = Len(reports) + 1, unwinder.at \in 1 .. c.captures
      PROVE  c.minDepth <= unwinder.reach
  <2>1. CASE unwinder.at \in 1 .. m.captures
    BY <1>1, <1>4, <1>5, <2>1 DEF FaultsShown
  <2>2. CASE unwinder.at = m.captures + 1
    BY <1>1, <1>2, <1>4, <1>5, <2>2
  <2> QED
    BY <1>1, <1>3, <1>5, <2>1, <2>2
<1>6. ~unwinder.named => c.own = 0
  BY <1>3 DEF FaultsShown
<1> QED
  BY <1>5, <1>6 DEF FaultsShown, c

\* Steps that leave the traces and the reports alone.
LEMMA TracesUntouched ==
  ASSUME TypeOK, TraceInv, status # "idle", unwinder' = unwinder, reports' = reports,
         metrics'.captures = metrics.captures,
         metrics'.minDepth = metrics.minDepth, metrics'.own = metrics.own
  PROVE  TraceInv'
BY DEF TraceInv, FaultsShown

\* Every step keeps the faults met so far in the metrics.
LEMMA TraceStep == IInv /\ TraceInv /\ [Next]_vars => TraceInv'
<1> SUFFICES ASSUME IInv, TraceInv, [Next]_vars PROVE TraceInv'
  OBVIOUS
<1> USE DEF IInv
<1>1. CASE BeginCall
  <2>1. /\ metrics'.captures = 0 /\ metrics'.own = 0
        /\ unwinder' = unwinder /\ reports' = reports
    BY <1>1 DEF BeginCall, ResetMetrics, FreshMetrics
  <2>2. FaultsShown(Len(reports) + 1, metrics)'
    BY <2>1 DEF FaultsShown
  <2> QED
    BY <2>1, <2>2 DEF TraceInv, FaultsShown
<1>2. CASE CaptureTrace
  <2>1. /\ Top.depth \in Nat /\ status = "running"
        /\ metrics' = Captured(metrics, Top.depth)
        /\ unwinder' = unwinder /\ reports' = reports /\ metrics \in Metrics
    BY <1>2, ExecutesRunning DEF CaptureTrace, TypeOK
  <2>2. FaultsShown(Len(reports) + 1, metrics')
    BY <2>1, CaptureShows DEF TraceInv, TypeOK
  <2> QED
    BY <2>1, <2>2 DEF TraceInv, FaultsShown
<1>3. CASE DestroyGuard
  <2> DEFINE counted == [metrics EXCEPT !.destructors = @ + 1]
  <2>1. /\ status \in {"running", "unwinding"} /\ unwinder' = unwinder
        /\ reports' = reports /\ metrics' = Captured(counted, Top.depth)
    BY <1>3 DEF DestroyGuard
  <2>2. Len(stack) > 0 /\ stack \in Seq(Frames) /\ metrics \in Metrics
    BY <2>1 DEF TypeOK, StackInv
  <2>3. Top.depth \in Nat
    BY <2>2, TopFrame
  <2>4. /\ counted \in Metrics /\ counted.captures = metrics.captures
        /\ counted.minDepth = metrics.minDepth /\ counted.own = metrics.own
    BY <2>2 DEF Metrics
  <2> HIDE DEF counted
  <2>5. FaultsShown(Len(reports) + 1, counted)
    BY <2>1, <2>4 DEF TraceInv, FaultsShown
  <2>6. FaultsShown(Len(reports) + 1, metrics')
    BY <2>1, <2>2, <2>3, <2>4, <2>5, CaptureShows DEF TypeOK
  <2> QED
    BY <2>1, <2>6 DEF TraceInv, FaultsShown
<1>4. CASE CountEvent
  <2>1. metrics \in Metrics /\ status = "running"
    BY <1>4 DEF TypeOK, CountEvent, Executes
  <2>2. /\ metrics'.captures = metrics.captures
        /\ metrics'.minDepth = metrics.minDepth /\ metrics'.own = metrics.own
    BY <1>4, <2>1 DEF CountEvent, Metrics
  <2> QED
    BY <1>4, <2>1, <2>2, TracesUntouched DEF CountEvent
<1>5. CASE ConstructGuard \/ CallFunction \/ EnterTry \/ Throw \/ Rethrow
  BY <1>5, TracesUntouched
     DEF ConstructGuard, CallFunction, EnterTry, Throw, Rethrow, Propagate, Executes
<1>6. CASE Leave \/ UnwindScope \/ EnterHandler
  BY <1>6, TracesUntouched DEF Leave, UnwindScope, EnterHandler
<1>7. CASE FinishCall
  <2>1. /\ status = "running" /\ status' = "idle" /\ unwinder' = unwinder
        /\ reports' = Append(reports, [iterations |-> iterations, metrics |-> metrics])
    BY <1>7 DEF FinishCall
  <2>2. /\ Len(reports') = Len(reports) + 1
        /\ reports'[Len(reports) + 1].metrics = metrics
        /\ \A c \in 1 .. Len(reports) : reports'[c] = reports[c]
    BY <2>1 DEF TypeOK
  <2> QED
    BY <2>1, <2>2 DEF TraceInv, FaultsShown, TypeOK
<1>8. CASE UNCHANGED vars
  BY <1>8 DEF vars, TraceInv, FaultsShown
<1> QED
  BY <1>1, <1>2, <1>3, <1>4, <1>5, <1>6, <1>7, <1>8 DEF Next, Statement, ScopeExit

-----------------------------------------------------------------------------

\* The verdict judges traces: a minimum depth below 5, or under strict no frame in
\* the library, never gives 0.
VerdictJudgesTraces ==
  \A s \in Suites, m \in Metrics, n \in Nat, strict \in BOOLEAN :
    m.minDepth < 5 \/ (strict /\ m.own = 0) => Verdict(s.entry, m, n, strict) # 0

\* Metrics that show each fault make NoFalsePass an invariant.
LEMMA NoFalsePassStep ==
  ASSUME VerdictJudgesTraces, TypeOK, TraceInv
  PROVE  NoFalsePass
<1> SUFFICES ASSUME NEW c \in 1 .. Len(reports), ~Sound(c)
             PROVE  Rc(reports[c]) # 0
  BY DEF NoFalsePass
<1>1. reports[c] \in [iterations : Nat, metrics : Metrics]
  <2> DEFINE R == [iterations : Nat, metrics : Metrics]
  <2>1. reports \in Seq(R)
    BY DEF TypeOK
  <2> HIDE DEF R
  <2>2. reports[c] \in R
    BY <2>1
  <2> QED
    BY <2>2 DEF R
<1> DEFINE m == reports[c].metrics
<1>2. m \in Metrics /\ reports[c].iterations \in Nat
  BY <1>1
<1>3. m.minDepth < 5 \/ (Strict /\ m.own = 0)
  <2>1. CASE Strict /\ ~unwinder.named
    BY <2>1 DEF TraceInv, FaultsShown
  <2>2. CASE unwinder.call = c /\ unwinder.at \in 1 .. m.captures /\ unwinder.reach < 5
    <3>1. m.minDepth <= unwinder.reach
      BY <2>2 DEF TraceInv, FaultsShown
    <3>2. m.minDepth \in Nat /\ unwinder.reach \in Nat
      BY <1>2, SuiteFields DEF Metrics, Walkers, TypeOK
    <3> QED
      BY <2>2, <3>1, <3>2
  <2> QED
    BY <2>1, <2>2 DEF Sound
<1>4. suite \in Suites
  BY DEF TypeOK
<1> QED
  BY <1>2, <1>3, <1>4, MachineAssumption DEF VerdictJudgesTraces, Rc

\* For every program, unwind runtime, number of calls and position of the fault: one
\* cut walk, or a library that is never named under strict, fails the call in which
\* it happened, whatever exceptions the walk was made under.
THEOREM NeverPassesFalsely == VerdictJudgesTraces /\ Spec => []NoFalsePass
<1> DEFINE J == VerdictJudgesTraces
<1>1. Init => TraceInv
  BY DEF Init, TraceInv
<1>2. J /\ [Next]_vars => J'
  BY DEF VerdictJudgesTraces
<1>3. J /\ IInv /\ TraceInv => NoFalsePass
  BY NoFalsePassStep DEF IInv
<1> HIDE DEF J
<1>4. J /\ Spec => []NoFalsePass
  BY InitInv, StepInv, TraceStep, <1>1, <1>2, <1>3, PTL DEF Spec
<1> QED
  BY <1>4 DEF J

-----------------------------------------------------------------------------

(***************************************************************************)
(* Sound calls.  A call none of whose walks was cut below 5 frames so far  *)
(* shows no shallow trace, and every trace of it reached the library.      *)
(***************************************************************************)
Whole(c, m) ==
  ~(unwinder.call = c /\ unwinder.at \in 1 .. m.captures /\ unwinder.reach < 5)

TracesWhole(c, m) ==
  Whole(c, m) => m.minDepth >= 5 /\ (unwinder.named => m.own = m.captures)

WholeInv ==
  /\ \A k \in 1 .. Len(stack) : stack[k].depth >= 1
  /\ status # "idle" =>
       TracesWhole(Len(reports) + 1, metrics) /\ metrics.captures >= metrics.destructors
  /\ \A c \in 1 .. Len(reports) :
       LET m == reports[c].metrics
       IN  /\ TracesWhole(c, m) /\ m.captures >= m.destructors
           /\ (m.minDepth < 5) <=> (m.shallow > 0)

\* What the surroundings of a suite grant: main, what runs it, and a function of the
\* suite make up five frames, and the buffer takes them.
RoomForTraces == BaseFrames >= 3 /\ \A s \in Suites : s.frames >= 5

\* A capture keeps the traces whole.
LEMMA CaptureWhole ==
  ASSUME RoomForTraces, NEW m \in Metrics, NEW depth \in Nat, depth >= 1, suite \in Suites,
         unwinder \in suite.unwinders, metrics \in Metrics, reports \in Seq([iterations : Nat, metrics : Metrics]),
         m.captures = metrics.captures, TracesWhole(Len(reports) + 1, m)
  PROVE  /\ TracesWhole(Len(reports) + 1, Captured(m, depth))
         /\ Captured(m, depth).captures = m.captures + 1
         /\ Captured(m, depth).destructors = m.destructors
<1> DEFINE d == WalkDepth(depth)
           c == Captured(m, depth)
           call == Len(reports) + 1
           hit == unwinder.call = call /\ unwinder.at = metrics.captures + 1
<1>1. /\ unwinder.at \in Nat /\ unwinder.reach \in Nat /\ suite.frames \in Nat
      /\ m.captures \in Nat /\ m.minDepth \in Nat /\ suite.frames >= 5
      /\ BaseFrames \in Nat /\ BaseFrames >= 3
  BY SuiteFields, MachineAssumption DEF Walkers, Metrics, RoomForTraces
<1>2. d = Min2(suite.frames, IF hit THEN Min2(BaseFrames + depth + 1, unwinder.reach)
                             ELSE BaseFrames + depth + 1)
  BY DEF WalkDepth
<1>3. /\ c.captures = m.captures + 1 /\ c.destructors = m.destructors
      /\ c.minDepth = Min2(m.minDepth, d)
      /\ c.own = IF d > 0 /\ unwinder.named THEN m.own + 1 ELSE m.own
  BY DEF Captured, Metrics
<1> HIDE DEF c, d, call
<1>4. ASSUME Whole(call, c)
      PROVE  c.minDepth >= 5 /\ (unwinder.named => c.own = c.captures)
  <2>1. Whole(call, m) /\ (hit => unwinder.reach >= 5)
    <3>1. \A x : x \in 1 .. m.captures => x \in 1 .. c.captures
      BY <1>1, <1>3
    <3>2. hit => unwinder.at \in 1 .. c.captures
      BY <1>1, <1>3
    <3> QED
      BY <1>1, <1>4, <3>1, <3>2 DEF Whole
  <2>2. d \in Nat /\ d >= 5
    BY <1>1, <1>2, <2>1 DEF Min2
  <2>3. m.minDepth >= 5 /\ (unwinder.named => m.own = m.captures)
    BY <2>1 DEF TracesWhole, call
  <2> QED
    BY <1>1, <1>3, <2>2, <2>3 DEF Min2
<1> QED
  BY <1>3, <1>4 DEF TracesWhole, c, call

\* Steps that leave the traces and the reports alone.
LEMMA WholeUntouched ==
  ASSUME TypeOK, WholeInv, status # "idle", unwinder' = unwinder, reports' = reports,
         metrics'.captures = metrics.captures, metrics'.destructors = metrics.destructors,
         metrics'.minDepth = metrics.minDepth, metrics'.own = metrics.own,
         \A k \in 1 .. Len(stack') : stack'[k].depth >= 1
  PROVE  WholeInv'
BY DEF WholeInv, TracesWhole, Whole

\* The depths of the stack once the innermost scope has moved on, or is left.
LEMMA DepthsMoved ==
  ASSUME stack \in Seq(Frames), Len(stack) > 0, \A k \in 1 .. Len(stack) : stack[k].depth >= 1
  PROVE  /\ Top.depth \in Nat /\ Top.depth >= 1
         /\ Advanced \in Seq(Frames) /\ Below \in Seq(Frames)
         /\ \A k \in 1 .. Len(Advanced) : Advanced[k].depth >= 1
         /\ \A k \in 1 .. Len(Below) : Below[k].depth >= 1
<1>1. Len(stack) \in Nat /\ Len(stack) \in 1 .. Len(stack) /\ Top \in Frames /\ Top.depth \in Nat
  BY TopFrame
<1>2. Top.depth >= 1
  BY <1>1 DEF Top
<1>3. Advanced \in Seq(Frames) /\ Len(Advanced) = Len(stack)
  BY AdvancedStack
<1>4. [Top EXCEPT !.pc = @ + 1].depth = Top.depth
  BY <1>1 DEF Frames
<1>5. \A k \in 1 .. Len(stack) :
        Advanced[k] = IF k = Len(stack) THEN [Top EXCEPT !.pc = @ + 1] ELSE stack[k]
  BY DEF Advanced, Top
<1>6. /\ Below \in Seq(Frames) /\ Len(Below) = Len(stack) - 1
      /\ \A k \in 1 .. Len(stack) - 1 : Below[k] = stack[k]
  BY FrontOf DEF Below
<1>7. \A k \in 1 .. Len(Advanced) : Advanced[k].depth >= 1
  BY <1>2, <1>3, <1>4, <1>5
<1>8. \A k \in 1 .. Len(Below) : Below[k].depth >= 1
  BY <1>1, <1>6
<1> QED
  BY <1>1, <1>2, <1>3, <1>6, <1>7, <1>8

\* A scope entered with a stack of frames has frames to be walked too.
LEMMA DepthsPushed ==
  ASSUME NEW s \in Seq(Frames), NEW f, f.depth >= 1, \A k \in 1 .. Len(s) : s[k].depth >= 1
  PROVE  \A k \in 1 .. Len(Append(s, f)) : Append(s, f)[k].depth >= 1
OBVIOUS

\* Counting a destructor changes no other metric.
LEMMA CountedDestructor ==
  ASSUME NEW m \in Metrics
  PROVE  /\ [m EXCEPT !.destructors = @ + 1] \in Metrics
         /\ [m EXCEPT !.destructors = @ + 1].captures = m.captures
         /\ [m EXCEPT !.destructors = @ + 1].minDepth = m.minDepth
         /\ [m EXCEPT !.destructors = @ + 1].own = m.own
         /\ [m EXCEPT !.destructors = @ + 1].destructors = m.destructors + 1
BY DEF Metrics

\* Every step keeps the traces of a call whole.
LEMMA WholeStep == RoomForTraces /\ IInv /\ WholeInv /\ [Next]_vars => WholeInv'
<1> SUFFICES ASSUME RoomForTraces, IInv, WholeInv, [Next]_vars PROVE WholeInv'
  OBVIOUS
<1> USE DEF IInv
<1>1. CASE BeginCall
  <2>1. /\ metrics'.captures = 0 /\ metrics'.own = 0 /\ metrics'.destructors = 0
        /\ metrics'.minDepth = 1000000
        /\ unwinder' = unwinder /\ reports' = reports
    BY <1>1 DEF BeginCall, ResetMetrics, FreshMetrics
  <2>2. TracesWhole(Len(reports) + 1, metrics)'
    BY <2>1 DEF TracesWhole
  <2>3. \A k \in 1 .. Len(stack') : stack'[k].depth >= 1
    <3>1. PICK n : stack' = << Scope(suite.entry, << n >>, NoException, 1) >>
      BY <1>1 DEF BeginCall
    <3> QED
      BY <3>1 DEF Scope
  <2> QED
    BY <2>1, <2>2, <2>3 DEF WholeInv, TracesWhole, Whole
<1>2. ASSUME status # "idle", Len(stack) > 0
      PROVE  /\ Top.depth \in Nat /\ Top.depth >= 1
             /\ Advanced \in Seq(Frames) /\ Below \in Seq(Frames)
             /\ \A k \in 1 .. Len(Advanced) : Advanced[k].depth >= 1
             /\ \A k \in 1 .. Len(Below) : Below[k].depth >= 1
  BY <1>2, DepthsMoved DEF WholeInv, TypeOK
<1>3. CASE CaptureTrace
  <2>1. /\ status = "running" /\ status' = status /\ Len(stack) > 0
        /\ metrics' = Captured(metrics, Top.depth) /\ stack' = Advanced
        /\ unwinder' = unwinder /\ reports' = reports
        /\ metrics \in Metrics /\ reports \in Seq([iterations : Nat, metrics : Metrics])
        /\ suite \in Suites /\ unwinder \in suite.unwinders
    BY <1>3, ExecutesRunning DEF CaptureTrace, TypeOK
  <2>2. TracesWhole(Len(reports) + 1, metrics) /\ metrics.captures >= metrics.destructors
    BY <2>1 DEF WholeInv
  <2>3. /\ TracesWhole(Len(reports) + 1, metrics')
        /\ metrics'.captures = metrics.captures + 1
        /\ metrics'.destructors = metrics.destructors
    BY <1>2, <2>1, <2>2, CaptureWhole
  <2>4. metrics.captures \in Nat /\ metrics.destructors \in Nat
    BY <2>1 DEF Metrics
  <2>5. metrics'.captures >= metrics'.destructors
    BY <2>2, <2>3, <2>4
  <2>6. \A k \in 1 .. Len(stack') : stack'[k].depth >= 1
    BY <1>2, <2>1
  <2> QED
    BY <2>1, <2>3, <2>5, <2>6 DEF WholeInv, TracesWhole, Whole
<1>4. CASE DestroyGuard
  <2> DEFINE counted == [metrics EXCEPT !.destructors = @ + 1]
  <2>1. /\ status \in {"running", "unwinding"} /\ unwinder' = unwinder
        /\ reports' = reports /\ metrics' = Captured(counted, Top.depth) /\ stack' = stack
    BY <1>4 DEF DestroyGuard
  <2>2. /\ Len(stack) > 0 /\ metrics \in Metrics
        /\ reports \in Seq([iterations : Nat, metrics : Metrics])
        /\ suite \in Suites /\ unwinder \in suite.unwinders
    BY <2>1 DEF TypeOK, StackInv
  <2>3. /\ counted \in Metrics /\ counted.captures = metrics.captures
        /\ counted.minDepth = metrics.minDepth /\ counted.own = metrics.own
        /\ counted.destructors = metrics.destructors + 1
    BY <2>2, CountedDestructor
  <2> HIDE DEF counted
  <2>4. TracesWhole(Len(reports) + 1, counted) /\ metrics.captures >= metrics.destructors
    BY <2>1, <2>3 DEF WholeInv, TracesWhole, Whole
  <2>5. /\ TracesWhole(Len(reports) + 1, metrics')
        /\ metrics'.captures = metrics.captures + 1
        /\ metrics'.destructors = metrics.destructors + 1
    BY <1>2, <2>1, <2>2, <2>3, <2>4, CaptureWhole
  <2>6. metrics.captures \in Nat /\ metrics.destructors \in Nat
    BY <2>2 DEF Metrics
  <2>7. metrics'.captures >= metrics'.destructors
    BY <2>4, <2>5, <2>6
  <2> QED
    BY <2>1, <2>5, <2>7 DEF WholeInv, TracesWhole, Whole
<1>5. CASE CountEvent
  <2>1. metrics \in Metrics /\ status = "running" /\ Len(stack) > 0
    BY <1>5, ExecutesRunning DEF TypeOK, CountEvent
  <2>2. /\ metrics'.captures = metrics.captures /\ metrics'.destructors = metrics.destructors
        /\ metrics'.minDepth = metrics.minDepth /\ metrics'.own = metrics.own
    BY <1>5, <2>1 DEF CountEvent, Metrics
  <2> QED
    BY <1>2, <1>5, <2>1, <2>2, WholeUntouched DEF CountEvent
<1>6. CASE ConstructGuard
  <2>1. status = "running" /\ Len(stack) > 0
    BY <1>6, ExecutesRunning DEF ConstructGuard
  <2> QED
    BY <1>2, <1>6, <2>1, WholeUntouched DEF ConstructGuard
<1>7. CASE CallFunction \/ EnterTry
  <2>1. PICK s : \E depth \in {Top.depth, Top.depth + 1} :
                   stack' = Append(Advanced, Scope(s.fn, s.args, NoException, depth))
    BY <1>7 DEF CallFunction, EnterTry
  <2>2. status = "running" /\ Len(stack) > 0
    BY <1>7, ExecutesRunning DEF CallFunction, EnterTry
  <2>3. PICK depth \in {Top.depth, Top.depth + 1} :
                   stack' = Append(Advanced, Scope(s.fn, s.args, NoException, depth))
    BY <2>1
  <2>4. Scope(s.fn, s.args, NoException, depth).depth >= 1
    BY <1>2, <2>2 DEF Scope
  <2>5. \A k \in 1 .. Len(stack') : stack'[k].depth >= 1
    BY <1>2, <2>2, <2>3, <2>4, DepthsPushed
  <2> QED
    BY <1>7, <2>2, <2>5, WholeUntouched DEF CallFunction, EnterTry
<1>8. CASE Throw \/ Rethrow
  <2>1. /\ status # "idle" /\ stack' = stack /\ unwinder' = unwinder /\ reports' = reports
        /\ metrics' = metrics
    BY <1>8 DEF Throw, Rethrow, Propagate, Executes
  <2> QED
    BY <2>1, WholeUntouched DEF WholeInv
<1>9. CASE Leave \/ UnwindScope \/ EnterHandler
  <2>1. /\ status # "idle" /\ Len(stack) > 0 /\ unwinder' = unwinder /\ reports' = reports
        /\ metrics' = metrics
    BY <1>9 DEF Leave, UnwindScope, EnterHandler, StackInv
  <2>2. \A k \in 1 .. Len(stack') : stack'[k].depth >= 1
    <3>1. CASE Leave \/ UnwindScope
      BY <1>2, <2>1, <3>1 DEF Leave, UnwindScope
    <3>2. CASE EnterHandler
      <4>1. PICK f : stack' = Append(Below, f) /\ f.depth = Top.depth
        BY <3>2 DEF EnterHandler, Scope
      <4> QED
        BY <1>2, <2>1, <4>1, DepthsPushed
    <3> QED
      BY <1>9, <3>1, <3>2
  <2> QED
    BY <2>1, <2>2, WholeUntouched
<1>10. CASE FinishCall
  <2>1. /\ status = "running" /\ status' = "idle" /\ unwinder' = unwinder /\ stack' = << >>
        /\ reports' = Append(reports, [iterations |-> iterations, metrics |-> metrics])
    BY <1>10 DEF FinishCall
  <2>2. /\ Len(reports') = Len(reports) + 1
        /\ reports'[Len(reports) + 1].metrics = metrics
        /\ \A c \in 1 .. Len(reports) : reports'[c] = reports[c]
    BY <2>1 DEF TypeOK
  <2> QED
    BY <2>1, <2>2 DEF WholeInv, TracesWhole, Whole, TypeOK, ShallowAgrees
<1>11. CASE UNCHANGED vars
  BY <1>11 DEF vars, WholeInv, TracesWhole, Whole
<1> QED
  BY <1>1, <1>3, <1>4, <1>5, <1>6, <1>7, <1>8, <1>9, <1>10, <1>11 DEF Next, Statement, ScopeExit
=============================================================================
