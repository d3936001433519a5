--------------------------- MODULE ContractProofs ---------------------------
(***************************************************************************)
(* UnwindMachine keeps the contracts of every program that has them, and   *)
(* how a scope is shown to have one from the shape of its statements.      *)
(***************************************************************************)
EXTENDS Contracts, UnwindMachineProofs, WellFoundedInduction, FiniteSetTheorems

\* Every set of numbers that is not empty has a least one.
LEMMA Least ==
  ASSUME NEW T, T \subseteq Nat, T # {}
  PROVE  \E x \in T : \A y \in T : x <= y
<1> DEFINE R == OpToRel(<, Nat)
<1>1. IsWellFoundedOn(R, Nat)
  BY NatLessThanWellFounded
<1>2. \A x, y \in Nat : y < x => <<y, x>> \in R
  BY DEF OpToRel
<1> HIDE DEF R
<1>3. PICK x \in T : \A y \in T : ~(<<y, x>> \in R)
  BY <1>1, WFMin
<1>4. ASSUME NEW y \in T PROVE x <= y
  <2>1. x \in Nat /\ y \in Nat
    OBVIOUS
  <2>2. ~(y < x)
    BY <1>2, <1>3, <2>1
  <2> QED
    BY <2>1, <2>2
<1> QED
  BY <1>4

\* Induction, for a set instead of a formula.
LEMMA SetInduction ==
  ASSUME NEW S, 0 \in S, \A n \in Nat : n \in S => n + 1 \in S
  PROVE  Nat \subseteq S
<1> DEFINE T == Nat \ S
<1> SUFFICES ASSUME T # {} PROVE FALSE
  OBVIOUS
<1>1. PICK x \in T : \A y \in T : x <= y
  BY Least
<1>2. x \in Nat /\ x # 0
  OBVIOUS
<1>3. x - 1 \in Nat /\ ~(x <= x - 1) /\ (x - 1) + 1 = x
  BY <1>2
<1>4. x - 1 \in S
  BY <1>1, <1>3
<1> QED
  BY <1>3, <1>4

-----------------------------------------------------------------------------

(***************************************************************************)
(* The machine.  Left is what a scope is still to add by its plan; a frame *)
(* fits when it was entered as its contract says and its counter is in its *)
(* body; a frame is linked to the one above it when it can bear whatever   *)
(* leaves that one.                                                        *)
(***************************************************************************)
Plan(e, m, fn, args, exc) == CHOOSE left : IsPlan(m, e, fn, args, exc, left)
Left(e, m, f) == Plan(e, m, f.fn, f.args, f.exc)[f.pc]

Fits(e, f) ==
  /\ f.exc.type \in Enters(e, f.fn, f.args)
  /\ f.pc <= Len(Body(e, f.fn, f.args, f.exc)) + 1

Linked(e, below, above) ==
  /\ \A t \in Leaks(e, above.fn, above.args) :
       /\ t \in Raises(e, below.fn, below.args)
       /\ \A m \in Ledgers(e) :
            Covers(m, Left(e, m, below) + Fare(m), Settled(m, e, below.fn, below.args, t))
  /\ "pending" \in Ledgers(e) => Left(e, "pending", below) = 0

Chain(e, s) ==
  /\ \A k \in 1 .. Len(s) : Fits(e, s[k])
  /\ Len(s) > 0 => Leaks(e, s[1].fn, s[1].args) = {}
  /\ \A k \in 1 .. Len(s) - 1 : Linked(e, s[k], s[k + 1])

\* Every exception in flight is one its scopes are prepared for.
OrderInv ==
  /\ status # "terminated"
  /\ Chain(suite.entry, stack)
  /\ status = "unwinding" => flying.type \in Raises(suite.entry, Top.fn, Top.args)

\* The hypothesis of the machine's part: every program keeps its contracts, and "terminate"
\* is no clause of any.
Contracted ==
  /\ Counters \subseteq Events
  /\ \A s \in Suites : /\ Ledgers(s.entry) \subseteq AllLedgers /\ Disciplined(s.entry)
                       /\ \A args : Enters(s.entry, "terminate", args) = {}

\* Moving a frame to its next statement changes nothing but its pc.
LEMMA MovedFrame ==
  ASSUME NEW f \in Frames
  PROVE  /\ [f EXCEPT !.pc = @ + 1] \in Frames
         /\ [f EXCEPT !.pc = @ + 1].fn = f.fn /\ [f EXCEPT !.pc = @ + 1].args = f.args
         /\ [f EXCEPT !.pc = @ + 1].exc = f.exc /\ [f EXCEPT !.pc = @ + 1].pc = f.pc + 1
<1>1. f = [fn |-> f.fn, args |-> f.args, exc |-> f.exc, pc |-> f.pc,
           mark |-> f.mark, depth |-> f.depth]
  BY DEF Frames
<1>2. [f EXCEPT !.pc = @ + 1] = [fn |-> f.fn, args |-> f.args, exc |-> f.exc,
           pc |-> f.pc + 1, mark |-> f.mark, depth |-> f.depth]
  BY <1>1
<1> QED
  BY <1>2, FrameFields

\* Advanced moves the innermost frame alone.
LEMMA MovedTop ==
  ASSUME stack \in Seq(Frames), Len(stack) > 0
  PROVE  /\ Advanced \in Seq(Frames) /\ Len(Advanced) = Len(stack)
         /\ \A k \in 1 .. Len(stack) - 1 : Advanced[k] = stack[k]
         /\ Advanced[Len(stack)].fn = Top.fn /\ Advanced[Len(stack)].args = Top.args
         /\ Advanced[Len(stack)].exc = Top.exc /\ Advanced[Len(stack)].pc = Top.pc + 1
<1>1. Len(stack) \in 1 .. Len(stack) /\ Top \in Frames
  BY DEF Top
<1>2. Advanced = [stack EXCEPT ![Len(stack)] = [Top EXCEPT !.pc = @ + 1]]
  BY <1>1 DEF Advanced, Top
<1> DEFINE moved == [Top EXCEPT !.pc = @ + 1]
<1>3. /\ moved \in Frames
      /\ moved.fn = Top.fn /\ moved.args = Top.args
      /\ moved.exc = Top.exc /\ moved.pc = Top.pc + 1
  BY <1>1, MovedFrame
<1> HIDE DEF moved
<1>4. Advanced = [stack EXCEPT ![Len(stack)] = moved]
  BY <1>2 DEF moved
<1> QED
  BY <1>1, <1>3, <1>4

\* What the contract of a frame that fits says.
LEMMA FrameKeeps ==
  ASSUME NEW e, Disciplined(e), NEW f \in Frames, Fits(e, f)
  PROVE  Keeps(e, f.fn, f.args, f.exc)
BY FrameFields DEF Disciplined, Orderly, Fits

\* A frame that fits has a plan for each of its accounts.
LEMMA PlanHolds ==
  ASSUME NEW e, Disciplined(e), NEW f \in Frames, Fits(e, f), NEW m \in Ledgers(e)
  PROVE  IsPlan(m, e, f.fn, f.args, f.exc, Plan(e, m, f.fn, f.args, f.exc))
<1>1. /\ f.fn \in STRING /\ f.args \in Seq(Int) /\ f.exc \in MaybeException
      /\ f.exc.type \in Enters(e, f.fn, f.args)
  BY FrameFields DEF Fits
<1>2. \E left : IsPlan(m, e, f.fn, f.args, f.exc, left)
  <2>1. CASE m \in Accounts(e)
    BY <2>1, FrameKeeps DEF Keeps
  <2>2. CASE m \in SeedAccounts(e)
    BY <1>1, <2>2 DEF Disciplined
  <2> QED
    BY <2>1, <2>2 DEF Ledgers
<1> QED
  BY <1>2 DEF Plan

\* The same, where the scope stands.
LEMMA LeftOf ==
  ASSUME NEW e, Disciplined(e), NEW f \in Frames, Fits(e, f), NEW m \in Ledgers(e)
  PROVE  /\ Left(e, m, f) \in Int
         /\ f.pc = 1 => Left(e, m, f) = Work(m, e, f.fn, f.args)
         /\ f.pc > Len(Body(e, f.fn, f.args, f.exc)) => Left(e, m, f) = 0
<1> DEFINE body == Body(e, f.fn, f.args, f.exc)
           left == Plan(e, m, f.fn, f.args, f.exc)
<1>1. Len(body) \in Nat /\ IsPlan(m, e, f.fn, f.args, f.exc, left)
  BY FrameKeeps, PlanHolds DEF Keeps
<1>2. f.pc \in Nat \ {0} /\ f.pc <= Len(body) + 1
  BY FrameFields DEF Fits
<1>3. /\ left \in [1 .. Len(body) + 1 -> Int]
      /\ left[1] = Work(m, e, f.fn, f.args)
      /\ left[Len(body) + 1] = 0
  BY <1>1 DEF IsPlan
<1> HIDE DEF left, body
<1>4. Left(e, m, f) = left[f.pc]
  BY DEF Left, left
<1>5. Len(body) \in Nat
  BY <1>1
<1>6. f.pc > Len(body) => f.pc = Len(body) + 1
  BY <1>2, <1>5
<1> QED
  BY <1>2, <1>3, <1>4, <1>5, <1>6 DEF body

\* The chain of open scopes is kept when the innermost is left,
LEMMA ChainFront ==
  ASSUME NEW e, NEW s \in Seq(Frames), Len(s) > 0, Chain(e, s)
  PROVE  Chain(e, SubSeq(s, 1, Len(s) - 1))
<1> DEFINE t == SubSeq(s, 1, Len(s) - 1)
<1>1. Len(t) = Len(s) - 1 /\ \A k \in 1 .. Len(t) : t[k] = s[k]
  BY FrontOf
<1> HIDE DEF t
<1>2. \A k \in 1 .. Len(t) : Fits(e, t[k])
  BY <1>1 DEF Chain
<1>3. Len(t) > 0 => Leaks(e, t[1].fn, t[1].args) = {}
  <2>1. Len(t) > 0 => t[1] = s[1]
    BY <1>1
  <2> QED
    BY <2>1 DEF Chain
<1>4. \A k \in 1 .. Len(t) - 1 : Linked(e, t[k], t[k + 1])
  BY <1>1 DEF Chain
<1> QED
  BY <1>2, <1>3, <1>4 DEF Chain, t

\* when a scope its caller may enter is pushed,
LEMMA ChainPush ==
  ASSUME NEW e, NEW s \in Seq(Frames), NEW f \in Frames, Chain(e, s), Fits(e, f),
         Len(s) = 0 => Leaks(e, f.fn, f.args) = {},
         Len(s) > 0 => Linked(e, s[Len(s)], f)
  PROVE  Chain(e, Append(s, f))
<1> DEFINE t == Append(s, f)
<1>1. Len(t) = Len(s) + 1 /\ t[Len(t)] = f /\ \A k \in 1 .. Len(s) : t[k] = s[k]
  OBVIOUS
<1> HIDE DEF t
<1>2. \A k \in 1 .. Len(t) : Fits(e, t[k])
  BY <1>1 DEF Chain
<1>3. Leaks(e, t[1].fn, t[1].args) = {}
  <2>1. CASE Len(s) = 0
    BY <1>1, <2>1
  <2>2. CASE Len(s) > 0
    <3>1. t[1] = s[1]
      BY <1>1, <2>2
    <3> QED
      BY <2>2, <3>1 DEF Chain
  <2> QED
    BY <2>1, <2>2
<1>4. \A k \in 1 .. Len(t) - 1 : Linked(e, t[k], t[k + 1])
  <2> SUFFICES ASSUME NEW k \in 1 .. Len(s) PROVE Linked(e, t[k], t[k + 1])
    BY <1>1
  <2>1. CASE k < Len(s)
    BY <1>1, <2>1 DEF Chain
  <2>2. CASE k = Len(s)
    BY <1>1, <2>2
  <2> QED
    BY <2>1, <2>2
<1> QED
  BY <1>2, <1>3, <1>4 DEF Chain, t

\* and when the innermost moves to its next statement.
LEMMA ChainAdvance ==
  ASSUME NEW e, e = suite.entry, stack \in Seq(Frames), Len(stack) > 0, Chain(e, stack),
         Disciplined(e), ~AtEnd
  PROVE  Chain(e, Advanced)
<1>1. /\ Advanced \in Seq(Frames) /\ Len(Advanced) = Len(stack)
      /\ \A k \in 1 .. Len(stack) - 1 : Advanced[k] = stack[k]
      /\ Advanced[Len(stack)].fn = Top.fn /\ Advanced[Len(stack)].args = Top.args
      /\ Advanced[Len(stack)].exc = Top.exc /\ Advanced[Len(stack)].pc = Top.pc + 1
  BY MovedTop
<1>2. Top \in Frames /\ Fits(e, Top) /\ Top.pc \in Nat
  <2>1. Top \in Frames /\ Fits(e, Top)
    BY DEF Top, Chain
  <2> QED
    BY <2>1, FrameFields
<1>3. Len(Body(e, Top.fn, Top.args, Top.exc)) \in Nat
  BY <1>2, FrameKeeps DEF Keeps
<1>4. Fits(e, Advanced[Len(stack)])
  BY <1>1, <1>2, <1>3 DEF Fits, AtEnd, Statements
<1>5. \A k \in 1 .. Len(Advanced) : Fits(e, Advanced[k])
  BY <1>1, <1>4 DEF Chain
<1>6. Leaks(e, Advanced[1].fn, Advanced[1].args) = {}
  <2>1. Advanced[1].fn = stack[1].fn /\ Advanced[1].args = stack[1].args
    BY <1>1 DEF Top
  <2> QED
    BY <2>1 DEF Chain
<1>7. ASSUME NEW k \in 1 .. Len(stack) - 1
      PROVE  Linked(e, Advanced[k], Advanced[k + 1])
  <2>1. /\ Advanced[k] = stack[k]
        /\ Advanced[k + 1].fn = stack[k + 1].fn /\ Advanced[k + 1].args = stack[k + 1].args
    BY <1>1 DEF Top
  <2>2. Linked(e, stack[k], stack[k + 1])
    BY DEF Chain
  <2> QED
    BY <2>1, <2>2 DEF Linked
<1> QED
  BY <1>1, <1>5, <1>6, <1>7 DEF Chain

\* The statement about to be executed keeps its scope's contract.
LEMMA StatementKept ==
  ASSUME IInv, OrderInv, NEW e, e = suite.entry, Disciplined(e), NEW op, Executes(op),
         NEW s, s = Statements[Top.pc], NEW moved, moved = Advanced[Len(stack)]
  PROVE  /\ s \in Instructions /\ s.op = op
         /\ Contained(e, Top.fn, Top.args, Top.exc, s)
         /\ \A m \in Ledgers(e) :
              /\ Balanced(m, e, Top.fn, Top.args, Top.exc, s, Left(e, m, Top), Left(e, m, moved))
              /\ Left(e, m, Top) \in Int /\ Left(e, m, moved) \in Int
<1> DEFINE body == Body(e, Top.fn, Top.args, Top.exc)
<1>1. /\ s \in Instructions /\ s.op = op /\ Len(stack) > 0 /\ stack \in Seq(Frames)
      /\ Top.pc <= Len(body) \/ ~(Top.pc \in Nat /\ Len(body) \in Nat)
  BY ExecutesRunning DEF Executes, AtEnd, Statements
<1>2. Top \in Frames /\ Fits(e, Top)
  BY <1>1 DEF Top, OrderInv, Chain
<1>3. Keeps(e, Top.fn, Top.args, Top.exc)
  BY <1>2, FrameKeeps
<1>4. Top.pc \in Nat \ {0} /\ Len(body) \in Nat
  <2>1. Top.pc \in Nat \ {0}
    BY <1>2, FrameFields
  <2> QED
    BY <1>3, <2>1 DEF Keeps
<1>5. Top.pc \in 1 .. Len(body)
  BY <1>1, <1>4
<1>6. s = body[Top.pc]
  BY DEF Statements
<1>7. Contained(e, Top.fn, Top.args, Top.exc, s)
  BY <1>3, <1>5, <1>6 DEF Keeps
<1>8. ASSUME NEW m \in Ledgers(e)
      PROVE  /\ Balanced(m, e, Top.fn, Top.args, Top.exc, s, Left(e, m, Top), Left(e, m, moved))
             /\ Left(e, m, Top) \in Int /\ Left(e, m, moved) \in Int
  <2> DEFINE left == Plan(e, m, Top.fn, Top.args, Top.exc)
  <2>1. IsPlan(m, e, Top.fn, Top.args, Top.exc, left)
    BY <1>2, PlanHolds
  <2>2. Left(e, m, Top) = left[Top.pc] /\ Left(e, m, moved) = left[Top.pc + 1]
    BY <1>1, MovedTop DEF Left
  <2> HIDE DEF left
  <2>3. /\ left \in [1 .. Len(body) + 1 -> Int]
        /\ Balanced(m, e, Top.fn, Top.args, Top.exc, s, left[Top.pc], left[Top.pc + 1])
    BY <1>5, <1>6, <2>1 DEF IsPlan
  <2> HIDE DEF body
  <2>4. Top.pc \in 1 .. Len(body) + 1 /\ Top.pc + 1 \in 1 .. Len(body) + 1
    BY <1>4, <1>5
  <2> QED
    BY <2>2, <2>3, <2>4
<1> QED
  BY <1>1, <1>7, <1>8

\* A new scope fits, and is linked to the one that opens it.
LEMMA OrderPush ==
  ASSUME IInv, OrderInv, NEW e, e = suite.entry, Disciplined(e),
         NEW op \in {"call", "try"}, Executes(op), NEW depth \in Nat,
         NEW s, s = Statements[Top.pc],
         stack' = Append(Advanced, Scope(s.fn, s.args, NoException, depth))
  PROVE  Chain(e, stack')
<1> DEFINE f == Scope(s.fn, s.args, NoException, depth)
           moved == Advanced[Len(stack)]
<1>1. /\ s \in Instructions /\ s.op \in {"call", "try"}
      /\ Contained(e, Top.fn, Top.args, Top.exc, s)
      /\ \A m \in Ledgers(e) :
           Balanced(m, e, Top.fn, Top.args, Top.exc, s, Left(e, m, Top), Left(e, m, moved))
  BY StatementKept
<1>2. /\ Len(stack) > 0 /\ stack \in Seq(Frames) /\ live \in Nat /\ ~AtEnd
      /\ s.fn \in STRING /\ s.args \in Seq(Int)
  BY <1>1, ExecutesRunning, InstructionFields DEF IInv, TypeOK, Executes
<1>3. /\ f \in Frames /\ f.fn = s.fn /\ f.args = s.args /\ f.exc = NoException /\ f.pc = 1
  BY <1>2, ScopeFrame, NoExceptionTyped DEF Scope
<1>4. Fits(e, f)
  <2>1. "none" \in Enters(e, s.fn, s.args) /\ NoException.type = "none"
    BY <1>1 DEF Contained, NoException
  <2>2. Keeps(e, s.fn, s.args, NoException)
    BY <1>2, <2>1, NoExceptionTyped DEF Disciplined, Orderly
  <2>3. Len(Body(e, s.fn, s.args, NoException)) \in Nat
    BY <2>2 DEF Keeps
  <2> QED
    BY <1>3, <2>1, <2>3 DEF Fits
<1>5. /\ Advanced \in Seq(Frames) /\ Len(Advanced) = Len(stack)
      /\ moved.fn = Top.fn /\ moved.args = Top.args
  BY <1>2, MovedTop
<1>6. Chain(e, Advanced)
  BY <1>2, ChainAdvance DEF OrderInv
<1> HIDE DEF f, moved
<1>7. Linked(e, moved, f)
  <2>1. ASSUME NEW t \in Leaks(e, f.fn, f.args)
        PROVE  /\ t \in Raises(e, moved.fn, moved.args)
               /\ \A m \in Ledgers(e) :
                    Covers(m, Left(e, m, moved) + Fare(m), Settled(m, e, moved.fn, moved.args, t))
    <3>1. t \in Leaks(e, s.fn, s.args)
      BY <1>3
    <3> QED
      BY <1>1, <1>5, <3>1 DEF Contained, Balanced
  <2>2. "pending" \in Ledgers(e) => Left(e, "pending", moved) = 0
    BY <1>1 DEF Balanced
  <2> QED
    BY <2>1, <2>2 DEF Linked
<1> QED
  BY <1>2, <1>3, <1>4, <1>5, <1>6, <1>7, ChainPush DEF f, moved

\* What a scope raises and does not take leaves it.
LEMMA LeaksUncaught ==
  ASSUME NEW e, NEW fn, NEW args, NEW t \in Raises(e, fn, args), Catches(e, fn, t) = "none"
  PROVE  t \in Leaks(e, fn, args)
BY DEF Leaks

\* An exception that its scope may raise is taken by a clause, and every scope above that
\* one lets it pass.
LEMMA SomeClause ==
  ASSUME NEW e, Disciplined(e), \A args : Enters(e, "terminate", args) = {},
         stack \in Seq(Frames), Len(stack) > 0, Chain(e, stack),
         NEW t \in Raises(e, Top.fn, Top.args)
  PROVE  \E k \in 1 .. Len(stack) :
           /\ Catches(e, stack[k].fn, t) \notin {"none", "terminate"}
           /\ \A j \in k + 1 .. Len(stack) : Catches(e, stack[j].fn, t) = "none"
<1> DEFINE top == Len(stack)
           Clause(k) == Catches(e, stack[k].fn, t)
           Raised(k) == t \in Raises(e, stack[k].fn, stack[k].args)
           Reached(k) == Raised(k) /\ \A j \in k + 1 .. top : Clause(j) = "none"
           S == {j \in Nat : j < top => Reached(top - j)}
<1> SUFFICES ASSUME \A k \in 1 .. top :
                      (\A j \in k + 1 .. top : Clause(j) = "none") =>
                        Clause(k) \in {"none", "terminate"}
             PROVE  FALSE
  OBVIOUS
<1>1. ASSUME NEW k \in 1 .. top, Reached(k)
      PROVE  Clause(k) = "none" /\ t \in Leaks(e, stack[k].fn, stack[k].args)
  <2>1. Clause(k) # "terminate"
    <3>1. stack[k] \in Frames /\ Fits(e, stack[k])
      BY DEF Chain
    <3>2. ClausesKept(e, stack[k].fn, stack[k].args)
      BY <3>1, FrameKeeps DEF Keeps
    <3> QED
      BY <1>1, <3>2 DEF ClausesKept
  <2>2. Clause(k) = "none"
    BY <1>1, <2>1
  <2> QED
    BY <1>1, <2>2, LeaksUncaught
<1>2. \A k \in 1 .. top - 1 : Linked(e, stack[k], stack[k + 1])
  BY DEF Chain
<1>3. top \in Nat /\ top > 0 /\ Reached(top)
  BY DEF Top
<1>4. Leaks(e, stack[1].fn, stack[1].args) = {}
  BY DEF Chain
<1>5. \A k \in 1 .. top - 1 : Reached(k + 1) => Reached(k)
  <2> SUFFICES ASSUME NEW k \in 1 .. top - 1, Reached(k + 1) PROVE Reached(k)
    OBVIOUS
  <2>1. k + 1 \in 1 .. top
    BY <1>3
  <2>2. Clause(k + 1) = "none" /\ t \in Leaks(e, stack[k + 1].fn, stack[k + 1].args)
    BY <1>1, <2>1
  <2>3. Raised(k)
    BY <1>2, <2>2 DEF Linked
  <2> HIDE DEF Clause, Raised
  <2>4. ASSUME NEW j \in k + 1 .. top PROVE Clause(j) = "none"
    <3>1. j = k + 1 \/ j \in (k + 1) + 1 .. top
      BY <1>3
    <3> QED
      BY <2>2, <3>1
  <2> QED
    BY <2>3, <2>4
<1>6. Reached(1) => FALSE
  BY <1>1, <1>3, <1>4
<1> HIDE DEF Reached, top
<1>7. 0 \in S
  BY <1>3
<1>8. \A j \in Nat : j \in S => j + 1 \in S
  <2> SUFFICES ASSUME NEW j \in Nat, j \in S, j + 1 < top PROVE Reached(top - (j + 1))
    OBVIOUS
  <2>1. Reached(top - j) /\ top - (j + 1) \in 1 .. top - 1 /\ (top - (j + 1)) + 1 = top - j
    BY <1>3
  <2> QED
    BY <1>5, <2>1
<1> HIDE DEF S
<1>9. Nat \subseteq S
  BY <1>7, <1>8, SetInduction
<1>10. top - 1 \in Nat /\ top - 1 < top /\ top - (top - 1) = 1
  BY <1>3
<1>11. top - 1 \in S
  BY <1>9, <1>10
<1>12. Reached(top - (top - 1))
  BY <1>10, <1>11 DEF S
<1> QED
  BY <1>6, <1>10, <1>12

\* A throw or a rethrow starts to unwind and does not terminate.
LEMMA OrderPropagate ==
  ASSUME Contracted, IInv, OrderInv, status = "running", NEW exc \in MaybeException,
         Propagate(exc), exc.type \in Raises(suite.entry, Top.fn, Top.args), suite' = suite
  PROVE  OrderInv'
<1>1. stack \in Seq(Frames) /\ Len(stack) > 0
  BY DEF IInv, TypeOK, StackInv
<1>2. Disciplined(suite.entry) /\ \A args : Enters(suite.entry, "terminate", args) = {}
  BY DEF Contracted, IInv, TypeOK
<1>3. \E k \in 1 .. Len(stack) :
        /\ Catches(suite.entry, stack[k].fn, exc.type) \notin {"none", "terminate"}
        /\ \A j \in k + 1 .. Len(stack) : Catches(suite.entry, stack[j].fn, exc.type) = "none"
  BY <1>1, <1>2, SomeClause DEF OrderInv
<1>4. status' = "unwinding" /\ stack' = stack /\ flying' = exc
  BY <1>3 DEF Propagate, Handled, ClauseFor
<1> QED
  BY <1>4 DEF OrderInv, Top

\* What the clause of a scope raises leaves the scope, and the clause with it.
LEMMA ClauseLeaks ==
  ASSUME NEW e, NEW fn, NEW args, NEW t \in Raises(e, fn, args), ClausesKept(e, fn, args),
         NEW clause, clause = Catches(e, fn, t), clause # "none"
  PROVE  Leaks(e, clause, args) \subseteq Leaks(e, fn, args)
<1>1. \A u \in Raises(e, clause, args) : Catches(e, clause, u) = "none"
  BY DEF ClausesKept
<1>2. Leaks(e, clause, args) = Raises(e, clause, args)
  BY <1>1 DEF Leaks
<1> QED
  BY <1>2 DEF Leaks

\* The clause that takes the exception fits in the place of its try block.
LEMMA OrderHandler ==
  ASSUME IInv, OrderInv, Disciplined(suite.entry), EnterHandler
  PROVE  Chain(suite.entry, stack')
<1> DEFINE e == suite.entry
           clause == Catches(e, Top.fn, flying.type)
           f == Scope(clause, Top.args, flying, Top.depth)
<1>1. /\ status = "unwinding" /\ clause \in STRING \ {"none"}
      /\ stack' = Append(Below, f)
  BY DEF EnterHandler, ClauseFor
<1>2. /\ stack \in Seq(Frames) /\ Len(stack) > 0 /\ live \in Nat
      /\ flying \in MaybeException /\ MarksOrdered(stack)
      /\ flying.type \in Raises(e, Top.fn, Top.args) /\ Chain(e, stack)
  BY <1>1 DEF IInv, TypeOK, StackInv, OrderInv
<1>3. Top \in Frames /\ Fits(e, Top)
  BY <1>2 DEF Top, Chain
<1>4. ClausesKept(e, Top.fn, Top.args)
  BY <1>3, FrameKeeps DEF Keeps
<1>5. Leaks(e, clause, Top.args) \subseteq Leaks(e, Top.fn, Top.args)
  BY <1>1, <1>2, <1>4, ClauseLeaks
<1>6. /\ f \in Frames /\ f.fn = clause /\ f.args = Top.args /\ f.exc = flying /\ f.pc = 1
  BY <1>1, <1>2, TopFrame, ScopeFrame DEF Scope
<1>7. flying.type \in Enters(e, clause, Top.args)
  BY <1>1, <1>2, <1>4 DEF ClausesKept
<1>8. Fits(e, f)
  <2>1. Keeps(e, clause, Top.args, flying)
    BY <1>1, <1>2, <1>7, TopFrame DEF Disciplined, Orderly
  <2>2. Len(Body(e, clause, Top.args, flying)) \in Nat
    BY <2>1 DEF Keeps
  <2> QED
    BY <1>6, <1>7, <2>2 DEF Fits
<1>9. /\ Below \in Seq(Frames) /\ Len(Below) = Len(stack) - 1
      /\ \A k \in 1 .. Len(stack) - 1 : Below[k] = stack[k]
  BY <1>2, BelowStack
<1>10. Chain(e, Below)
  BY <1>2, ChainFront DEF Below
<1> HIDE DEF f, clause
<1>11. Len(Below) = 0 => Leaks(e, f.fn, f.args) = {}
  <2> SUFFICES ASSUME Len(Below) = 0 PROVE Leaks(e, f.fn, f.args) = {}
    OBVIOUS
  <2>1. Len(stack) = 1
    BY <1>2, <1>9
  <2>2. Leaks(e, stack[1].fn, stack[1].args) = {}
    BY <1>2 DEF Chain
  <2> QED
    BY <1>5, <1>6, <2>1, <2>2 DEF Top
<1>12. Len(Below) > 0 => Linked(e, Below[Len(Below)], f)
  <2> SUFFICES ASSUME Len(Below) > 0 PROVE Linked(e, Below[Len(Below)], f)
    OBVIOUS
  <2>1. Len(stack) - 1 \in 1 .. Len(stack) - 1 /\ (Len(stack) - 1) + 1 = Len(stack)
    BY <1>2, <1>9
  <2>2. Linked(e, stack[Len(stack) - 1], Top)
    BY <1>2, <2>1 DEF Chain, Top
  <2>3. Below[Len(Below)] = stack[Len(stack) - 1]
    BY <1>9, <2>1
  <2> QED
    BY <1>5, <1>6, <2>2, <2>3 DEF Linked
<1> QED
  BY <1>1, <1>6, <1>8, <1>9, <1>10, <1>11, <1>12, ChainPush

\* The scope below the innermost one takes over the exception.
LEMMA OrderUnwind ==
  ASSUME IInv, OrderInv, UnwindScope
  PROVE  /\ Len(stack) > 1
         /\ flying.type \in Raises(suite.entry, stack[Len(stack) - 1].fn, stack[Len(stack) - 1].args)
         /\ Linked(suite.entry, stack[Len(stack) - 1], Top)
         /\ flying.type \in Leaks(suite.entry, Top.fn, Top.args)
<1> DEFINE e == suite.entry
<1>1. /\ status = "unwinding" /\ Catches(e, Top.fn, flying.type) = "none"
      /\ Chain(e, stack) /\ flying.type \in Raises(e, Top.fn, Top.args)
      /\ stack \in Seq(Frames) /\ Len(stack) > 0
  BY DEF UnwindScope, ClauseFor, OrderInv, IInv, TypeOK, StackInv
<1>2. flying.type \in Leaks(e, Top.fn, Top.args)
  BY <1>1, LeaksUncaught
<1>3. Len(stack) # 1
  BY <1>1, <1>2 DEF Chain, Top
<1> DEFINE n == Len(stack)
<1>4. n > 1 /\ n - 1 \in 1 .. n - 1 /\ (n - 1) + 1 = n
  <2>1. n \in Nat /\ n > 0 /\ n # 1
    BY <1>1, <1>3
  <2> HIDE DEF n
  <2> QED
    BY <2>1
<1>5. Linked(e, stack[Len(stack) - 1], Top)
  BY <1>1, <1>4 DEF Chain, Top
<1> QED
  BY <1>2, <1>4, <1>5 DEF Linked

\* Every step keeps the order of the open scopes and of what is in flight.
LEMMA OrderStep == Contracted /\ IInv /\ OrderInv /\ [Next]_vars => OrderInv'
<1> SUFFICES ASSUME Contracted, IInv, OrderInv, [Next]_vars PROVE OrderInv'
  OBVIOUS
<1> DEFINE e == suite.entry
<1>1. Disciplined(e) /\ stack \in Seq(Frames) /\ Chain(e, stack)
  BY DEF Contracted, IInv, TypeOK, OrderInv
<1>2. CASE BeginCall
  <2>1. PICK i \in suite.iterations :
          stack' = << Scope(e, << IF i <= 0 THEN 1 ELSE i >>, NoException, 1) >>
    BY <1>2 DEF BeginCall
  <2> DEFINE n == IF i <= 0 THEN 1 ELSE i
             f == Scope(e, << n >>, NoException, 1)
  <2>2. n \in Nat \ {0} /\ e \in STRING
    BY SuiteFields DEF IInv, TypeOK
  <2>3. "none" \in Enters(e, e, << n >>) /\ Raises(e, e, << n >>) = {}
    BY <1>1, <2>2 DEF Disciplined, Orderly
  <2>4. Leaks(e, e, << n >>) = {}
    BY <2>3 DEF Leaks
  <2>5. NoException.type = "none" /\ << n >> \in Seq(Int)
    BY <2>2 DEF NoException
  <2>6. Keeps(e, e, << n >>, NoException)
    BY <1>1, <2>2, <2>3, <2>5, NoExceptionTyped DEF Disciplined, Orderly
  <2>7. f.fn = e /\ f.args = << n >> /\ f.exc = NoException /\ f.pc = 1
    BY DEF Scope
  <2>8. stack' = << f >> /\ status' = "running" /\ suite' = suite
    BY <1>2, <2>1 DEF BeginCall
  <2> HIDE DEF n, f
  <2>9. Fits(e, f)
    BY <2>3, <2>5, <2>6, <2>7 DEF Fits, Keeps
  <2>10. Chain(e, << f >>)
    BY <2>4, <2>7, <2>9 DEF Chain
  <2> QED
    BY <2>8, <2>10 DEF OrderInv
<1>3. CASE ConstructGuard \/ CaptureTrace \/ CountEvent
  <2>1. status = "running" /\ status' = "running" /\ stack' = Advanced /\ suite' = suite /\ ~AtEnd
    BY <1>3 DEF ConstructGuard, CaptureTrace, CountEvent, Executes
  <2>2. Len(stack) > 0
    BY <2>1 DEF IInv, StackInv
  <2>3. Chain(e, Advanced)
    BY <1>1, <2>1, <2>2, ChainAdvance
  <2> QED
    BY <2>1, <2>3 DEF OrderInv
<1>4. CASE CallFunction
  <2> DEFINE s == Statements[Top.pc]
  <2>1. Executes("call")
    BY <1>4 DEF CallFunction
  <2>2. Top.depth + 1 \in Nat /\ status = "running"
    BY <2>1, ExecutesRunning
  <2>3. /\ stack' = Append(Advanced, Scope(s.fn, s.args, NoException, Top.depth + 1))
        /\ status' = status /\ suite' = suite
    BY <1>4 DEF CallFunction
  <2> HIDE DEF s
  <2>4. Chain(e, stack')
    BY <1>1, <2>1, <2>2, <2>3, OrderPush DEF s
  <2> QED
    BY <2>2, <2>3, <2>4 DEF OrderInv
<1>5. CASE EnterTry
  <2> DEFINE s == Statements[Top.pc]
  <2>1. Executes("try")
    BY <1>5 DEF EnterTry
  <2>2. Top.depth \in Nat /\ status = "running"
    BY <2>1, ExecutesRunning
  <2>3. /\ stack' = Append(Advanced, Scope(s.fn, s.args, NoException, Top.depth))
        /\ status' = status /\ suite' = suite
    BY <1>5 DEF EnterTry
  <2> HIDE DEF s
  <2>4. Chain(e, stack')
    BY <1>1, <2>1, <2>2, <2>3, OrderPush DEF s
  <2> QED
    BY <2>2, <2>3, <2>4 DEF OrderInv
<1>6. CASE Throw
  <2> DEFINE s == Statements[Top.pc]
  <2>1. Executes("throw") /\ Propagate(s.exc) /\ suite' = suite
    BY <1>6 DEF Throw, Propagate
  <2>2. s \in Instructions /\ s.op = "throw" /\ Contained(e, Top.fn, Top.args, Top.exc, s)
    BY <1>1, <2>1, StatementKept
  <2> HIDE DEF s
  <2>3. s.exc \in MaybeException /\ s.exc.type \in Raises(e, Top.fn, Top.args)
    BY <2>2, InstructionFields DEF Contained, MaybeException
  <2> QED
    BY <2>1, <2>3, OrderPropagate, ExecutesRunning
<1>7. CASE Rethrow
  <2> DEFINE s == Statements[Top.pc]
  <2>1. Executes("rethrow") /\ Propagate(Top.exc) /\ suite' = suite
    BY <1>7 DEF Rethrow, Propagate
  <2>2. s.op = "rethrow" /\ Contained(e, Top.fn, Top.args, Top.exc, s)
    BY <1>1, <2>1, StatementKept
  <2>3. Top.exc.type \in Raises(e, Top.fn, Top.args)
    BY <2>2 DEF Contained
  <2>4. status = "running" /\ Top.exc \in MaybeException
    BY <1>1, <2>1, ExecutesRunning, TopFrame
  <2> QED
    BY <2>1, <2>3, <2>4, OrderPropagate
<1>8. CASE DestroyGuard
  BY <1>8 DEF DestroyGuard, OrderInv, Top
<1>9. CASE Leave
  <2>1. status = "running" /\ status' = status /\ suite' = suite /\ stack' = Below /\ Len(stack) > 1
    BY <1>9 DEF Leave
  <2>2. Chain(e, Below)
    BY <1>1, <2>1, ChainFront DEF Below
  <2> QED
    BY <2>1, <2>2 DEF OrderInv
<1>10. CASE UnwindScope
  <2>1. /\ status' = status /\ suite' = suite /\ stack' = Below /\ flying' = flying
        /\ status = "unwinding"
    BY <1>10 DEF UnwindScope
  <2>2. /\ Len(stack) > 1
        /\ flying.type \in Raises(e, stack[Len(stack) - 1].fn, stack[Len(stack) - 1].args)
    BY <1>10, OrderUnwind
  <2>3. Chain(e, Below)
    BY <1>1, <2>2, ChainFront DEF Below
  <2>4. Len(Below) = Len(stack) - 1 /\ Below[Len(Below)] = stack[Len(stack) - 1]
    BY <1>1, <2>2, BelowStack DEF IInv, StackInv
  <2>5. Top' = stack[Len(stack) - 1]
    BY <2>1, <2>4 DEF Top
  <2> QED
    BY <2>1, <2>2, <2>3, <2>5 DEF OrderInv
<1>11. CASE EnterHandler
  BY <1>1, <1>11, OrderHandler DEF EnterHandler, OrderInv
<1>12. CASE FinishCall
  BY <1>12 DEF FinishCall, OrderInv, Chain
<1>13. CASE UNCHANGED vars
  BY <1>13 DEF vars, OrderInv, Top
<1> QED
  BY <1>2, <1>3, <1>4, <1>5, <1>6, <1>7, <1>8, <1>9, <1>10, <1>11, <1>12, <1>13
     DEF Next, Statement, ScopeExit

\* The machine starts with no scope open.
LEMMA OrderInit == Init => OrderInv
BY DEF Init, OrderInv, Chain

-----------------------------------------------------------------------------

(***************************************************************************)
(* The ledger.  What the scopes below the innermost are still to add is    *)
(* summed up the stack; with what the innermost, or the exception in       *)
(* flight, is to add, and what the counters show already, it makes up the  *)
(* work of the call.                                                       *)
(***************************************************************************)
Sums(e, m, s, total) ==
  \E d \in [0 .. Len(s) - 1 -> Int] :
    /\ d[0] = 0
    /\ \A k \in 1 .. Len(s) - 1 : d[k] = d[k - 1] + Left(e, m, s[k])
    /\ d[Len(s) - 1] = total

Due(e, m) ==
  IF status = "unwinding" THEN Settled(m, e, Top.fn, Top.args, flying.type)
  ELSE Left(e, m, Top)

Ledger(e, m) ==
  \E total \in Int :
    /\ Sums(e, m, stack, total)
    /\ Due(e, m) \in Int
    /\ Covers(m, Work(m, e, e, << iterations >>), Tally(m, metrics, live) + total + Due(e, m))

\* The accounts a whole call leaves at nothing.
Flows == {"pending", "uncaught", "overcaught"}

LedgerInv ==
  /\ status \in {"running", "unwinding"} =>
       /\ iterations \in Nat \ {0}
       /\ \A m \in Ledgers(suite.entry) : Ledger(suite.entry, m)
  /\ status = "idle" =>
       \A m \in Ledgers(suite.entry) \cap Flows : Covers(m, 0, Tally(m, metrics, live))
  /\ \A c \in 1 .. Len(reports) :
       /\ reports[c].iterations \in Nat \ {0}
       /\ \A m \in Ledgers(suite.entry) :
            Covers(m, Work(m, suite.entry, suite.entry, << reports[c].iterations >>),
                   Tally(m, reports[c].metrics, 0))

\* Bounds chain, and keep when the same amount is added to both sides.
LEMMA CoversChain ==
  ASSUME NEW m, NEW x, NEW y, NEW z, Covers(m, x, y), Covers(m, y, z)
  PROVE  Covers(m, x, z)
BY DEF Covers

\* A bound is kept when the same amount is added to both of its sides.
LEMMA CoversShift ==
  ASSUME NEW m, NEW x, NEW y, NEW z \in Int, Covers(m, x, y)
  PROVE  Covers(m, z + x, z + y)
BY DEF Covers

\* The only scope has no caller that owes anything.
LEMMA SumsFirst ==
  ASSUME NEW e, NEW m, NEW s, Len(s) = 1
  PROVE  Sums(e, m, s, 0)
<1> DEFINE n == Len(s) - 1
           d == [k \in 0 .. n |-> 0]
<1>1. n = 0
  OBVIOUS
<1>2. d \in [0 .. n -> Int] /\ d[0] = 0 /\ d[n] = 0 /\ 1 .. n = {}
  BY <1>1
<1> HIDE DEF d
<1>3. \A k \in 1 .. n : d[k] = d[k - 1] + Left(e, m, s[k])
  BY <1>2
<1> HIDE DEF n
<1> QED
  BY <1>2, <1>3 DEF Sums, n

\* The innermost frame is not part of the sum.
LEMMA SumsTop ==
  ASSUME NEW e, NEW m, NEW s, NEW t, NEW total, Sums(e, m, s, total), Len(s) = Len(t),
         \A k \in 1 .. Len(s) - 1 : s[k] = t[k]
  PROVE  Sums(e, m, t, total)
BY DEF Sums

\* Entering a scope adds what its caller has left to the sum of the callers,
LEMMA SumsPush ==
  ASSUME NEW e, NEW m, NEW s, NEW t, NEW total \in Int, Sums(e, m, s, total),
         Len(s) \in Nat \ {0}, Len(t) = Len(s) + 1, \A k \in 1 .. Len(s) : t[k] = s[k],
         Left(e, m, s[Len(s)]) \in Int
  PROVE  Sums(e, m, t, total + Left(e, m, s[Len(s)]))
<1> DEFINE n == Len(s)
           last == Left(e, m, s[Len(s)])
<1>1. PICK d \in [0 .. n - 1 -> Int] :
        /\ d[0] = 0
        /\ \A k \in 1 .. n - 1 : d[k] = d[k - 1] + Left(e, m, s[k])
        /\ d[n - 1] = total
  BY DEF Sums
<1> DEFINE c == [k \in 0 .. n |-> IF k = n THEN total + last ELSE d[k]]
<1>2. n \in Nat \ {0} /\ last \in Int
  OBVIOUS
<1>3. last = Left(e, m, s[n])
  OBVIOUS
<1> HIDE DEF n, last
<1>4. c \in [0 .. n -> Int] /\ c[0] = 0 /\ c[n] = total + last
  BY <1>1, <1>2
<1>5. ASSUME NEW k \in 1 .. n PROVE c[k] = c[k - 1] + Left(e, m, s[k])
  <2>1. CASE k = n
    <3>1. c[k] = total + last /\ c[k - 1] = d[n - 1]
      BY <1>2, <2>1
    <3> QED
      BY <1>1, <1>3, <2>1, <3>1
  <2>2. CASE k < n
    <3>1. c[k] = d[k] /\ c[k - 1] = d[k - 1] /\ k \in 1 .. n - 1
      BY <1>2, <2>2
    <3> QED
      BY <1>1, <3>1
  <2> QED
    BY <1>2, <2>1, <2>2
<1> HIDE DEF c
<1>6. Len(t) - 1 = n /\ \A k \in 1 .. n : t[k] = s[k]
  BY <1>2 DEF n
<1>7. \A k \in 1 .. n : c[k] = c[k - 1] + Left(e, m, t[k])
  BY <1>5, <1>6
<1> QED
  BY <1>4, <1>6, <1>7 DEF Sums, last

\* and leaving it takes that off again.
LEMMA SumsPop ==
  ASSUME NEW e, NEW m, NEW s, NEW t, NEW total \in Int, Sums(e, m, s, total),
         Len(s) \in Nat, Len(s) > 1, Len(t) = Len(s) - 1, \A k \in 1 .. Len(t) : t[k] = s[k],
         Left(e, m, s[Len(s) - 1]) \in Int
  PROVE  Sums(e, m, t, total - Left(e, m, s[Len(s) - 1]))
<1> DEFINE n == Len(s)
           last == Left(e, m, s[n - 1])
<1>1. PICK d \in [0 .. n - 1 -> Int] :
        /\ d[0] = 0
        /\ \A k \in 1 .. n - 1 : d[k] = d[k - 1] + Left(e, m, s[k])
        /\ d[n - 1] = total
  BY DEF Sums
<1>2. n \in Nat /\ n > 1 /\ last \in Int /\ Len(t) = n - 1
  OBVIOUS
<1>3. \A k \in 1 .. n - 1 : t[k] = s[k]
  BY <1>2
<1> DEFINE c == [k \in 0 .. n - 2 |-> d[k]]
<1>4. last = Left(e, m, s[n - 1])
  OBVIOUS
<1> HIDE DEF n, last
<1>5. c \in [0 .. n - 2 -> Int] /\ c[0] = 0
  BY <1>1, <1>2
<1>6. c[n - 2] = total - last
  <2>1. d[n - 1] = d[(n - 1) - 1] + last
    BY <1>1, <1>2, <1>4
  <2>2. d[n - 2] \in Int /\ c[n - 2] = d[n - 2] /\ (n - 1) - 1 = n - 2
    BY <1>1, <1>2
  <2> QED
    BY <1>1, <1>2, <2>1, <2>2
<1>7. ASSUME NEW k \in 1 .. n - 2 PROVE c[k] = c[k - 1] + Left(e, m, t[k])
  <2>1. c[k] = d[k] /\ c[k - 1] = d[k - 1] /\ k \in 1 .. n - 1
    BY <1>2
  <2> QED
    BY <1>1, <1>3, <2>1
<1> HIDE DEF c
<1>8. Len(t) - 1 = n - 2
  BY <1>2
<1> QED
  BY <1>5, <1>6, <1>7, <1>8 DEF Sums, last, n

\* Scopes that have nothing left sum up to nothing.
LEMMA SumsNothing ==
  ASSUME NEW e, NEW m, NEW s, NEW total, Sums(e, m, s, total), Len(s) \in Nat \ {0},
         \A k \in 1 .. Len(s) - 1 : Left(e, m, s[k]) = 0
  PROVE  total = 0
<1> DEFINE n == Len(s)
<1>1. PICK d \in [0 .. n - 1 -> Int] :
        /\ d[0] = 0
        /\ \A k \in 1 .. n - 1 : d[k] = d[k - 1] + Left(e, m, s[k])
        /\ d[n - 1] = total
  BY DEF Sums
<1>2. n \in Nat \ {0} /\ \A k \in 1 .. n - 1 : Left(e, m, s[k]) = 0
  OBVIOUS
<1> HIDE DEF n
<1> DEFINE S == {k \in Nat : k < n => d[k] = 0}
<1>3. 0 \in S
  BY <1>1
<1>4. \A k \in Nat : k \in S => k + 1 \in S
  <2> SUFFICES ASSUME NEW k \in Nat, k \in S, k + 1 < n PROVE d[k + 1] = 0
    OBVIOUS
  <2>1. d[k] = 0 /\ k + 1 \in 1 .. n - 1 /\ (k + 1) - 1 = k
    BY <1>2
  <2> QED
    BY <1>1, <1>2, <2>1
<1> HIDE DEF S
<1>5. Nat \subseteq S
  BY <1>3, <1>4, SetInduction
<1>6. n - 1 \in S /\ n - 1 < n
  BY <1>2, <1>5
<1> QED
  BY <1>1, <1>6 DEF S

-----------------------------------------------------------------------------

\* How the counters move the accounts.
LEMMA TallyFresh ==
  ASSUME Counters \subseteq Events, NEW m \in AllLedgers
  PROVE  Tally(m, FreshMetrics, 0) = 0
<1>1. /\ FreshMetrics.captures = 0 /\ FreshMetrics.destructors = 0
      /\ FreshMetrics.events["thrown"] = 0 /\ FreshMetrics.events["caught"] = 0
      /\ FreshMetrics.events["rethrows"] = 0 /\ FreshMetrics.events["programs"] = 0
  BY DEF FreshMetrics, Counters
<1> DEFINE M == FreshMetrics
           a == M.events
<1>2. /\ M.captures \in Int /\ M.destructors \in Int /\ a["thrown"] \in Int
      /\ a["caught"] \in Int /\ a["rethrows"] \in Int /\ a["programs"] \in Int
  BY <1>1
<1>3. /\ M.captures = 0 /\ M.destructors = 0 /\ a["thrown"] = 0
      /\ a["caught"] = 0 /\ a["rethrows"] = 0 /\ a["programs"] = 0
  BY <1>1
<1> HIDE DEF M, a
<1>4. /\ M.destructors + 0 = 0 /\ M.captures - M.destructors = 0 /\ 0 - a["thrown"] = 0
      /\ M.destructors - M.captures = 0
      /\ a["thrown"] + a["rethrows"] - a["caught"] = 0 /\ a["thrown"] - a["caught"] = 0
      /\ a["caught"] - a["thrown"] - a["rethrows"] = 0
  BY <1>2, <1>3
<1> QED
  BY <1>3, <1>4 DEF Tally, AllLedgers, AllAccounts, M, a

\* An account is an integer.
LEMMA TallyTyped ==
  ASSUME Counters \subseteq Events, NEW m \in AllLedgers, NEW M \in Metrics, NEW alive \in Nat
  PROVE  Tally(m, M, alive) \in Int
<1>1. /\ M.captures \in Nat /\ M.destructors \in Nat /\ M.events["thrown"] \in Nat
      /\ M.events["caught"] \in Nat /\ M.events["rethrows"] \in Nat
      /\ M.events["programs"] \in Nat
  BY DEF Metrics, Counters
<1> QED
  BY <1>1 DEF Tally, AllLedgers, AllAccounts

\* A guard is constructed.
LEMMA TallyGuard ==
  ASSUME NEW m \in AllLedgers, NEW M \in Metrics, NEW alive \in Nat,
         Tally(m, M, alive) \in Int
  PROVE  Tally(m, M, alive + 1) = Tally(m, M, alive) + (IF m = "guards" THEN 1 ELSE 0)
<1>1. M.destructors \in Nat
  BY DEF Metrics
<1> QED
  BY <1>1 DEF Tally, AllLedgers, AllAccounts

\* A trace outside a destructor.
LEMMA TallyCapture ==
  ASSUME NEW m \in AllLedgers, NEW M \in Metrics, NEW N \in Metrics, NEW alive \in Nat,
         N.captures = M.captures + 1, N.destructors = M.destructors, N.events = M.events,
         Tally(m, M, alive) \in Int
  PROVE  Tally(m, N, alive) =
           Tally(m, M, alive) + (CASE m = "traces" -> 1 [] m = "walks" -> -1 [] OTHER -> 0)
<1>1. M.destructors \in Nat /\ M.captures \in Nat
  BY DEF Metrics
<1> QED
  BY <1>1 DEF Tally, AllLedgers, AllAccounts

\* A guard is destroyed, which leaves a trace.
LEMMA TallyDestroy ==
  ASSUME NEW m \in AllLedgers, NEW M \in Metrics, NEW N \in Metrics, NEW alive \in Nat,
         alive > 0, N.captures = M.captures + 1, N.destructors = M.destructors + 1,
         N.events = M.events
  PROVE  Tally(m, N, alive - 1) = Tally(m, M, alive)
<1>1. M.destructors \in Nat /\ M.captures \in Nat
  BY DEF Metrics
<1> QED
  BY <1>1 DEF Tally, AllLedgers, AllAccounts

\* A counter is incremented.
LEMMA TallyCount ==
  ASSUME Counters \subseteq Events, NEW m \in AllLedgers, NEW M \in Metrics, NEW N \in Metrics,
         NEW alive \in Nat, NEW event, N.captures = M.captures, N.destructors = M.destructors,
         N.events = [M.events EXCEPT ![event] = @ + 1]
  PROVE  Tally(m, N, alive) = Tally(m, M, alive) + CountCost(m, event)
<1> DEFINE a == M.events
           b == N.events
<1>1. a \in [Events -> Nat] /\ M.captures \in Nat /\ M.destructors \in Nat
  BY DEF Metrics
<1>2. \A c \in Counters : a[c] \in Nat /\ b[c] = IF c = event THEN a[c] + 1 ELSE a[c]
  BY <1>1
<1> HIDE DEF a, b
<1>3. /\ a["thrown"] \in Nat /\ a["caught"] \in Nat /\ a["rethrows"] \in Nat /\ a["programs"] \in Nat
      /\ b["thrown"] = IF event = "thrown" THEN a["thrown"] + 1 ELSE a["thrown"]
      /\ b["caught"] = IF event = "caught" THEN a["caught"] + 1 ELSE a["caught"]
      /\ b["rethrows"] = IF event = "rethrows" THEN a["rethrows"] + 1 ELSE a["rethrows"]
      /\ b["programs"] = IF event = "programs" THEN a["programs"] + 1 ELSE a["programs"]
  BY <1>2 DEF Counters
<1>4. CASE m \in {"guards", "programs", "traces", "throws", "hits", "walks"}
  BY <1>1, <1>3, <1>4 DEF Tally, CountCost, a, b
<1>5. CASE m \in {"pending", "uncaught", "overcaught"}
  BY <1>1, <1>3, <1>5 DEF Tally, CountCost, a, b
<1> QED
  BY <1>4, <1>5 DEF AllLedgers, AllAccounts

\* The parts of the ledger are numbers, and what a step has to show.
LEMMA LedgerParts ==
  ASSUME IInv, OrderInv, Contracted, NEW e, e = suite.entry, NEW m \in Ledgers(e)
  PROVE  /\ Disciplined(e) /\ m \in AllLedgers /\ Counters \subseteq Events
         /\ metrics \in Metrics /\ live \in Nat /\ Tally(m, metrics, live) \in Int
         /\ stack \in Seq(Frames) /\ Chain(e, stack)
         /\ \A k \in 1 .. Len(stack) : Left(e, m, stack[k]) \in Int
<1>1. /\ Disciplined(e) /\ m \in AllLedgers /\ Counters \subseteq Events
      /\ metrics \in Metrics /\ live \in Nat /\ stack \in Seq(Frames) /\ Chain(e, stack)
  BY DEF IInv, TypeOK, Contracted, OrderInv
<1>2. Tally(m, metrics, live) \in Int
  BY <1>1, TallyTyped
<1>3. ASSUME NEW k \in 1 .. Len(stack) PROVE Left(e, m, stack[k]) \in Int
  <2>1. stack[k] \in Frames /\ Fits(e, stack[k])
    BY <1>1 DEF Chain
  <2> QED
    BY <1>1, <2>1, LeftOf
<1> QED
  BY <1>1, <1>2, <1>3

\* The ledger is kept by a step that moves the account and the amount due together.
LEMMA LedgerMoved ==
  ASSUME NEW e, NEW m, NEW total \in Int, NEW due \in Int, NEW tally \in Int,
         NEW total2 \in Int,
         Covers(m, Work(m, e, e, << iterations >>), tally + total + due),
         iterations' = iterations, Sums(e, m, stack', total2), Due(e, m)' \in Int,
         Tally(m, metrics', live') \in Int,
         Covers(m, tally + total + due, Tally(m, metrics', live') + total2 + Due(e, m)')
  PROVE  Ledger(e, m)'
<1>1. Covers(m, Work(m, e, e, << iterations >>), Tally(m, metrics', live') + total2 + Due(e, m)')
  BY CoversChain
<1> QED
  BY <1>1 DEF Ledger

\* A guard, a capture or a counter.
LEMMA LedgerAdvance ==
  ASSUME IInv, OrderInv, Contracted, NEW e, e = suite.entry, NEW m \in Ledgers(e),
         Ledger(e, m), NEW op \in {"guard", "capture", "count"}, Executes(op),
         stack' = Advanced, status' = status, iterations' = iterations,
         Tally(m, metrics', live') = Tally(m, metrics, live) + Cost(m, Statements[Top.pc]),
         Cost(m, Statements[Top.pc]) \in Int
  PROVE  Ledger(e, m)'
<1> DEFINE s == Statements[Top.pc]
           moved == Advanced[Len(stack)]
           tally == Tally(m, metrics, live)
           before == Left(e, m, Top)
           after == Left(e, m, moved)
<1>1. /\ Disciplined(e) /\ tally \in Int /\ stack \in Seq(Frames)
      /\ status = "running" /\ Len(stack) > 0
  BY LedgerParts, ExecutesRunning
<1>2. PICK total \in Int :
        /\ Sums(e, m, stack, total)
        /\ Covers(m, Work(m, e, e, << iterations >>), tally + total + before)
  BY <1>1 DEF Ledger, Due
<1>3. /\ Balanced(m, e, Top.fn, Top.args, Top.exc, s, before, after) /\ s.op = op
      /\ before \in Int /\ after \in Int
  BY <1>1, StatementKept
<1>4. Covers(m, before, Cost(m, s) + after)
  BY <1>3 DEF Balanced
<1>5. /\ Len(Advanced) = Len(stack) /\ \A k \in 1 .. Len(stack) - 1 : stack[k] = Advanced[k]
  BY <1>1, MovedTop
<1>6. Sums(e, m, stack', total)
  BY <1>2, <1>5, SumsTop
<1>7. Due(e, m)' = after
  BY <1>1, <1>5 DEF Due, Top
<1> HIDE DEF s, tally, before, after
<1>8. Covers(m, tally + total + before, (tally + Cost(m, s)) + total + after)
  BY <1>1, <1>2, <1>3, <1>4 DEF Covers, s
<1> QED
  BY <1>1, <1>2, <1>3, <1>6, <1>7, <1>8, LedgerMoved DEF s, tally

\* A call or a try block.
LEMMA LedgerPush ==
  ASSUME IInv, OrderInv, Contracted, NEW e, e = suite.entry, NEW m \in Ledgers(e),
         Ledger(e, m), NEW op \in {"call", "try"}, Executes(op), NEW depth \in Nat,
         stack' = Append(Advanced, Scope(Statements[Top.pc].fn, Statements[Top.pc].args,
                                         NoException, depth)),
         status' = status, iterations' = iterations, metrics' = metrics, live' = live
  PROVE  Ledger(e, m)'
<1> DEFINE s == Statements[Top.pc]
           f == Scope(s.fn, s.args, NoException, depth)
           moved == Advanced[Len(stack)]
           tally == Tally(m, metrics, live)
           before == Left(e, m, Top)
           after == Left(e, m, moved)
           work == Work(m, e, s.fn, s.args)
<1>1. /\ Disciplined(e) /\ tally \in Int /\ stack \in Seq(Frames)
      /\ status = "running" /\ Len(stack) > 0 /\ live \in Nat
  BY LedgerParts, ExecutesRunning
<1>2. PICK total \in Int :
        /\ Sums(e, m, stack, total)
        /\ Covers(m, Work(m, e, e, << iterations >>), tally + total + before)
  BY <1>1 DEF Ledger, Due
<1>3. /\ Balanced(m, e, Top.fn, Top.args, Top.exc, s, before, after) /\ s.op = op
      /\ before \in Int /\ after \in Int /\ s \in Instructions
  BY <1>1, StatementKept
<1>4. Covers(m, before, work + after)
  BY <1>3 DEF Balanced
<1>5. /\ Advanced \in Seq(Frames) /\ Len(Advanced) = Len(stack)
      /\ \A k \in 1 .. Len(stack) - 1 : stack[k] = Advanced[k]
  BY <1>1, MovedTop
<1>6. f \in Frames /\ f.fn = s.fn /\ f.args = s.args /\ f.pc = 1
  BY <1>1, <1>3, InstructionFields, ScopeFrame, NoExceptionTyped DEF Scope
<1>7. Chain(e, stack')
  BY <1>1, OrderPush
<1> HIDE DEF s, f
<1>8. /\ Len(stack') = Len(stack) + 1 /\ stack'[Len(stack')] = f
      /\ \A k \in 1 .. Len(Advanced) : stack'[k] = Advanced[k]
  BY <1>1, <1>5, <1>6 DEF s, f
<1>9. Fits(e, f)
  BY <1>7, <1>8 DEF Chain
<1>10. Left(e, m, f) = work /\ work \in Int
  BY <1>1, <1>6, <1>9, LeftOf
<1>11. Sums(e, m, Advanced, total)
  BY <1>2, <1>5, SumsTop
<1>12. Sums(e, m, stack', total + after)
  <2>1. Len(Advanced) \in Nat \ {0} /\ Len(stack') = Len(Advanced) + 1
    BY <1>1, <1>5, <1>8
  <2> QED
    BY <1>2, <1>3, <1>5, <1>8, <1>11, <2>1, SumsPush
<1>13. Due(e, m)' = work
  BY <1>1, <1>8, <1>10 DEF Due, Top
<1> HIDE DEF tally, before, after, work
<1>14. Covers(m, tally + total + before, tally + (total + after) + work) /\ total + after \in Int
  BY <1>1, <1>2, <1>3, <1>4, <1>10 DEF Covers
<1> QED
  BY <1>1, <1>2, <1>3, <1>10, <1>12, <1>13, <1>14, LedgerMoved DEF tally

\* A throw or a rethrow: what the scope had left settles the exception.
LEMMA LedgerPropagate ==
  ASSUME IInv, OrderInv, OrderInv', Contracted, NEW e, e = suite.entry, NEW m \in Ledgers(e),
         Ledger(e, m), status = "running", NEW exc, Propagate(exc),
         Covers(m, Left(e, m, Top), Settled(m, e, Top.fn, Top.args, exc.type))
  PROVE  Ledger(e, m)'
<1> DEFINE tally == Tally(m, metrics, live)
           before == Left(e, m, Top)
           settled == Settled(m, e, Top.fn, Top.args, exc.type)
<1>1. tally \in Int /\ stack \in Seq(Frames)
  BY LedgerParts
<1>2. PICK total \in Int :
        /\ Sums(e, m, stack, total)
        /\ Covers(m, Work(m, e, e, << iterations >>), tally + total + before)
  BY DEF Ledger, Due
<1>3. /\ status' = "unwinding" /\ flying' = exc /\ stack' = stack /\ iterations' = iterations
      /\ metrics' = metrics /\ live' = live
  BY DEF Propagate, OrderInv
<1>4. Due(e, m)' = settled
  BY <1>3 DEF Due, Top
<1> HIDE DEF tally, before, settled
<1>5. Covers(m, tally + total + before, tally + total + settled) /\ settled \in Int /\ before \in Int
  BY <1>1, <1>2 DEF Covers, before, settled
<1> QED
  BY <1>1, <1>2, <1>3, <1>4, <1>5, LedgerMoved DEF tally

\* A guard is destroyed.
LEMMA LedgerSame ==
  ASSUME IInv, OrderInv, Contracted, NEW e, e = suite.entry, NEW m \in Ledgers(e),
         Ledger(e, m), stack' = stack, status' = status, flying' = flying,
         iterations' = iterations, Tally(m, metrics', live') = Tally(m, metrics, live)
  PROVE  Ledger(e, m)'
<1>1. Due(e, m)' = Due(e, m)
  BY DEF Due, Top
<1> QED
  BY <1>1 DEF Ledger

\* A scope returns to the one below it.
LEMMA LedgerLeave ==
  ASSUME IInv, OrderInv, Contracted, NEW e, e = suite.entry, NEW m \in Ledgers(e),
         Ledger(e, m), Leave
  PROVE  Ledger(e, m)'
<1> DEFINE n == Len(stack)
           tally == Tally(m, metrics, live)
           before == Left(e, m, Top)
           below == Left(e, m, stack[n - 1])
<1>1. /\ Disciplined(e) /\ tally \in Int /\ stack \in Seq(Frames) /\ Chain(e, stack)
      /\ \A k \in 1 .. n : Left(e, m, stack[k]) \in Int
  BY LedgerParts
<1>2. /\ status = "running" /\ status' = status /\ stack' = Below /\ n > 1 /\ AtEnd
      /\ iterations' = iterations /\ metrics' = metrics /\ live' = live
  BY DEF Leave
<1>3. n \in Nat
  BY <1>1
<1>4. before = 0
  <2>1. Top \in Frames /\ Fits(e, Top) /\ Top.pc > Len(Body(e, Top.fn, Top.args, Top.exc))
    BY <1>1, <1>2, <1>3 DEF Top, Chain, AtEnd, Statements
  <2> QED
    BY <1>1, <2>1, LeftOf
<1>5. PICK total \in Int :
        /\ Sums(e, m, stack, total)
        /\ Covers(m, Work(m, e, e, << iterations >>), tally + total + before)
  BY <1>2 DEF Ledger, Due
<1>6. /\ Len(Below) = n - 1 /\ \A k \in 1 .. Len(Below) : Below[k] = stack[k]
  BY <1>1, <1>2, FrontOf DEF Below
<1> HIDE DEF n
<1>7. n - 1 \in 1 .. n /\ n - 1 \in 1 .. n - 1
  BY <1>2, <1>3
<1>8. below \in Int
  BY <1>1, <1>7
<1>9. Sums(e, m, stack', total - below)
  BY <1>2, <1>3, <1>5, <1>6, <1>8, SumsPop DEF n
<1>10. Due(e, m)' = below
  BY <1>2, <1>6, <1>7 DEF Due, Top
<1> HIDE DEF tally, before, below
<1>11. Covers(m, tally + total + before, tally + (total - below) + below) /\ total - below \in Int
  BY <1>1, <1>4, <1>5, <1>8 DEF Covers
<1>12. before \in Int
  BY <1>4
<1> QED
  BY <1>1, <1>2, <1>5, <1>8, <1>9, <1>10, <1>11, <1>12, LedgerMoved DEF tally

\* An exception passes through a scope to the one below it.
LEMMA LedgerUnwind ==
  ASSUME IInv, OrderInv, Contracted, NEW e, e = suite.entry, NEW m \in Ledgers(e),
         Ledger(e, m), UnwindScope
  PROVE  Ledger(e, m)'
<1> DEFINE n == Len(stack)
           tally == Tally(m, metrics, live)
           below == Left(e, m, stack[n - 1])
           settled == Settled(m, e, stack[n - 1].fn, stack[n - 1].args, flying.type)
<1>1. /\ tally \in Int /\ stack \in Seq(Frames)
      /\ \A k \in 1 .. n : Left(e, m, stack[k]) \in Int
  BY LedgerParts
<1>2. /\ status = "unwinding" /\ status' = status /\ stack' = Below /\ flying' = flying
      /\ iterations' = iterations /\ metrics' = metrics /\ live' = live
      /\ Catches(e, Top.fn, flying.type) = "none"
  BY DEF UnwindScope, ClauseFor
<1>3. /\ n > 1 /\ Linked(e, stack[n - 1], Top) /\ flying.type \in Leaks(e, Top.fn, Top.args)
  BY OrderUnwind
<1>4. Covers(m, below + Fare(m), settled)
  BY <1>3 DEF Linked
<1>5. Due(e, m) = Fare(m)
  BY <1>2 DEF Due, Settled
<1>6. PICK total \in Int :
        /\ Sums(e, m, stack, total) /\ Fare(m) \in Int
        /\ Covers(m, Work(m, e, e, << iterations >>), tally + total + Fare(m))
  BY <1>5 DEF Ledger
<1>7. /\ Len(Below) = n - 1 /\ \A k \in 1 .. Len(Below) : Below[k] = stack[k] /\ n \in Nat
  BY <1>1, <1>3, FrontOf DEF Below
<1> HIDE DEF n
<1>8. n - 1 \in 1 .. n /\ n - 1 \in 1 .. n - 1 /\ n \in Nat
  <2>1. n \in Nat
    BY <1>1 DEF n
  <2> QED
    BY <1>3, <2>1
<1>9. below \in Int
  BY <1>1, <1>8
<1>10. Sums(e, m, stack', total - below)
  BY <1>2, <1>3, <1>6, <1>7, <1>8, <1>9, SumsPop DEF n
<1>11. Due(e, m)' = settled
  BY <1>2, <1>7, <1>8 DEF Due, Top
<1> HIDE DEF tally, below, settled
<1>12. /\ Covers(m, tally + total + Fare(m), tally + (total - below) + settled)
       /\ total - below \in Int /\ settled \in Int
  BY <1>1, <1>4, <1>6, <1>9 DEF Covers
<1> QED
  BY <1>1, <1>2, <1>6, <1>10, <1>11, <1>12, LedgerMoved DEF tally

\* The clause is to add what the exception was to settle.
LEMMA LedgerHandler ==
  ASSUME IInv, OrderInv, Contracted, NEW e, e = suite.entry, NEW m \in Ledgers(e),
         Ledger(e, m), EnterHandler
  PROVE  Ledger(e, m)'
<1> DEFINE n == Len(stack)
           clause == Catches(e, Top.fn, flying.type)
           f == Scope(clause, Top.args, flying, Top.depth)
           work == Work(m, e, clause, Top.args)
<1>1. /\ Disciplined(e) /\ Tally(m, metrics, live) \in Int /\ stack \in Seq(Frames)
      /\ live \in Nat
  BY LedgerParts
<1>2. /\ status = "unwinding" /\ status' = "running" /\ stack' = Append(Below, f)
      /\ iterations' = iterations /\ metrics' = metrics /\ live' = live
      /\ clause \in STRING \ {"none"}
  BY DEF EnterHandler, ClauseFor
<1>3. Due(e, m) = work
  BY <1>2 DEF Due, Settled
<1>4. PICK total \in Int :
        /\ Sums(e, m, stack, total) /\ work \in Int
        /\ Covers(m, Work(m, e, e, << iterations >>), Tally(m, metrics, live) + total + work)
  BY <1>3 DEF Ledger
<1>5. /\ Len(stack) > 0 /\ flying \in MaybeException /\ MarksOrdered(stack)
  BY <1>2 DEF IInv, TypeOK, StackInv
<1>6. /\ f \in Frames /\ f.fn = clause /\ f.args = Top.args /\ f.pc = 1
  BY <1>1, <1>2, <1>5, TopFrame, ScopeFrame DEF Scope
<1>7. /\ Below \in Seq(Frames) /\ Len(Below) = n - 1 /\ \A k \in 1 .. n - 1 : Below[k] = stack[k]
  BY <1>1, <1>5, BelowStack
<1>8. Chain(e, stack')
  BY <1>1, OrderHandler
<1> HIDE DEF f, clause
<1>9. /\ Len(stack') = n /\ stack'[n] = f /\ \A k \in 1 .. n - 1 : stack[k] = stack'[k]
  BY <1>1, <1>2, <1>5, <1>6, <1>7
<1>10. Fits(e, f)
  BY <1>5, <1>8, <1>9 DEF Chain
<1>11. Due(e, m)' = work
  <2>1. Left(e, m, f) = work
    BY <1>1, <1>6, <1>10, LeftOf
  <2> QED
    BY <1>2, <1>9, <2>1 DEF Due, Top
<1>12. Sums(e, m, stack', total)
  BY <1>4, <1>9, SumsTop
<1> QED
  BY <1>1, <1>2, <1>4, <1>11, <1>12 DEF Ledger

\* The accounts of a call that begins.
LEMMA LedgerBegin ==
  ASSUME IInv, OrderInv, OrderInv', Contracted, NEW e, e = suite.entry, BeginCall,
         NEW m \in Ledgers(e)
  PROVE  Ledger(e, m)' /\ iterations' \in Nat \ {0}
<1>1. PICK i \in suite.iterations :
        /\ iterations' = IF i <= 0 THEN 1 ELSE i
        /\ stack' = << Scope(e, << IF i <= 0 THEN 1 ELSE i >>, NoException, 1) >>
  BY DEF BeginCall
<1> DEFINE n == IF i <= 0 THEN 1 ELSE i
           f == Scope(e, << n >>, NoException, 1)
<1>2. n \in Nat \ {0} /\ e \in STRING /\ << n >> \in Seq(Int)
  BY SuiteFields DEF IInv, TypeOK
<1>3. /\ f \in Frames /\ f.fn = e /\ f.args = << n >> /\ f.pc = 1
  BY <1>2, ScopeFrame, NoExceptionTyped DEF Scope, IInv, TypeOK
<1>4. /\ iterations' = n /\ stack' = << f >> /\ status' = "running" /\ suite' = suite
      /\ live' = live /\ metrics' = FreshMetrics
  BY <1>1 DEF BeginCall, ResetMetrics
<1>5. Disciplined(e) /\ Counters \subseteq Events /\ m \in AllLedgers
  BY LedgerParts
<1> HIDE DEF n, f
<1>6. Fits(e, f)
  BY <1>4 DEF OrderInv, Chain
<1>7. Left(e, m, f) = Work(m, e, e, << n >>) /\ Work(m, e, e, << n >>) \in Int
  BY <1>3, <1>5, <1>6, LeftOf
<1>8. Tally(m, metrics', live') = 0
  <2>1. live' = 0
    BY <1>4 DEF IInv, GuardsBalanced, BeginCall
  <2> QED
    BY <1>4, <1>5, <2>1, TallyFresh
<1>9. Sums(e, m, stack', 0)
  BY <1>4, SumsFirst
<1>10. Due(e, m)' = Work(m, e, e, << n >>)
  BY <1>4, <1>7 DEF Due, Top
<1>11. Covers(m, Work(m, e, e, << n >>), 0 + 0 + Work(m, e, e, << n >>))
  BY <1>7 DEF Covers
<1>12. Due(e, m)' \in Int
       /\ Covers(m, Work(m, e, e, << iterations' >>), Tally(m, metrics', live') + 0 + Due(e, m)')
  BY <1>4, <1>7, <1>8, <1>10, <1>11
<1> QED
  BY <1>2, <1>4, <1>9, <1>12 DEF Ledger

\* The accounts of a call that ends.
LEMMA LedgerFinish ==
  ASSUME IInv, OrderInv, Contracted, NEW e, e = suite.entry, NEW m \in Ledgers(e),
         Ledger(e, m), FinishCall
  PROVE  live = 0 /\ Covers(m, Work(m, e, e, << iterations >>), Tally(m, metrics, 0))
<1> DEFINE before == Left(e, m, Top)
           tally == Tally(m, metrics, live)
<1>1. /\ Disciplined(e) /\ tally \in Int /\ stack \in Seq(Frames) /\ Chain(e, stack)
  BY LedgerParts
<1>2. /\ status = "running" /\ Len(stack) = 1 /\ AtEnd /\ live = Top.mark
  BY DEF FinishCall, Clean
<1>3. live = 0
  BY <1>2 DEF IInv, StackInv, MarksOrdered, Top
<1>4. before = 0
  <2>1. Top = stack[1]
    BY <1>2 DEF Top
  <2>2. Top \in Frames /\ Fits(e, Top) /\ Top.pc > Len(Body(e, Top.fn, Top.args, Top.exc))
    BY <1>1, <1>2, <2>1 DEF Chain, AtEnd, Statements
  <2> QED
    BY <1>1, <2>2, LeftOf
<1>5. PICK total \in Int :
        /\ Sums(e, m, stack, total)
        /\ Covers(m, Work(m, e, e, << iterations >>), tally + total + before)
  BY <1>2 DEF Ledger, Due
<1>6. total = 0
  <2>1. Len(stack) \in Nat \ {0} /\ 1 .. Len(stack) - 1 = {}
    BY <1>2
  <2> QED
    BY <1>5, <2>1, SumsNothing
<1> HIDE DEF tally, before
<1>7. tally + total + before = tally
  BY <1>1, <1>4, <1>6 DEF tally
<1> QED
  BY <1>3, <1>5, <1>7 DEF tally

\* What a statement that opens no scope costs.
LEMMA CostTyped ==
  ASSUME NEW m, NEW s, s.op \in {"guard", "capture", "count"}
  PROVE  /\ Cost(m, s) \in Int
         /\ s.op = "guard" => Cost(m, s) = IF m = "guards" THEN 1 ELSE 0
         /\ s.op = "capture" =>
              Cost(m, s) = CASE m = "traces" -> 1 [] m = "walks" -> -1 [] OTHER -> 0
         /\ s.op = "count" => Cost(m, s) = CountCost(m, s.event)
<1>1. \A event : CountCost(m, event) \in Int
  BY DEF CountCost
<1> HIDE DEF CountCost
<1> QED
  BY <1>1 DEF Cost

\* The ledger after each statement.
LEMMA LedgerStatement ==
  ASSUME IInv, OrderInv, OrderInv', Contracted, NEW e, e = suite.entry, NEW m \in Ledgers(e),
         Ledger(e, m), Statement
  PROVE  Ledger(e, m)'
<1> DEFINE s == Statements[Top.pc]
<1>1. /\ Disciplined(e) /\ m \in AllLedgers /\ Counters \subseteq Events
      /\ metrics \in Metrics /\ live \in Nat /\ Tally(m, metrics, live) \in Int
  BY LedgerParts
<1>2. CASE ConstructGuard
  <2>1. /\ Executes("guard") /\ stack' = Advanced /\ status' = status
        /\ iterations' = iterations /\ metrics' = metrics /\ live' = live + 1
    BY <1>2 DEF ConstructGuard
  <2>2. s.op = "guard"
    BY <2>1, ExecutesRunning
  <2>3. Tally(m, metrics', live') = Tally(m, metrics, live) + Cost(m, s) /\ Cost(m, s) \in Int
    BY <1>1, <2>1, <2>2, CostTyped, TallyGuard
  <2> QED
    BY <2>1, <2>3, LedgerAdvance
<1>3. CASE CaptureTrace
  <2>1. /\ Executes("capture") /\ stack' = Advanced /\ status' = status
        /\ iterations' = iterations /\ metrics' = Captured(metrics, Top.depth) /\ live' = live
    BY <1>3 DEF CaptureTrace
  <2>2. s.op = "capture" /\ Top.depth \in Nat
    BY <2>1, ExecutesRunning
  <2>3. /\ metrics'.captures = metrics.captures + 1 /\ metrics'.destructors = metrics.destructors
        /\ metrics'.events = metrics.events
    BY <1>1, <2>1 DEF Captured, Metrics
  <2>4. metrics' \in Metrics
    BY <2>1, <2>2, CapturedMetrics DEF IInv, TypeOK, ShallowAgrees
  <2>5. Tally(m, metrics', live') = Tally(m, metrics, live) + Cost(m, s) /\ Cost(m, s) \in Int
    BY <1>1, <2>1, <2>2, <2>3, <2>4, CostTyped, TallyCapture
  <2> QED
    BY <2>1, <2>5, LedgerAdvance
<1>4. CASE CountEvent
  <2>1. /\ Executes("count") /\ stack' = Advanced /\ status' = status
        /\ iterations' = iterations /\ live' = live
        /\ metrics' = [metrics EXCEPT !.events[s.event] = @ + 1]
    BY <1>4 DEF CountEvent
  <2>2. s.op = "count"
    BY <2>1, ExecutesRunning
  <2>3. /\ metrics'.captures = metrics.captures /\ metrics'.destructors = metrics.destructors
        /\ metrics'.events = [metrics.events EXCEPT ![s.event] = @ + 1]
    BY <1>1, <2>1 DEF Metrics
  <2>4. metrics' \in Metrics
    BY <1>4, CountEventKeeps DEF IInv, TypeOK
  <2> DEFINE event == s.event
  <2>5. metrics'.events = [metrics.events EXCEPT ![event] = @ + 1]
    BY <2>3
  <2>6. Cost(m, s) = CountCost(m, event) /\ Cost(m, s) \in Int
    BY <2>2, CostTyped
  <2> HIDE DEF event
  <2>7. Tally(m, metrics', live) = Tally(m, metrics, live) + CountCost(m, event)
    BY <1>1, <2>3, <2>4, <2>5, TallyCount
  <2>8. Tally(m, metrics', live') = Tally(m, metrics, live) + Cost(m, s)
    BY <2>1, <2>6, <2>7
  <2> QED
    BY <2>1, <2>6, <2>8, LedgerAdvance
<1>5. CASE CallFunction
  <2>1. /\ Executes("call") /\ status' = status /\ iterations' = iterations
        /\ metrics' = metrics /\ live' = live
        /\ stack' = Append(Advanced, Scope(s.fn, s.args, NoException, Top.depth + 1))
    BY <1>5 DEF CallFunction
  <2>2. Top.depth + 1 \in Nat
    BY <2>1, ExecutesRunning
  <2> QED
    BY <2>1, <2>2, LedgerPush
<1>6. CASE EnterTry
  <2>1. /\ Executes("try") /\ status' = status /\ iterations' = iterations
        /\ metrics' = metrics /\ live' = live
        /\ stack' = Append(Advanced, Scope(s.fn, s.args, NoException, Top.depth))
    BY <1>6 DEF EnterTry
  <2>2. Top.depth \in Nat
    BY <2>1, ExecutesRunning
  <2> QED
    BY <2>1, <2>2, LedgerPush
<1>7. CASE Throw
  <2>1. Executes("throw") /\ Propagate(s.exc)
    BY <1>7 DEF Throw
  <2>2. /\ status = "running" /\ s.op = "throw"
        /\ Balanced(m, e, Top.fn, Top.args, Top.exc, s, Left(e, m, Top),
                    Left(e, m, Advanced[Len(stack)]))
    BY <1>1, <2>1, StatementKept, ExecutesRunning
  <2>3. Covers(m, Left(e, m, Top), Settled(m, e, Top.fn, Top.args, s.exc.type))
    BY <2>2 DEF Balanced
  <2> QED
    BY <2>1, <2>2, <2>3, LedgerPropagate
<1>8. CASE Rethrow
  <2>1. Executes("rethrow") /\ Propagate(Top.exc)
    BY <1>8 DEF Rethrow
  <2>2. /\ status = "running" /\ s.op = "rethrow"
        /\ Balanced(m, e, Top.fn, Top.args, Top.exc, s, Left(e, m, Top),
                    Left(e, m, Advanced[Len(stack)]))
    BY <1>1, <2>1, StatementKept, ExecutesRunning
  <2>3. Covers(m, Left(e, m, Top), Settled(m, e, Top.fn, Top.args, Top.exc.type))
    BY <2>2 DEF Balanced
  <2> QED
    BY <2>1, <2>2, <2>3, LedgerPropagate
<1> QED
  BY <1>2, <1>3, <1>4, <1>5, <1>6, <1>7, <1>8 DEF Statement

\* Destroying a guard moves it from the live ones to the destructors: guards are as before.
LEMMA LedgerDestroy ==
  ASSUME IInv, OrderInv, Contracted, NEW e, e = suite.entry, NEW m \in Ledgers(e),
         Ledger(e, m), DestroyGuard
  PROVE  Ledger(e, m)'
<1> DEFINE counted == [metrics EXCEPT !.destructors = @ + 1]
<1>1. m \in AllLedgers /\ metrics \in Metrics /\ live \in Nat
  BY LedgerParts
<1>2. /\ stack' = stack /\ status' = status /\ flying' = flying /\ iterations' = iterations
      /\ live > Top.mark /\ live' = live - 1 /\ metrics' = Captured(counted, Top.depth)
      /\ status \in {"running", "unwinding"}
  BY DEF DestroyGuard
<1>3. Top.mark \in Nat
  BY <1>2, TopFrame DEF IInv, TypeOK, StackInv
<1>4. /\ metrics'.captures = metrics.captures + 1
      /\ metrics'.destructors = metrics.destructors + 1
      /\ metrics'.events = metrics.events
  BY <1>1, <1>2 DEF Captured, Metrics
<1>5. metrics' \in Metrics
  BY DestroyGuardKeeps DEF IInv, TypeOK
<1>6. live > 0
  BY <1>1, <1>2, <1>3
<1>7. Tally(m, metrics', live') = Tally(m, metrics, live)
  BY <1>1, <1>2, <1>4, <1>5, <1>6, TallyDestroy
<1> QED
  BY <1>2, <1>7, LedgerSame

\* The seeds decide only three accounts, and two suites have them.
LEMMA SeedsDecide ==
  ASSUME NEW e
  PROVE  /\ SeedAccounts(e) \subseteq {"hits", "throws", "walks"}
         /\ e \notin {CfiEntry, ExtEntry} => SeedAccounts(e) = {}
BY DEF SeedAccounts, CfiEntry, ExtEntry

\* An exported function by itself leaves nothing in the flows.
LEMMA NoFlow ==
  ASSUME NEW e, Disciplined(e), NEW n \in Nat \ {0}, NEW m \in Flows
  PROVE  Work(m, e, e, << n >>) = 0
<1>1. "none" \in Enters(e, e, << n >>)
  BY DEF Disciplined, Orderly
<1>2. m \notin SeedAccounts(e)
  BY SeedsDecide DEF Flows
<1> QED
  BY <1>1, <1>2 DEF Work, Flows

\* The books are balanced before the first call.
LEMMA LedgerInit == Contracted /\ Init => LedgerInv
<1> SUFFICES ASSUME Contracted, Init PROVE LedgerInv
  OBVIOUS
<1>1. /\ status = "idle" /\ metrics = FreshMetrics /\ live = 0 /\ Len(reports) = 0
      /\ suite \in Suites
  BY DEF Init
<1>2. ASSUME NEW m \in Ledgers(suite.entry) PROVE Covers(m, 0, Tally(m, metrics, live))
  <2>1. m \in AllLedgers /\ Counters \subseteq Events
    BY <1>1 DEF Contracted
  <2> QED
    BY <1>1, <2>1, TallyFresh DEF Covers
<1> QED
  BY <1>1, <1>2 DEF LedgerInv

\* Every step keeps the books balanced, in every account of the suite.
LEMMA LedgerStep == Contracted /\ IInv /\ OrderInv /\ LedgerInv /\ [Next]_vars => LedgerInv'
<1> SUFFICES ASSUME Contracted, IInv, OrderInv, LedgerInv, [Next]_vars PROVE LedgerInv'
  OBVIOUS
<1>1. OrderInv' /\ IInv'
  BY OrderStep, StepInv
<1>2. PICK e : e = suite.entry
  OBVIOUS
<1> DEFINE Settles(r) ==
             /\ r.iterations \in Nat \ {0}
             /\ \A m \in Ledgers(e) :
                  Covers(m, Work(m, e, e, << r.iterations >>), Tally(m, r.metrics, 0))
<1>3. \A c \in 1 .. Len(reports) : Settles(reports[c])
  BY <1>2 DEF LedgerInv
<1>4. CASE Statement \/ DestroyGuard \/ Leave \/ UnwindScope \/ EnterHandler
  <2>1. /\ status \in {"running", "unwinding"} /\ suite' = suite /\ reports' = reports
        /\ iterations' = iterations /\ status' # "idle"
    BY <1>4 DEF Statement, ConstructGuard, CaptureTrace, CountEvent, CallFunction, EnterTry,
       Throw, Rethrow, Propagate, Executes, DestroyGuard, Leave, UnwindScope, EnterHandler
  <2>2. iterations \in Nat \ {0} /\ \A m \in Ledgers(e) : Ledger(e, m)
    BY <1>2, <2>1 DEF LedgerInv
  <2>3. ASSUME NEW m \in Ledgers(e) PROVE Ledger(e, m)'
    <3>1. Ledger(e, m)
      BY <2>2
    <3> QED
      BY <1>1, <1>2, <1>4, <3>1, LedgerStatement, LedgerDestroy, LedgerLeave, LedgerUnwind,
         LedgerHandler
  <2>4. \A c \in 1 .. Len(reports') : Settles(reports'[c])
    BY <1>3, <2>1
  <2>5. suite'.entry = e
    BY <1>2, <2>1
  <2> HIDE DEF Settles
  <2> QED
    BY <2>1, <2>2, <2>3, <2>4, <2>5 DEF LedgerInv, Settles
<1>5. CASE BeginCall
  <2>1. /\ status' = "running" /\ suite' = suite /\ reports' = reports
    BY <1>5 DEF BeginCall
  <2>2. \A m \in Ledgers(e) : Ledger(e, m)'
    BY <1>1, <1>2, <1>5, LedgerBegin
  <2>3. iterations' \in Nat \ {0}
    BY <1>5, SuiteFields DEF BeginCall, IInv, TypeOK
  <2>4. \A c \in 1 .. Len(reports') : Settles(reports'[c])
    BY <1>3, <2>1
  <2>5. suite'.entry = e
    BY <1>2, <2>1
  <2> HIDE DEF Settles
  <2> QED
    BY <2>1, <2>2, <2>3, <2>4, <2>5 DEF LedgerInv, Settles
<1>6. CASE FinishCall
  <2> DEFINE r == [iterations |-> iterations, metrics |-> metrics]
  <2>1. /\ status = "running" /\ status' = "idle" /\ suite' = suite
        /\ metrics' = metrics /\ live' = live /\ reports' = Append(reports, r)
    BY <1>6 DEF FinishCall
  <2>2. iterations \in Nat \ {0} /\ \A m \in Ledgers(e) : Ledger(e, m)
    BY <1>2, <2>1 DEF LedgerInv
  <2>3. \A m \in Ledgers(e) :
          live = 0 /\ Covers(m, Work(m, e, e, << iterations >>), Tally(m, metrics, 0))
    BY <1>2, <1>6, <2>2, LedgerFinish
  <2>4. r.iterations = iterations /\ r.metrics = metrics
    OBVIOUS
  <2> HIDE DEF r
  <2>5. Settles(r)
    BY <2>2, <2>3, <2>4
  <2>6. \A c \in 1 .. Len(reports') : Settles(reports'[c])
    <3>1. /\ Len(reports') = Len(reports) + 1 /\ reports'[Len(reports) + 1] = r
          /\ \A c \in 1 .. Len(reports) : reports'[c] = reports[c]
      BY <2>1 DEF IInv, TypeOK, r
    <3>2. Len(reports) \in Nat
      BY DEF IInv, TypeOK
    <3> HIDE DEF Settles
    <3> QED
      BY <1>3, <2>5, <3>1, <3>2
  <2>7. ASSUME NEW m \in Ledgers(e) \cap Flows PROVE Covers(m, 0, Tally(m, metrics', live'))
    <3>1. Disciplined(e)
      BY <1>2 DEF Contracted, IInv, TypeOK
    <3>2. Work(m, e, e, << iterations >>) = 0
      BY <2>2, <3>1, NoFlow
    <3> QED
      BY <2>1, <2>3, <3>2
  <2>8. suite'.entry = e
    BY <1>2, <2>1
  <2> HIDE DEF Settles
  <2> QED
    BY <2>1, <2>6, <2>7, <2>8 DEF LedgerInv, Settles
<1>7. CASE UNCHANGED vars
  BY <1>7 DEF vars, LedgerInv, Ledger, Due, Top
<1> QED
  BY <1>4, <1>5, <1>6, <1>7 DEF Next, ScopeExit

-----------------------------------------------------------------------------

(***************************************************************************)
(* The contracts of the suites.  A path is a plan from a statement on.     *)
(***************************************************************************)
Path(m, e, fn, args, exc, i, x) ==
  LET body == Body(e, fn, args, exc)
  IN  \E left \in [i .. Len(body) + 1 -> Int] :
        /\ left[i] = x /\ left[Len(body) + 1] = 0
        /\ \A j \in i .. Len(body) :
             Balanced(m, e, fn, args, exc, body[j], left[j], left[j + 1])

\* Nothing is left to add after the last statement.
LEMMA PathEnd ==
  ASSUME NEW m, NEW e, NEW fn, NEW args, NEW exc, NEW n \in Nat, NEW i, i = n + 1,
         Len(Body(e, fn, args, exc)) = n
  PROVE  Path(m, e, fn, args, exc, i, 0)
<1> DEFINE left == [j \in i .. n + 1 |-> 0]
<1>1. left \in [i .. n + 1 -> Int] /\ left[i] = 0 /\ left[n + 1] = 0
  OBVIOUS
<1>2. \A j \in i .. n : FALSE
  OBVIOUS
<1> HIDE DEF left
<1> QED
  BY <1>1, <1>2 DEF Path

\* A path from a statement on: the statement, and the path from the next one on.
LEMMA PathStep ==
  ASSUME NEW m, NEW e, NEW fn, NEW args, NEW exc, NEW i \in Nat, NEW x \in Int, NEW y,
         Len(Body(e, fn, args, exc)) \in Nat, i <= Len(Body(e, fn, args, exc)),
         Balanced(m, e, fn, args, exc, Body(e, fn, args, exc)[i], x, y),
         Path(m, e, fn, args, exc, i + 1, y)
  PROVE  Path(m, e, fn, args, exc, i, x)
<1> DEFINE body == Body(e, fn, args, exc)
<1>1. PICK rest \in [i + 1 .. Len(body) + 1 -> Int] :
        /\ rest[i + 1] = y /\ rest[Len(body) + 1] = 0
        /\ \A j \in i + 1 .. Len(body) :
             Balanced(m, e, fn, args, exc, body[j], rest[j], rest[j + 1])
  BY DEF Path
<1> DEFINE left == [j \in i .. Len(body) + 1 |-> IF j = i THEN x ELSE rest[j]]
<1> DEFINE n == Len(body)
<1>2. n \in Nat /\ i <= n /\ Balanced(m, e, fn, args, exc, body[i], x, y)
  OBVIOUS
<1>3. \E l \in [i .. n + 1 -> Int] :
        /\ l[i] = x /\ l[n + 1] = 0 /\ l[i + 1] = y
        /\ \A j \in i + 1 .. n : l[j] = rest[j] /\ l[j + 1] = rest[j + 1]
  <2> HIDE DEF body, n
  <2>1. left \in [i .. n + 1 -> Int]
    BY <1>1, <1>2 DEF n
  <2>2. left[i] = x /\ left[n + 1] = 0 /\ left[i + 1] = y
    BY <1>1, <1>2 DEF n
  <2>3. \A j \in i + 1 .. n : left[j] = rest[j] /\ left[j + 1] = rest[j + 1]
    BY <1>1, <1>2 DEF n
  <2> QED
    BY <2>1, <2>2, <2>3
<1>4. PICK l \in [i .. n + 1 -> Int] :
        /\ l[i] = x /\ l[n + 1] = 0 /\ l[i + 1] = y
        /\ \A j \in i + 1 .. n : l[j] = rest[j] /\ l[j + 1] = rest[j + 1]
  BY <1>3
<1>5. ASSUME NEW j \in i .. n
      PROVE  Balanced(m, e, fn, args, exc, body[j], l[j], l[j + 1])
  <2> HIDE DEF body
  <2>1. CASE j = i
    BY <1>2, <1>4, <2>1
  <2>2. CASE j # i
    <3>1. j \in i + 1 .. n
      BY <1>2, <2>2
    <3>2. Balanced(m, e, fn, args, exc, body[j], rest[j], rest[j + 1])
      BY <1>1, <3>1
    <3> QED
      BY <1>4, <3>1, <3>2
  <2> QED
    BY <2>1, <2>2
<1> QED
  BY <1>4, <1>5 DEF Path

\* f from i to k and g from k to n, as one function.
Joined(i, k, n, f, g) ==
  \E l \in [i .. n -> Int] :
    /\ l[i] = f[i] /\ l[n] = g[n]
    /\ \A j \in k .. n : l[j] = g[j]
    /\ \A j \in i .. k - 1 : l[j] = f[j] /\ l[j + 1] = f[j + 1]

\* Two plans that agree where they meet are one.
LEMMA Join ==
  ASSUME NEW i \in Nat, NEW k \in Nat, NEW n \in Nat, i <= k, k <= n,
         NEW f, \A j \in Int : f[j] \in Int, NEW g, \A j \in k .. n : g[j] \in Int,
         f[k] = g[k]
  PROVE  Joined(i, k, n, f, g)
<1> DEFINE l == [j \in i .. n |-> IF j < k THEN f[j] ELSE g[j]]
<1>1. ASSUME NEW j \in i .. n
      PROVE  (j < k => l[j] = f[j]) /\ (j >= k => l[j] = g[j]) /\ l[j] \in Int
  <2>1. CASE j < k
    <3>1. l[j] = f[j] /\ ~(j >= k)
      BY <2>1
    <3> QED
      BY <2>1, <3>1
  <2>2. CASE j >= k
    <3>1. l[j] = g[j] /\ ~(j < k) /\ j \in k .. n
      BY <2>2
    <3> QED
      BY <2>2, <3>1
  <2> QED
    BY <2>1, <2>2
<1>2. l = [j \in i .. n |-> l[j]]
  OBVIOUS
<1> HIDE DEF l
<1>3. l \in [i .. n -> Int]
  BY <1>1, <1>2
<1>4. \A j \in k .. n : l[j] = g[j]
  <2>1. \A j \in k .. n : j \in i .. n /\ j >= k
    OBVIOUS
  <2> QED
    BY <1>1, <2>1
<1>5. l[k] = f[k] /\ l[n] = g[n]
  BY <1>4
<1>6. ASSUME NEW j \in i .. k - 1
      PROVE  l[j] = f[j] /\ l[j + 1] = f[j + 1]
  <2>1. j \in i .. n /\ j + 1 \in i .. n /\ j < k /\ (j + 1 < k \/ j + 1 = k)
    OBVIOUS
  <2> QED
    BY <1>1, <1>5, <2>1
<1>7. l[i] = f[i]
  <2>1. i = k \/ (i < k /\ i \in i .. n)
    OBVIOUS
  <2> QED
    BY <1>1, <1>5, <2>1
<1> QED
  BY <1>3, <1>4, <1>5, <1>6, <1>7 DEF Joined

\* Each of the statements from i to k - 1 adds c.
Uniform(m, e, fn, args, exc, i, k, c) ==
  \A j \in i .. k - 1 : \A z \in Int :
    (m = "pending" => z = 0) =>
      Balanced(m, e, fn, args, exc, Body(e, fn, args, exc)[j], c + z, z)

\* A path may start with a loop, each turn of which adds the same.
LEMMA PathLoop ==
  ASSUME NEW m, NEW e, NEW fn, NEW args, NEW exc, NEW i \in Nat, NEW k \in Nat,
         NEW c \in Int, NEW y \in Int, NEW x, x = (k - i) * c + y,
         Len(Body(e, fn, args, exc)) \in Nat, i <= k, k <= Len(Body(e, fn, args, exc)) + 1,
         Uniform(m, e, fn, args, exc, i, k, c), m = "pending" => c = 0 /\ y = 0,
         Path(m, e, fn, args, exc, k, y)
  PROVE  Path(m, e, fn, args, exc, i, x)
<1> DEFINE body == Body(e, fn, args, exc)
<1> DEFINE last == Len(body) + 1
<1>1. PICK rest \in [k .. last -> Int] :
        /\ rest[k] = y /\ rest[last] = 0
        /\ \A j \in k .. Len(body) :
             Balanced(m, e, fn, args, exc, body[j], rest[j], rest[j + 1])
  BY DEF Path
<1>2. last \in Nat /\ k <= last /\ Len(body) = last - 1
  OBVIOUS
<1> HIDE DEF last
<1> DEFINE due == [j \in Int |-> (k - j) * c + y]
<1>3. (\A j \in Int : due[j] \in Int) /\ due[k] = y /\ due[i] = x
  OBVIOUS
<1>4. ASSUME NEW j \in Int
      PROVE  due[j] = c + due[j + 1] /\ due[j + 1] \in Int /\ (c = 0 /\ y = 0 => due[j + 1] = 0)
  <2>1. (k - j) * c = c + (k - (j + 1)) * c /\ (c = 0 => (k - (j + 1)) * c = 0)
    OBVIOUS
  <2>2. (k - (j + 1)) * c \in Int
    OBVIOUS
  <2> QED
    BY <2>1, <2>2
<1> HIDE DEF due
<1>5. PICK left \in [i .. last -> Int] :
        /\ left[i] = due[i] /\ left[last] = rest[last]
        /\ \A j \in k .. last : left[j] = rest[j]
        /\ \A j \in i .. k - 1 : left[j] = due[j] /\ left[j + 1] = due[j + 1]
  <2>1. Joined(i, k, last, due, rest)
    BY <1>1, <1>2, <1>3, Join
  <2> QED
    BY <2>1 DEF Joined
<1>6. ASSUME NEW j \in i .. Len(body)
      PROVE  Balanced(m, e, fn, args, exc, body[j], left[j], left[j + 1])
  <2>1. CASE j >= k
    <3>1. j \in k .. Len(body) /\ j \in k .. last /\ j + 1 \in k .. last
      BY <1>2, <2>1
    <3>2. left[j] = rest[j] /\ left[j + 1] = rest[j + 1]
      BY <1>5, <3>1
    <3> QED
      BY <1>1, <3>1, <3>2
  <2>2. CASE j < k
    <3>1. j \in i .. k - 1 /\ j \in Int
      BY <1>2, <2>2
    <3>2. left[j] = due[j] /\ left[j + 1] = due[j + 1]
      BY <1>5, <3>1
    <3>3. Balanced(m, e, fn, args, exc, body[j], c + due[j + 1], due[j + 1])
      BY <1>4, <3>1 DEF Uniform
    <3> QED
      BY <1>4, <3>1, <3>2, <3>3
  <2> QED
    BY <1>2, <2>1, <2>2
<1> QED
  BY <1>1, <1>2, <1>3, <1>5, <1>6 DEF Path, last

\* A scope keeps its contract when each account has a path from its first statement on.
LEMMA KeepsBy ==
  ASSUME NEW e, NEW fn, NEW args, NEW exc, Len(Body(e, fn, args, exc)) \in Nat,
         \A i \in 1 .. Len(Body(e, fn, args, exc)) : 
            Contained(e, fn, args, exc, Body(e, fn, args, exc)[i]),
         \A m \in Accounts(e) : Path(m, e, fn, args, exc, 1, Work(m, e, fn, args)),
         ClausesKept(e, fn, args)
  PROVE  Keeps(e, fn, args, exc)
<1>1. ASSUME NEW m \in Accounts(e)
      PROVE  \E left : IsPlan(m, e, fn, args, exc, left)
  <2>1. Path(m, e, fn, args, exc, 1, Work(m, e, fn, args))
    OBVIOUS
  <2> QED
    BY <2>1 DEF Path, IsPlan
<1> QED
  BY <1>1 DEF Keeps

\* The path through a guard, a capture or a count.
LEMMA PathFlat ==
  ASSUME NEW m, NEW e, NEW fn, NEW args, NEW exc, NEW i \in Nat, NEW x, NEW y,
         Len(Body(e, fn, args, exc)) \in Nat, i <= Len(Body(e, fn, args, exc)),
         Body(e, fn, args, exc)[i].op \in {"guard", "capture", "count"},
         Covers(m, x, Cost(m, Body(e, fn, args, exc)[i]) + y),
         Path(m, e, fn, args, exc, i + 1, y)
  PROVE  Path(m, e, fn, args, exc, i, x)
<1>1. x \in Int
  BY DEF Covers
<1>2. Balanced(m, e, fn, args, exc, Body(e, fn, args, exc)[i], x, y)
  BY DEF Balanced
<1> QED
  BY <1>1, <1>2, PathStep

\* The path through a call or a try block.
LEMMA PathCall ==
  ASSUME NEW m, NEW e, NEW fn, NEW args, NEW exc, NEW i \in Nat, NEW x, NEW y, NEW s,
         Len(Body(e, fn, args, exc)) \in Nat, i <= Len(Body(e, fn, args, exc)),
         s = Body(e, fn, args, exc)[i], s.op \in {"call", "try"},
         Covers(m, x, Work(m, e, s.fn, s.args) + y),
         \A t \in Leaks(e, s.fn, s.args) : Covers(m, y + Fare(m), Settled(m, e, fn, args, t)),
         m = "pending" => y = 0,
         Path(m, e, fn, args, exc, i + 1, y)
  PROVE  Path(m, e, fn, args, exc, i, x)
<1>1. x \in Int
  BY DEF Covers
<1>2. Balanced(m, e, fn, args, exc, s, x, y)
  BY DEF Balanced
<1> QED
  BY <1>1, <1>2, PathStep

\* A scope whose clauses add what they settle for, if it has any.
Evenly(m, e, fn, args) ==
  \A t \in Raises(e, fn, args) : Settled(m, e, fn, args, t) = Fare(m)

\* A scope without a clause settles the same for every exception.
Plain(e, fn) == \A t : Catches(e, fn, t) = "none"

\* A scope without clauses leaks what it raises, and settles each exception the same.
LEMMA PlainScope ==
  ASSUME NEW e, NEW fn, NEW args, Plain(e, fn)
  PROVE  /\ ClausesKept(e, fn, args)
         /\ Leaks(e, fn, args) = Raises(e, fn, args)
         /\ \A m, t : Settled(m, e, fn, args, t) = Fare(m)
         /\ \A m : Evenly(m, e, fn, args)
BY DEF Plain, ClausesKept, Leaks, Settled, Evenly

\* The path through the two statements of a throw.
LEMMA PathRaise ==
  ASSUME NEW m, NEW e, NEW fn, NEW args, NEW exc, NEW i \in Nat, NEW x,
         Evenly(m, e, fn, args), Len(Body(e, fn, args, exc)) = i + 1,
         Body(e, fn, args, exc)[i] = Count("thrown"),
         Body(e, fn, args, exc)[i + 1].op = "throw",
         Body(e, fn, args, exc)[i + 1].exc.type \in Raises(e, fn, args),
         m \in AllAccounts,
         Covers(m, x, CountCost(m, "thrown") + Fare(m))
  PROVE  Path(m, e, fn, args, exc, i, x)
<1> DEFINE body == Body(e, fn, args, exc)
<1>1. Path(m, e, fn, args, exc, i + 2, 0)
  BY PathEnd
<1>2. Fare(m) \in Int
  BY DEF AllAccounts, Fare
<1>3. Balanced(m, e, fn, args, exc, body[i + 1], Fare(m), 0)
  <2>1. Settled(m, e, fn, args, body[i + 1].exc.type) = Fare(m)
    BY DEF Evenly
  <2>2. Covers(m, Fare(m), Fare(m))
    BY <1>2 DEF Covers
  <2> QED
    BY <2>1, <2>2 DEF Balanced
<1>4. Path(m, e, fn, args, exc, i + 1, Fare(m))
  <2>1. (i + 1) + 1 = i + 2
    OBVIOUS
  <2> QED
    BY <1>1, <1>2, <1>3, <2>1, PathStep
<1>5. body[i].op = "count" /\ Cost(m, body[i]) = CountCost(m, "thrown")
  BY DEF Count, Cost
<1> QED
  BY <1>4, <1>5, PathFlat

\* The ways the code of a case ends: nothing more, a capture, or a throw.
IsEnding(body, k, types) ==
  \/ Len(body) = k - 1
  \/ Len(body) = k /\ body[k].op = "capture"
  \/ /\ Len(body) = k + 1 /\ body[k] = Count("thrown")
     /\ body[k + 1].op = "throw" /\ body[k + 1].exc.type \in types

\* None of them adds anything, since the clause settles for the throw.
LEMMA PathEnding ==
  ASSUME NEW m \in AllAccounts, m # "traces", NEW e, NEW fn, NEW args, NEW exc,
         NEW k \in Nat, k # 0, Evenly(m, e, fn, args),
         IsEnding(Body(e, fn, args, exc), k, Raises(e, fn, args))
  PROVE  Path(m, e, fn, args, exc, k, 0)
<1> DEFINE body == Body(e, fn, args, exc)
<1>1. CASE Len(body) = k - 1
  <2>1. k - 1 \in Nat /\ k = (k - 1) + 1
    OBVIOUS
  <2> QED
    BY <1>1, <2>1, PathEnd
<1>2. CASE Len(body) = k /\ body[k].op = "capture"
  <2>1. Path(m, e, fn, args, exc, k + 1, 0)
    BY <1>2, PathEnd
  <2>2. Covers(m, 0, Cost(m, body[k]) + 0)
    BY <1>2 DEF Covers, Cost, AllAccounts
  <2>3. Len(body) \in Nat /\ k <= Len(body)
    BY <1>2
  <2> QED
    BY <1>2, <2>1, <2>2, <2>3, PathFlat
<1>3. CASE /\ Len(body) = k + 1 /\ body[k] = Count("thrown")
           /\ body[k + 1].op = "throw" /\ body[k + 1].exc.type \in Raises(e, fn, args)
  <2>1. CASE m = "throws"
    <3>1. CountCost(m, "thrown") = -1 /\ Fare(m) = 0
      BY <2>1 DEF CountCost, Fare
    <3>2. Covers(m, 0, CountCost(m, "thrown") + Fare(m))
      BY <2>1, <3>1 DEF Covers, Exact
    <3> QED
      BY <1>3, <3>2, PathRaise
  <2>2. CASE m # "throws"
    <3>1. Covers(m, 0, CountCost(m, "thrown") + Fare(m))
      BY <2>2 DEF AllAccounts, Covers, CountCost, Fare
    <3> QED
      BY <1>3, <3>1, PathRaise
  <2> QED
    BY <2>1, <2>2
<1> QED
  BY <1>1, <1>2, <1>3 DEF IsEnding

\* The statements of an ending keep to what the scope may raise.
LEMMA EndingContained ==
  ASSUME NEW e, NEW fn, NEW args, NEW exc, NEW k \in Nat, k # 0,
         IsEnding(Body(e, fn, args, exc), k, Raises(e, fn, args)),
         \A j \in 1 .. k - 1 : Contained(e, fn, args, exc, Body(e, fn, args, exc)[j])
  PROVE  /\ Len(Body(e, fn, args, exc)) \in Nat /\ k - 1 <= Len(Body(e, fn, args, exc))
         /\ \A i \in 1 .. Len(Body(e, fn, args, exc)) :
              Contained(e, fn, args, exc, Body(e, fn, args, exc)[i])
<1> DEFINE body == Body(e, fn, args, exc)
           n == Len(body)
<1>1. /\ n \in Nat /\ k - 1 <= n /\ n <= k + 1
      /\ n = k => body[k].op \in {"capture"}
      /\ n = k + 1 => /\ body[k].op = "count" /\ body[k + 1].op = "throw"
                      /\ body[k + 1].exc.type \in Raises(e, fn, args)
  BY DEF IsEnding, Count
<1> HIDE DEF n, body
<1>2. ASSUME NEW i \in 1 .. n
      PROVE  Contained(e, fn, args, exc, body[i])
  <2>1. i \in 1 .. k - 1 \/ (i = k /\ (n = k \/ n = k + 1)) \/ (i = k + 1 /\ n = k + 1)
    BY <1>1
  <2>2. \A j \in 1 .. k - 1 : Contained(e, fn, args, exc, body[j])
    BY DEF body
  <2> QED
    BY <1>1, <2>1, <2>2 DEF Contained
<1> QED
  BY <1>1, <1>2 DEF n, body

\* A case: a guard, a capture and an ending.
IsCase(body, types) ==
  body[1].op = "guard" /\ body[2].op = "capture" /\ IsEnding(body, 3, types)

\* The case functions of the suites: guard, capture, and a throw or not.
LEMMA CaseShape ==
  ASSUME NEW types, NEW c, NEW t \in types, NEW code, NEW rest \in {<< >>, << Capture >>}
  PROVE  IsCase(<< Guard, Capture >> \o (IF c THEN Raise(t, code) ELSE rest), types)
<1>1. CASE c
  BY <1>1 DEF IsCase, IsEnding, Raise, Guard, Capture
<1>2. CASE ~c /\ rest = << >>
  BY <1>2 DEF IsCase, IsEnding, Guard, Capture
<1>3. CASE ~c /\ rest = << Capture >>
  BY <1>3 DEF IsCase, IsEnding, Guard, Capture
<1> QED
  BY <1>1, <1>2, <1>3

\* A guard is what it adds.
LEMMA CaseKeeps ==
  ASSUME NEW e, NEW fn, NEW args, NEW exc, ClausesKept(e, fn, args),
         \A m \in Accounts(e) : Evenly(m, e, fn, args),
         Accounts(e) \subseteq AllAccounts \ {"traces"},
         IsCase(Body(e, fn, args, exc), Raises(e, fn, args)),
         \A m \in Accounts(e) : Work(m, e, fn, args) = IF m = "guards" THEN 1 ELSE 0
  PROVE  Keeps(e, fn, args, exc)
<1> DEFINE body == Body(e, fn, args, exc)
<1>1. /\ body[1].op = "guard" /\ body[2].op = "capture"
      /\ IsEnding(body, 3, Raises(e, fn, args))
  BY DEF IsCase
<1>2. \A j \in 1 .. 3 - 1 : Contained(e, fn, args, exc, body[j])
  <2>1. \A j \in 1 .. 3 - 1 : j = 1 \/ j = 2
    OBVIOUS
  <2> QED
    BY <1>1, <2>1 DEF Contained
<1>3. /\ Len(body) \in Nat /\ 2 <= Len(body) /\ 1 <= Len(body)
      /\ \A i \in 1 .. Len(body) : Contained(e, fn, args, exc, body[i])
  <2>1. 3 \in Nat /\ 3 # 0 /\ 3 - 1 = 2
    OBVIOUS
  <2>2. /\ Len(body) \in Nat /\ 3 - 1 <= Len(body)
        /\ \A i \in 1 .. Len(body) : Contained(e, fn, args, exc, body[i])
    BY <1>1, <1>2, <2>1, EndingContained
  <2> QED
    BY <2>2
<1>4. ASSUME NEW m \in Accounts(e)
      PROVE  Path(m, e, fn, args, exc, 1, Work(m, e, fn, args))
  <2>1. m \in AllAccounts /\ m # "traces"
    OBVIOUS
  <2>2. Path(m, e, fn, args, exc, 2 + 1, 0)
    BY <1>1, <2>1, PathEnding
  <2>3. Covers(m, 0, Cost(m, body[2]) + 0)
    BY <1>1, <2>1 DEF Covers, Cost, AllAccounts
  <2>4. Path(m, e, fn, args, exc, 1 + 1, 0)
    BY <1>1, <1>3, <2>2, <2>3, PathFlat
  <2>5. Covers(m, Work(m, e, fn, args), Cost(m, body[1]) + 0)
    BY <1>1 DEF Covers, Cost
  <2> QED
    BY <1>1, <1>3, <2>4, <2>5, PathFlat
<1> QED
  BY <1>3, <1>4, KeepsBy

\* The path through statements whose amounts due are known one by one.
LEMMA PathPrelude ==
  ASSUME NEW m, NEW e, NEW fn, NEW args, NEW exc, NEW i \in Nat, NEW k \in Nat,
         NEW due, \A j \in Int : due[j] \in Int,
         Len(Body(e, fn, args, exc)) \in Nat, i <= k, k <= Len(Body(e, fn, args, exc)) + 1,
         \A j \in i .. k - 1 :
           Balanced(m, e, fn, args, exc, Body(e, fn, args, exc)[j], due[j], due[j + 1]),
         Path(m, e, fn, args, exc, k, due[k])
  PROVE  Path(m, e, fn, args, exc, i, due[i])
<1> DEFINE body == Body(e, fn, args, exc)
<1> DEFINE last == Len(body) + 1
<1>1. PICK rest \in [k .. last -> Int] :
        /\ rest[k] = due[k] /\ rest[last] = 0
        /\ \A j \in k .. Len(body) :
             Balanced(m, e, fn, args, exc, body[j], rest[j], rest[j + 1])
  BY DEF Path
<1>2. last \in Nat /\ k <= last /\ Len(body) = last - 1
  OBVIOUS
<1> HIDE DEF last
<1>5. PICK left \in [i .. last -> Int] :
        /\ left[i] = due[i] /\ left[last] = rest[last]
        /\ \A j \in k .. last : left[j] = rest[j]
        /\ \A j \in i .. k - 1 : left[j] = due[j] /\ left[j + 1] = due[j + 1]
  <2>1. Joined(i, k, last, due, rest)
    BY <1>1, <1>2, Join
  <2> QED
    BY <2>1 DEF Joined
<1>6. ASSUME NEW j \in i .. Len(body)
      PROVE  Balanced(m, e, fn, args, exc, body[j], left[j], left[j + 1])
  <2>1. CASE j >= k
    <3>1. j \in k .. Len(body) /\ j \in k .. last /\ j + 1 \in k .. last
      BY <1>2, <2>1
    <3>2. left[j] = rest[j] /\ left[j + 1] = rest[j + 1]
      BY <1>5, <3>1
    <3> QED
      BY <1>1, <3>1, <3>2
  <2>2. CASE j < k
    <3>1. j \in i .. k - 1
      BY <1>2, <2>2
    <3> QED
      BY <1>5, <3>1
  <2> QED
    BY <1>2, <2>1, <2>2
<1> QED
  BY <1>1, <1>2, <1>5, <1>6 DEF Path, last

\* A statement before the ending of a case, with x guards still to come before it and y
\* after it.  Nothing leaves a call while guards of the scope are still to come.
Part(e, fn, args, s, x, y) ==
  \/ s.op = "guard" /\ x = 1 + y
  \/ s.op = "capture" /\ x = y
  \/ s.op = "count" /\ s.event \notin Counters /\ x = y
  \/ /\ s.op \in {"call", "try"} /\ "none" \in Enters(e, s.fn, s.args)
     /\ Leaks(e, s.fn, s.args) \subseteq Raises(e, fn, args)
     /\ Leaks(e, s.fn, s.args) # {} => y = 0
     /\ \A m \in Accounts(e) : Work(m, e, s.fn, s.args) = IF m = "guards" THEN x - y ELSE 0

\* A part of a prelude keeps to the exceptions of its scope,
LEMMA PartContained ==
  ASSUME NEW e, NEW fn, NEW args, NEW exc, NEW s, NEW x, NEW y, Part(e, fn, args, s, x, y)
  PROVE  Contained(e, fn, args, exc, s)
BY DEF Part, Contained

\* and adds to guards alone.
LEMMA PartStep ==
  ASSUME NEW e, NEW fn, NEW args, NEW exc, NEW s, NEW x \in Int, NEW y \in Int,
         Part(e, fn, args, s, x, y), NEW m \in Accounts(e), m \in AllAccounts \ {"traces"},
         Evenly(m, e, fn, args)
  PROVE  Balanced(m, e, fn, args, exc, s, IF m = "guards" THEN x ELSE 0, IF m = "guards" THEN y ELSE 0)
<1> DEFINE u == IF m = "guards" THEN x ELSE 0
           v == IF m = "guards" THEN y ELSE 0
<1>1. u \in Int /\ v \in Int /\ (m = "pending" => v = 0) /\ m \in AllAccounts /\ m # "traces"
  OBVIOUS
<1>2. CASE s.op = "guard" /\ x = 1 + y
  <2>1. Covers(m, u, Cost(m, s) + v)
    BY <1>2 DEF Cost, Covers
  <2> QED
    BY <1>2, <2>1 DEF Balanced
<1>3. CASE s.op = "capture" /\ x = y
  <2>1. Covers(m, u, Cost(m, s) + v)
    BY <1>3 DEF Cost, Covers, AllAccounts
  <2> QED
    BY <1>3, <2>1 DEF Balanced
<1>4. CASE s.op = "count" /\ s.event \notin Counters /\ x = y
  <2>1. Cost(m, s) = 0
    BY <1>4 DEF Cost, CountCost, Counters
  <2>2. Covers(m, u, Cost(m, s) + v)
    BY <1>4, <2>1 DEF Covers
  <2> QED
    BY <1>4, <2>2 DEF Balanced
<1>5. CASE /\ s.op \in {"call", "try"} /\ "none" \in Enters(e, s.fn, s.args)
           /\ Leaks(e, s.fn, s.args) \subseteq Raises(e, fn, args)
           /\ Leaks(e, s.fn, s.args) # {} => y = 0
           /\ \A c \in Accounts(e) : Work(c, e, s.fn, s.args) = IF c = "guards" THEN x - y ELSE 0
  <2>1. Work(m, e, s.fn, s.args) + v = u
    BY <1>5
  <2>2. Covers(m, u, Work(m, e, s.fn, s.args) + v)
    BY <1>1, <2>1 DEF Covers
  <2>3. ASSUME NEW t \in Leaks(e, s.fn, s.args)
        PROVE  Covers(m, v + Fare(m), Settled(m, e, fn, args, t))
    <3>1. v = 0 /\ Settled(m, e, fn, args, t) = Fare(m)
      BY <1>5 DEF Evenly
    <3>2. Fare(m) \in Int
      BY DEF AllAccounts, Fare
    <3> HIDE DEF v
    <3> QED
      BY <3>1, <3>2 DEF Covers
  <2> HIDE DEF u, v
  <2>4. Balanced(m, e, fn, args, exc, s, u, v)
    BY <1>1, <1>5, <2>2, <2>3 DEF Balanced
  <2> QED
    BY <2>4 DEF u, v
<1> QED
  BY <1>2, <1>3, <1>4, <1>5 DEF Part

\* Such statements, k - 1 of them, and an ending; due[j] guards are to come from j on.
Prelude(e, fn, args, body, k, due) ==
  /\ k \in Nat /\ k # 0 /\ IsEnding(body, k, Raises(e, fn, args))
  /\ (\A j \in Int : due[j] \in Int) /\ due[k] = 0
  /\ \A j \in 1 .. k - 1 : Part(e, fn, args, body[j], due[j], due[j + 1])
  /\ \A m \in Accounts(e) : Work(m, e, fn, args) = IF m = "guards" THEN due[1] ELSE 0

\* A scope that is a prelude and a throw or a plain end keeps its contract.
LEMMA PreludeKeeps ==
  ASSUME NEW e, NEW fn, NEW args, NEW exc, ClausesKept(e, fn, args),
         \A m \in Accounts(e) : Evenly(m, e, fn, args),
         Accounts(e) \subseteq AllAccounts \ {"traces"}, NEW k, NEW due,
         Prelude(e, fn, args, Body(e, fn, args, exc), k, due)
  PROVE  Keeps(e, fn, args, exc)
<1> DEFINE body == Body(e, fn, args, exc)
<1>0. /\ k \in Nat /\ k # 0 /\ IsEnding(body, k, Raises(e, fn, args))
      /\ (\A j \in Int : due[j] \in Int) /\ due[k] = 0
      /\ \A j \in 1 .. k - 1 : Part(e, fn, args, body[j], due[j], due[j + 1])
      /\ \A m \in Accounts(e) : Work(m, e, fn, args) = IF m = "guards" THEN due[1] ELSE 0
  BY DEF Prelude
<1>1. \A j \in 1 .. k - 1 : due[j] \in Int /\ due[j + 1] \in Int
  BY <1>0
<1>2. \A j \in 1 .. k - 1 : Contained(e, fn, args, exc, body[j])
  BY <1>0, PartContained
<1>3. /\ Len(body) \in Nat /\ k - 1 <= Len(body)
      /\ \A i \in 1 .. Len(body) : Contained(e, fn, args, exc, body[i])
  BY <1>0, <1>2, EndingContained
<1>4. k <= Len(body) + 1 /\ 1 <= k
  <2> DEFINE n == Len(body)
  <2>1. n \in Nat /\ k - 1 <= n
    BY <1>3
  <2> HIDE DEF n
  <2>2. k <= n + 1 /\ 1 <= k
    BY <1>0, <2>1
  <2> QED
    BY <2>2 DEF n
<1>5. ASSUME NEW m \in Accounts(e)
      PROVE  Path(m, e, fn, args, exc, 1, Work(m, e, fn, args))
  <2> DEFINE own == [j \in Int |-> IF m = "guards" THEN due[j] ELSE 0]
  <2>1. m \in AllAccounts /\ m # "traces" /\ Evenly(m, e, fn, args)
    OBVIOUS
  <2>2. \A j \in Int : own[j] \in Int /\ own[j] = IF m = "guards" THEN due[j] ELSE 0
    BY <1>0
  <2>3. own[k] = 0 /\ own[1] = Work(m, e, fn, args)
    BY <1>0
  <2> HIDE DEF own
  <2>4. Path(m, e, fn, args, exc, k, own[k])
    BY <1>0, <2>1, <2>3, PathEnding
  <2>5. ASSUME NEW j \in 1 .. k - 1
        PROVE  Balanced(m, e, fn, args, exc, body[j], own[j], own[j + 1])
    <3>1. Balanced(m, e, fn, args, exc, body[j], IF m = "guards" THEN due[j] ELSE 0,
                   IF m = "guards" THEN due[j + 1] ELSE 0)
      BY <1>0, <1>1, <2>1, PartStep
    <3>2. own[j] = (IF m = "guards" THEN due[j] ELSE 0)
          /\ own[j + 1] = (IF m = "guards" THEN due[j + 1] ELSE 0)
      BY <1>0, <2>2
    <3> QED
      BY <3>1, <3>2
  <2> DEFINE first == 1
  <2>6. first \in Nat /\ first <= k /\ first = 1
    BY <1>4
  <2> HIDE DEF first
  <2>7. Path(m, e, fn, args, exc, first, own[first])
    BY <1>0, <1>3, <1>4, <2>2, <2>4, <2>5, <2>6, PathPrelude
  <2> QED
    BY <2>3, <2>6, <2>7
<1> QED
  BY <1>3, <1>5, KeepsBy

\* Captures add nothing.
LEMMA PathCaptures ==
  ASSUME NEW m \in AllAccounts, m # "traces", NEW e, NEW fn, NEW args, NEW exc,
         NEW i \in Nat, NEW k \in Nat, NEW n \in Nat, Len(Body(e, fn, args, exc)) = n, i <= k, k <= n + 1,
         \A j \in i .. k - 1 : Body(e, fn, args, exc)[j].op = "capture",
         NEW y \in Int, m = "pending" => y = 0, Path(m, e, fn, args, exc, k, y)
  PROVE  Path(m, e, fn, args, exc, i, y)
<1> DEFINE body == Body(e, fn, args, exc)
<1> DEFINE c == 0
<1>1. Uniform(m, e, fn, args, exc, i, k, c)
  BY DEF Uniform, Balanced, Covers, Cost, AllAccounts
<1>2. y = (k - i) * c + y /\ c \in Int /\ c = 0
  OBVIOUS
<1>3. Len(body) \in Nat /\ k <= Len(body) + 1
  OBVIOUS
<1> HIDE DEF c
<1> QED
  BY <1>1, <1>2, <1>3, PathLoop

\* A line: one call or try block, captures around it and perhaps a guard first.
IsLine(body, n, p) ==
  /\ n \in Nat /\ Len(body) = n /\ p \in 1 .. n /\ body[p].op \in {"call", "try"}
  /\ \A i \in 1 .. n : i # p => body[i].op = "capture" \/ (i = 1 /\ body[i].op = "guard")

\* What the line adds, if it has as many guards as first says, when it calls g, and
\* what leaves g is settled for.
Bears(m, e, fn, args, g, a, first) ==
  /\ Work(m, e, g, a) \in Int
  /\ m = "pending" => Work(m, e, g, a) = 0
  /\ Covers(m, Work(m, e, fn, args), IF m = "guards" THEN first + Work(m, e, g, a) ELSE Work(m, e, g, a))
  /\ \A t \in Leaks(e, g, a) : Covers(m, Fare(m), Settled(m, e, fn, args, t))

\* A scope of a guard, captures and one call keeps its contract,
LEMMA LineKeeps ==
  ASSUME NEW e, NEW fn, NEW args, NEW exc, NEW n, NEW p, NEW s, s = Body(e, fn, args, exc)[p],
         IsLine(Body(e, fn, args, exc), n, p), Accounts(e) \subseteq AllAccounts \ {"traces"},
         "none" \in Enters(e, s.fn, s.args), Leaks(e, s.fn, s.args) \subseteq Raises(e, fn, args),
         NEW first, first = IF Body(e, fn, args, exc)[1].op = "guard" THEN 1 ELSE 0,
         \A m \in Accounts(e) : Bears(m, e, fn, args, s.fn, s.args, first),
         ClausesKept(e, fn, args)
  PROVE  Keeps(e, fn, args, exc)
<1> DEFINE body == Body(e, fn, args, exc)
<1>1. /\ n \in Nat /\ Len(body) = n /\ p \in 1 .. n /\ body[p].op \in {"call", "try"}
      /\ \A i \in 1 .. n : i # p => body[i].op = "capture" \/ (i = 1 /\ body[i].op = "guard")
  BY DEF IsLine
<1>2. ASSUME NEW i \in 1 .. Len(body)
      PROVE  Contained(e, fn, args, exc, body[i])
  <2>1. i \in 1 .. n
    BY <1>1
  <2> QED
    BY <1>1, <2>1 DEF Contained
<1>3. ASSUME NEW m \in Accounts(e)
      PROVE  Path(m, e, fn, args, exc, 1, Work(m, e, fn, args))
  <2>0. /\ Work(m, e, s.fn, s.args) \in Int
        /\ m = "pending" => Work(m, e, s.fn, s.args) = 0
        /\ Covers(m, Work(m, e, fn, args),
                  IF m = "guards" /\ body[1].op = "guard"
                  THEN 1 + Work(m, e, s.fn, s.args) ELSE Work(m, e, s.fn, s.args))
        /\ \A t \in Leaks(e, s.fn, s.args) : Covers(m, Fare(m), Settled(m, e, fn, args, t))
    <3>1. Bears(m, e, fn, args, s.fn, s.args, first)
      OBVIOUS
    <3> QED
      BY <3>1 DEF Bears
  <2>1. Path(m, e, fn, args, exc, p + 1, 0)
    <3>1. Path(m, e, fn, args, exc, n + 1, 0)
      BY <1>1, PathEnd
    <3>2. \A j \in p + 1 .. (n + 1) - 1 : body[j].op = "capture"
      BY <1>1
    <3>3. p + 1 \in Nat /\ n + 1 \in Nat /\ p + 1 <= n + 1
      BY <1>1
    <3> QED
      BY <1>1, <3>1, <3>2, <3>3, PathCaptures
  <2> DEFINE due == Work(m, e, s.fn, s.args)
  <2>2. /\ due \in Int /\ (m = "pending" => due = 0) /\ Covers(m, due, due + 0)
        /\ \A t \in Leaks(e, s.fn, s.args) : Covers(m, 0 + Fare(m), Settled(m, e, fn, args, t))
    <3>1. due \in Int /\ (m = "pending" => due = 0)
      BY <2>0
    <3>2. Fare(m) \in Int
      BY DEF AllAccounts, Fare
    <3> QED
      BY <2>0, <3>1, <3>2 DEF Covers
  <2>3. Path(m, e, fn, args, exc, p, due)
    <3>1. Balanced(m, e, fn, args, exc, s, due, 0)
      BY <1>1, <2>2 DEF Balanced
    <3> HIDE DEF due
    <3> QED
      BY <1>1, <2>1, <2>2, <3>1, PathStep
  <2>4. CASE p = 1
    <3>1. Covers(m, Work(m, e, fn, args), due)
      BY <1>1, <2>0, <2>4
    <3>2. Covers(m, Work(m, e, fn, args), due + 0)
      BY <3>1 DEF Covers
    <3>3. Balanced(m, e, fn, args, exc, s, Work(m, e, fn, args), 0)
      BY <1>1, <2>2, <3>2 DEF Balanced
    <3>4. Work(m, e, fn, args) \in Int
      BY <3>2 DEF Covers
    <3>5. Path(m, e, fn, args, exc, 1 + 1, 0)
      BY <2>1, <2>4
    <3>6. 1 <= Len(body) /\ Len(body) \in Nat /\ body[1] = s
      BY <1>1, <2>4
    <3> HIDE DEF due
    <3> QED
      BY <3>3, <3>4, <3>5, <3>6, PathStep
  <2>5. CASE p # 1
    <3>1. Path(m, e, fn, args, exc, 2, due)
      <4>1. \A j \in 2 .. p - 1 : body[j].op = "capture"
        BY <1>1
      <4>2. 2 \in Nat /\ p \in Nat /\ 2 <= p /\ p <= n + 1
        BY <1>1, <2>5
      <4> HIDE DEF due
      <4> QED
        BY <1>1, <2>2, <2>3, <4>1, <4>2, PathCaptures
    <3>2. body[1].op \in {"guard", "capture"} /\ 1 <= Len(body) /\ Len(body) \in Nat
      BY <1>1, <2>5
    <3>3. Covers(m, Work(m, e, fn, args), Cost(m, body[1]) + due)
      <4>1. m # "traces"
        OBVIOUS
      <4>2. Covers(m, Work(m, e, fn, args),
              IF m = "guards" /\ body[1].op = "guard" THEN 1 + due ELSE due)
        BY <2>0
      <4> HIDE DEF due
      <4> QED
        BY <2>2, <3>2, <4>1, <4>2 DEF Covers, Cost, AllAccounts
    <3>4. Path(m, e, fn, args, exc, 1 + 1, due)
      BY <3>1
    <3> HIDE DEF due
    <3> QED
      BY <3>2, <3>3, <3>4, PathFlat
  <2> QED
    BY <2>4, <2>5
<1> QED
  BY <1>1, <1>2, <1>3, KeepsBy

\* A line that calls g.
Wraps(body, g, a, first) ==
  \E n, p : /\ IsLine(body, n, p) /\ body[p].fn = g /\ body[p].args = a
            /\ first = IF body[1].op = "guard" THEN 1 ELSE 0

\* The ways the suites wrap one call or one try block.
LEMMA WrapShapes ==
  ASSUME NEW g, NEW a, NEW s \in {Call(g, a), Try(g, a)}
  PROVE  /\ Wraps(<< s >>, g, a, 0) /\ Wraps(<< Capture, s >>, g, a, 0)
         /\ Wraps(<< Capture, s, Capture >>, g, a, 0)
         /\ Wraps(<< Guard, s >>, g, a, 1) /\ Wraps(<< Guard, s, Capture >>, g, a, 1)
         /\ Wraps(<< Guard, Capture, s >>, g, a, 1)
         /\ Wraps(<< Guard, Capture >> \o << s >>, g, a, 1)
<1>1. s.op \in {"call", "try"} /\ s.op # "guard" /\ s.fn = g /\ s.args = a
  BY DEF Call, Try
<1>2. IsLine(<< s >>, 1, 1) /\ Wraps(<< s >>, g, a, 0)
  BY <1>1 DEF IsLine, Wraps
<1>3. IsLine(<< Capture, s >>, 2, 2) /\ Wraps(<< Capture, s >>, g, a, 0)
  BY <1>1 DEF IsLine, Wraps, Capture
<1>4. IsLine(<< Capture, s, Capture >>, 3, 2) /\ Wraps(<< Capture, s, Capture >>, g, a, 0)
  BY <1>1 DEF IsLine, Wraps, Capture
<1>5. IsLine(<< Guard, s >>, 2, 2) /\ Wraps(<< Guard, s >>, g, a, 1)
  BY <1>1 DEF IsLine, Wraps, Guard
<1>6. IsLine(<< Guard, s, Capture >>, 3, 2) /\ Wraps(<< Guard, s, Capture >>, g, a, 1)
  BY <1>1 DEF IsLine, Wraps, Guard, Capture
<1>7. IsLine(<< Guard, Capture, s >>, 3, 3) /\ Wraps(<< Guard, Capture, s >>, g, a, 1)
  BY <1>1 DEF IsLine, Wraps, Guard, Capture
<1>8. IsLine(<< Guard, Capture >> \o << s >>, 3, 3) /\ Wraps(<< Guard, Capture >> \o << s >>, g, a, 1)
  BY <1>1 DEF IsLine, Wraps, Guard, Capture
<1> QED
  BY <1>2, <1>3, <1>4, <1>5, <1>6, <1>7, <1>8

Passes(m, e, fn, args, g, a, first) ==
  /\ Work(m, e, g, a) \in Int
  /\ m = "pending" => Work(m, e, g, a) = 0
  /\ Work(m, e, fn, args) = IF m = "guards" THEN first + Work(m, e, g, a) ELSE Work(m, e, g, a)

\* as does a scope that wraps one call or one try block.
LEMMA WrapKeeps ==
  ASSUME NEW e, NEW fn, NEW args, NEW exc, NEW g, NEW a, NEW first \in {0, 1},
         Wraps(Body(e, fn, args, exc), g, a, first),
         Accounts(e) \subseteq AllAccounts \ {"traces"},
         "none" \in Enters(e, g, a), Leaks(e, g, a) \subseteq Raises(e, fn, args),
         \A m \in Accounts(e) : Evenly(m, e, fn, args) /\ Passes(m, e, fn, args, g, a, first),
         ClausesKept(e, fn, args)
  PROVE  Keeps(e, fn, args, exc)
<1>1. PICK n, p : LET body == Body(e, fn, args, exc)
                  IN  /\ IsLine(body, n, p) /\ body[p].fn = g /\ body[p].args = a
                      /\ first = IF body[1].op = "guard" THEN 1 ELSE 0
  BY DEF Wraps
<1>2. ASSUME NEW m \in Accounts(e) PROVE Bears(m, e, fn, args, g, a, first)
  <2>1. /\ Work(m, e, g, a) \in Int
        /\ m = "pending" => Work(m, e, g, a) = 0
        /\ Covers(m, Work(m, e, fn, args),
                  IF m = "guards" THEN first + Work(m, e, g, a) ELSE Work(m, e, g, a))
    BY DEF Passes, Covers
  <2>2. Fare(m) \in Int
    BY DEF AllAccounts, Fare
  <2>3. \A t \in Leaks(e, g, a) : Settled(m, e, fn, args, t) = Fare(m)
    BY DEF Evenly
  <2>4. \A t \in Leaks(e, g, a) : Covers(m, Fare(m), Settled(m, e, fn, args, t))
    BY <2>2, <2>3 DEF Covers
  <2> QED
    BY <2>1, <2>4 DEF Bears
<1> DEFINE s == Body(e, fn, args, exc)[p]
<1>3. s.fn = g /\ s.args = a
  BY <1>1
<1> HIDE DEF s
<1>4. s = Body(e, fn, args, exc)[p]
  BY DEF s
<1> QED
  BY <1>1, <1>2, <1>3, <1>4, LineKeeps

\* A catch clause: its two first statements, then nothing, a count or a rethrow.
IsClause(body, exc, types) ==
  /\ body[1] = Count("caught") /\ body[2].op = "capture"
  /\ \/ Len(body) = 2
     \/ Len(body) = 3 /\ body[3].op = "count"
     \/ /\ Len(body) = 4 /\ body[3] = Count("rethrows")
        /\ body[4].op = "rethrow" /\ exc.type \in types

\* The path through the two statements of a rethrow.
LEMMA PathReraise ==
  ASSUME NEW m \in AllAccounts, m # "traces", NEW e, NEW fn, NEW args, NEW exc, Plain(e, fn),
         Len(Body(e, fn, args, exc)) = 4, Body(e, fn, args, exc)[3] = Count("rethrows"),
         Body(e, fn, args, exc)[4].op = "rethrow"
  PROVE  Path(m, e, fn, args, exc, 3, 0)
<1> DEFINE body == Body(e, fn, args, exc)
<1>1. Path(m, e, fn, args, exc, 4 + 1, 0)
  BY PathEnd
<1>2. Fare(m) \in Int
  BY DEF AllAccounts, Fare
<1>3. Balanced(m, e, fn, args, exc, body[4], Fare(m), 0)
  <2>1. Settled(m, e, fn, args, exc.type) = Fare(m)
    BY PlainScope
  <2>2. Covers(m, Fare(m), Fare(m))
    BY <1>2 DEF Covers
  <2> QED
    BY <2>1, <2>2 DEF Balanced
<1>4. Path(m, e, fn, args, exc, 3 + 1, Fare(m))
  <2>1. Len(body) \in Nat /\ 4 <= Len(body)
    OBVIOUS
  <2>2. Path(m, e, fn, args, exc, 4, Fare(m))
    BY <1>1, <1>2, <1>3, <2>1, PathStep
  <2> QED
    BY <2>2
<1>5. body[3].op = "count" /\ Cost(m, body[3]) = CountCost(m, "rethrows")
  BY DEF Count, Cost
<1>6. Covers(m, 0, CountCost(m, "rethrows") + Fare(m))
  <2>1. CASE m = "uncaught"
    <3>1. CountCost(m, "rethrows") = 0 /\ Fare(m) = -1
      BY <2>1 DEF CountCost, Fare
    <3> QED
      BY <2>1, <3>1 DEF Covers, Exact
  <2>2. CASE m # "uncaught"
    BY <2>2 DEF AllAccounts, Covers, CountCost, Fare
  <2> QED
    BY <2>1, <2>2
<1>7. Len(body) \in Nat /\ 3 <= Len(body)
  OBVIOUS
<1> QED
  BY <1>4, <1>5, <1>6, <1>7, PathFlat

\* It settles for the exception and adds what it counts.
ClauseWork(m, work, body) ==
  Covers(m, work, Fare(m) + IF Len(body) = 3 THEN CountCost(m, body[3].event) ELSE 0)

\* A catch clause that counts, and throws on or ends, keeps its contract.
LEMMA ClauseKeeps ==
  ASSUME NEW e, NEW fn, NEW args, NEW exc, Plain(e, fn), Accounts(e) \subseteq AllAccounts,
         IsClause(Body(e, fn, args, exc), exc, Raises(e, fn, args)),
         Len(Body(e, fn, args, exc)) # 2 => "traces" \notin Accounts(e),
         \A m \in Accounts(e) : ClauseWork(m, Work(m, e, fn, args), Body(e, fn, args, exc))
  PROVE  Keeps(e, fn, args, exc)
<1> DEFINE body == Body(e, fn, args, exc)
<1>1. /\ body[1] = Count("caught") /\ body[2].op = "capture" /\ body[1].op = "count"
      /\ \/ Len(body) = 2
         \/ Len(body) = 3 /\ body[3].op = "count"
         \/ /\ Len(body) = 4 /\ body[3] = Count("rethrows") /\ body[3].op = "count"
            /\ body[4].op = "rethrow" /\ exc.type \in Raises(e, fn, args)
  BY DEF IsClause, Count
<1>2. Len(body) \in Nat /\ 1 <= Len(body) /\ 2 <= Len(body)
  BY <1>1
<1>3. ASSUME NEW i \in 1 .. Len(body)
      PROVE  Contained(e, fn, args, exc, body[i])
  <2> DEFINE n == Len(body)
  <2>1. n \in {2, 3, 4} /\ i \in 1 .. n
    BY <1>1
  <2> HIDE DEF n
  <2>2. i = 1 \/ i = 2 \/ (i = 3 /\ n \in {3, 4}) \/ (i = 4 /\ n = 4)
    BY <2>1
  <2> QED
    BY <1>1, <2>2 DEF Contained, n
<1>4. ASSUME NEW m \in Accounts(e)
      PROVE  Path(m, e, fn, args, exc, 1, Work(m, e, fn, args))
  <2> DEFINE rest == IF Len(body) = 3 THEN CountCost(m, body[3].event) ELSE 0
             capture == IF m = "traces" THEN 1 ELSE 0
  <2>1. m \in AllAccounts /\ (Len(body) # 2 => m # "traces")
    OBVIOUS
  <2>2. rest \in Int
    BY DEF CountCost
  <2>3. Path(m, e, fn, args, exc, 3, rest)
    <3>1. CASE Len(body) = 2
      <4>1. 3 = 2 + 1 /\ 2 \in Nat /\ rest = 0
        BY <3>1
      <4> QED
        BY <3>1, <4>1, PathEnd
    <3>2. CASE Len(body) = 3
      <4>1. Path(m, e, fn, args, exc, 3 + 1, 0)
        BY <3>2, PathEnd
      <4>2. body[3].op = "count" /\ Cost(m, body[3]) = rest
        BY <1>1, <3>2 DEF Cost
      <4>3. Covers(m, rest, Cost(m, body[3]) + 0)
        BY <2>2, <4>2 DEF Covers
      <4>4. 3 <= Len(body)
        BY <3>2
      <4> HIDE DEF rest
      <4> QED
        BY <1>2, <4>1, <4>2, <4>3, <4>4, PathFlat
    <3>3. CASE Len(body) = 4
      <4>1. Path(m, e, fn, args, exc, 3, 0)
        BY <1>1, <2>1, <3>3, PathReraise
      <4> QED
        BY <3>3, <4>1
    <3> QED
      BY <1>1, <3>1, <3>2, <3>3
  <2>4. Covers(m, Work(m, e, fn, args), Fare(m) + rest)
    BY DEF ClauseWork
  <2> HIDE DEF rest
  <2>5. Path(m, e, fn, args, exc, 1 + 1, capture + rest)
    <3>1. Covers(m, capture + rest, Cost(m, body[2]) + rest)
      BY <1>1, <2>2 DEF Covers, Cost, AllAccounts
    <3>2. Path(m, e, fn, args, exc, 2 + 1, rest)
      BY <2>3
    <3>3. Path(m, e, fn, args, exc, 2, capture + rest)
      BY <1>1, <1>2, <3>1, <3>2, PathFlat
    <3> QED
      BY <3>3
  <2>6. Cost(m, body[1]) + (capture + rest) = Fare(m) + rest
    <3>1. Cost(m, body[1]) = CountCost(m, "caught")
      BY <1>1 DEF Count, Cost
    <3>2. /\ CountCost(m, "caught") + capture = Fare(m)
          /\ CountCost(m, "caught") \in Int /\ capture \in Int
      BY <2>1 DEF AllAccounts, CountCost, Fare
    <3> HIDE DEF capture
    <3> QED
      BY <2>2, <3>1, <3>2
  <2> HIDE DEF capture
  <2>7. Covers(m, Work(m, e, fn, args), Cost(m, body[1]) + (capture + rest))
    BY <2>4, <2>6
  <2> QED
    BY <1>1, <1>2, <2>5, <2>7, PathFlat
<1> QED
  BY <1>2, <1>3, <1>4, KeepsBy, PlainScope

\* A catch clause that counts and captures keeps its contract,
LEMMA CatchKeeps ==
  ASSUME NEW e, NEW fn, NEW args, NEW exc, Plain(e, fn), Accounts(e) \subseteq AllAccounts,
         Body(e, fn, args, exc) = Caught,
         \A m \in Accounts(e) : Work(m, e, fn, args) = Fare(m)
  PROVE  Keeps(e, fn, args, exc)
<1> DEFINE body == Body(e, fn, args, exc)
<1>1. IsClause(body, exc, Raises(e, fn, args)) /\ Len(body) = 2
  BY DEF IsClause, Caught, Capture
<1>2. ASSUME NEW m \in Accounts(e)
      PROVE  ClauseWork(m, Work(m, e, fn, args), body)
  <2>1. Work(m, e, fn, args) = Fare(m) /\ Fare(m) \in Int
    BY DEF AllAccounts, Fare
  <2> HIDE DEF body
  <2> QED
    BY <1>1, <2>1 DEF ClauseWork, Covers
<1> QED
  BY <1>1, <1>2, ClauseKeeps

\* as does one that then rethrows under a condition.
LEMMA ReraiseKeeps ==
  ASSUME NEW e, NEW fn, NEW args, NEW exc, Plain(e, fn),
         Accounts(e) \subseteq AllAccounts \ {"traces"}, NEW c,
         Body(e, fn, args, exc) = Caught \o (IF c THEN Reraise ELSE << >>),
         c => exc.type \in Raises(e, fn, args),
         \A m \in Accounts(e) : Work(m, e, fn, args) = Fare(m)
  PROVE  Keeps(e, fn, args, exc)
<1> DEFINE body == Body(e, fn, args, exc)
<1>1. IsClause(body, exc, Raises(e, fn, args)) /\ Len(body) # 3
  <2>1. CASE c
    BY <2>1 DEF IsClause, Caught, Capture, Reraise
  <2>2. CASE ~c
    BY <2>2 DEF IsClause, Caught, Capture
  <2> QED
    BY <2>1, <2>2
<1>2. ASSUME NEW m \in Accounts(e)
      PROVE  ClauseWork(m, Work(m, e, fn, args), body)
  <2>1. Work(m, e, fn, args) = Fare(m) /\ Fare(m) \in Int
    BY DEF AllAccounts, Fare
  <2> HIDE DEF body
  <2> QED
    BY <1>1, <2>1 DEF ClauseWork, Covers
<1>3. "traces" \notin Accounts(e) /\ Accounts(e) \subseteq AllAccounts
  OBVIOUS
<1> QED
  BY <1>1, <1>2, <1>3, ClauseKeeps

\* A clause that counts one more event.
LEMMA CountingKeeps ==
  ASSUME NEW e, NEW fn, NEW args, NEW exc, Plain(e, fn),
         Accounts(e) \subseteq AllAccounts \ {"traces"}, NEW event,
         Body(e, fn, args, exc) = Caught \o << Count(event) >>,
         \A m \in Accounts(e) : Covers(m, Work(m, e, fn, args), Fare(m) + CountCost(m, event))
  PROVE  Keeps(e, fn, args, exc)
<1> DEFINE body == Body(e, fn, args, exc)
<1>1. /\ IsClause(body, exc, Raises(e, fn, args)) /\ Len(body) = 3
      /\ body[3].event = event
  BY DEF IsClause, Caught, Capture, Count
<1>2. ASSUME NEW m \in Accounts(e)
      PROVE  ClauseWork(m, Work(m, e, fn, args), body)
  <2>1. Covers(m, Work(m, e, fn, args), Fare(m) + CountCost(m, event))
    OBVIOUS
  <2> HIDE DEF body
  <2> QED
    BY <1>1, <2>1 DEF ClauseWork
<1>3. "traces" \notin Accounts(e) /\ Accounts(e) \subseteq AllAccounts
  OBVIOUS
<1> QED
  BY <1>1, <1>2, <1>3, ClauseKeeps

\* A call or a try block that nothing leaves.
Quiet(e, s) ==
  s.op \in {"call", "try"} /\ "none" \in Enters(e, s.fn, s.args) /\ Leaks(e, s.fn, s.args) = {}

\* A statement that nothing leaves by an exception adds its own work alone.
LEMMA QuietStep ==
  ASSUME NEW e, NEW s, Quiet(e, s), NEW m, NEW fn, NEW args, NEW exc, NEW x, NEW y,
         Covers(m, x, Work(m, e, s.fn, s.args) + y), m = "pending" => y = 0
  PROVE  Contained(e, fn, args, exc, s) /\ Balanced(m, e, fn, args, exc, s, x, y)
BY DEF Quiet, Contained, Balanced

\* A loop: k - 1 calls or try blocks that nothing leaves, each of which adds step, and
\* perhaps one more statement, a count or such a call, which adds rest.
IsLoop(e, body, k) ==
  /\ \A j \in 1 .. k - 1 : Quiet(e, body[j])
  /\ \/ Len(body) = k - 1
     \/ Len(body) = k /\ (Quiet(e, body[k]) \/ body[k].op = "count")

LoopWork(m, e, body, k, total, step, rest) ==
  /\ step \in Int /\ rest \in Int /\ (m = "pending" => step = 0 /\ rest = 0)
  /\ \A j \in 1 .. k - 1 : Work(m, e, body[j].fn, body[j].args) = step
  /\ rest = IF Len(body) = k - 1 THEN 0
            ELSE IF body[k].op = "count" THEN CountCost(m, body[k].event)
            ELSE Work(m, e, body[k].fn, body[k].args)
  /\ total = (k - 1) * step + rest

\* A scope that is a loop over one call, and a count, keeps its contract.
LEMMA LoopKeeps ==
  ASSUME NEW e, NEW fn, NEW args, NEW exc, NEW k \in Nat, k # 0,
         Accounts(e) \subseteq AllAccounts, ClausesKept(e, fn, args),
         IsLoop(e, Body(e, fn, args, exc), k), NEW step, NEW rest,
         \A m \in Accounts(e) :
           LoopWork(m, e, Body(e, fn, args, exc), k, Work(m, e, fn, args), step[m], rest[m])
  PROVE  Keeps(e, fn, args, exc)
<1> DEFINE body == Body(e, fn, args, exc)
           n == Len(body)
<1>1. /\ n \in Nat /\ k - 1 <= n /\ (n = k - 1 \/ n = k)
      /\ n = k => Quiet(e, body[k]) \/ body[k].op = "count"
  BY DEF IsLoop
<1>2. \A j \in 1 .. k - 1 : Quiet(e, body[j])
  BY DEF IsLoop
<1>3. ASSUME NEW i \in 1 .. n
      PROVE  Contained(e, fn, args, exc, body[i])
  <2> HIDE DEF n, body
  <2>1. i \in 1 .. k - 1 \/ (i = k /\ n = k)
    BY <1>1
  <2> QED
    BY <1>1, <1>2, <2>1 DEF Contained, Quiet
<1>4. ASSUME NEW m \in Accounts(e)
      PROVE  Path(m, e, fn, args, exc, 1, Work(m, e, fn, args))
  <2> DEFINE c == step[m]
             y == rest[m]
  <2>1. /\ c \in Int /\ y \in Int /\ (m = "pending" => c = 0 /\ y = 0)
        /\ \A j \in 1 .. k - 1 : Work(m, e, body[j].fn, body[j].args) = c
        /\ y = IF n = k - 1 THEN 0
               ELSE IF body[k].op = "count" THEN CountCost(m, body[k].event)
               ELSE Work(m, e, body[k].fn, body[k].args)
    BY DEF LoopWork
  <2>5. Work(m, e, fn, args) = (k - 1) * c + y
    BY DEF LoopWork
  <2> HIDE DEF c, y
  <2>2. Path(m, e, fn, args, exc, k, y)
    <3>1. CASE n = k - 1
      <4>1. k - 1 \in Nat /\ k = (k - 1) + 1 /\ y = 0
        BY <2>1, <3>1
      <4> QED
        BY <3>1, <4>1, PathEnd
    <3>2. CASE n = k
      <4>1. Path(m, e, fn, args, exc, k + 1, 0)
        BY <3>2, PathEnd
      <4>2. Balanced(m, e, fn, args, exc, body[k], y, 0)
        <5>1. n # k - 1
          BY <3>2
        <5>2. CASE body[k].op = "count"
          <6>1. y = CountCost(m, body[k].event)
            BY <2>1, <5>1, <5>2
          <6>2. Covers(m, y, Cost(m, body[k]) + 0)
            BY <2>1, <5>2, <6>1 DEF Covers, Cost
          <6> QED
            BY <5>2, <6>2 DEF Balanced
        <5>3. CASE body[k].op # "count"
          <6>1. Quiet(e, body[k]) /\ y = Work(m, e, body[k].fn, body[k].args)
            BY <1>1, <2>1, <3>2, <5>1, <5>3
          <6>2. Covers(m, y, Work(m, e, body[k].fn, body[k].args) + 0)
            BY <2>1, <6>1 DEF Covers
          <6> QED
            BY <6>1, <6>2 DEF Balanced, Quiet
        <5> QED
          BY <5>2, <5>3
      <4> QED
        <5>1. k <= Len(body) /\ Len(body) \in Nat
          BY <1>1, <3>2
        <5> QED
          BY <2>1, <4>1, <4>2, <5>1, PathStep
    <3> QED
      BY <1>1, <3>1, <3>2
  <2>3. \A j \in 1 .. k - 1 : \A z \in Int :
          (m = "pending" => z = 0) => Balanced(m, e, fn, args, exc, body[j], c + z, z)
    <3> SUFFICES ASSUME NEW j \in 1 .. k - 1, NEW z \in Int, m = "pending" => z = 0
                 PROVE  Balanced(m, e, fn, args, exc, body[j], c + z, z)
      OBVIOUS
    <3>1. Quiet(e, body[j]) /\ Work(m, e, body[j].fn, body[j].args) = c
      BY <1>2, <2>1
    <3>2. Covers(m, c + z, Work(m, e, body[j].fn, body[j].args) + z)
      BY <2>1, <3>1 DEF Covers
    <3> HIDE DEF body
    <3> QED
      BY <3>1, <3>2, QuietStep
  <2>4. 1 <= k /\ k <= Len(body) + 1 /\ Len(body) \in Nat
    BY <1>1
  <2> DEFINE first == 1
  <2>6. first \in Nat /\ first <= k /\ first = 1
    BY <2>4
  <2> HIDE DEF first
  <2> DEFINE work == Work(m, e, fn, args)
  <2>7. work = (k - first) * c + y
    BY <2>5, <2>6
  <2> HIDE DEF work
  <2>8. Uniform(m, e, fn, args, exc, first, k, c)
    BY <2>3, <2>6 DEF Uniform
  <2>9. Path(m, e, fn, args, exc, first, work)
    <3>1. c \in Int /\ y \in Int /\ (m = "pending" => c = 0 /\ y = 0)
      BY <2>1
    <3>2. Len(body) \in Nat /\ k <= Len(body) + 1
      BY <2>4
    <3> QED
      BY <2>2, <2>6, <2>7, <2>8, <3>1, <3>2, PathLoop
  <2> QED
    BY <2>6, <2>9 DEF work
<1> QED
  BY <1>1, <1>3, <1>4, KeepsBy

\* A plan given amount by amount is a path.
LEMMA PathWhole ==
  ASSUME NEW m, NEW e, NEW fn, NEW args, NEW exc, NEW n \in Nat, Len(Body(e, fn, args, exc)) = n,
         NEW due, \A j \in 1 .. n + 1 : due[j] \in Int, due[n + 1] = 0,
         \A j \in 1 .. n :
           Balanced(m, e, fn, args, exc, Body(e, fn, args, exc)[j], due[j], due[j + 1])
  PROVE  Path(m, e, fn, args, exc, 1, due[1])
<1> DEFINE body == Body(e, fn, args, exc)
           left == [j \in 1 .. n + 1 |-> due[j]]
<1>1. /\ left \in [1 .. n + 1 -> Int] /\ left[1] = due[1] /\ left[n + 1] = 0
      /\ \A j \in 1 .. n : left[j] = due[j] /\ left[j + 1] = due[j + 1]
  OBVIOUS
<1> HIDE DEF left
<1>2. \A j \in 1 .. n : Balanced(m, e, fn, args, exc, body[j], left[j], left[j + 1])
  BY <1>1
<1> QED
  BY <1>1, <1>2 DEF Path

\* Calls and blocks that nothing leaves, one after the other: due[j] is what those from j
\* on add.
Listed(m, e, body, n, work, due) ==
  /\ (\A j \in 1 .. n + 1 : due[j] \in Int) /\ due[1] = work /\ due[n + 1] = 0
  /\ \A j \in 1 .. n : due[j] = Work(m, e, body[j].fn, body[j].args) + due[j + 1]
  /\ m = "pending" => \A j \in 1 .. n + 1 : due[j] = 0

\* A scope that is a list of quiet statements keeps its contract.
LEMMA ListKeeps ==
  ASSUME NEW e, NEW fn, NEW args, NEW exc, NEW n \in Nat, Len(Body(e, fn, args, exc)) = n,
         \A j \in 1 .. n : Quiet(e, Body(e, fn, args, exc)[j]),
         ClausesKept(e, fn, args), NEW due,
         \A m \in Accounts(e) :
           Listed(m, e, Body(e, fn, args, exc), n, Work(m, e, fn, args), due[m])
  PROVE  Keeps(e, fn, args, exc)
<1> DEFINE body == Body(e, fn, args, exc)
<1>1. \A i \in 1 .. Len(body) : Contained(e, fn, args, exc, body[i])
  BY DEF Quiet, Contained
<1>2. ASSUME NEW m \in Accounts(e)
      PROVE  Path(m, e, fn, args, exc, 1, Work(m, e, fn, args))
  <2>1. Listed(m, e, body, n, Work(m, e, fn, args), due[m])
    OBVIOUS
  <2> DEFINE x == due[m]
  <2>2. /\ (\A j \in 1 .. n + 1 : x[j] \in Int) /\ x[1] = Work(m, e, fn, args) /\ x[n + 1] = 0
        /\ \A j \in 1 .. n : x[j] = Work(m, e, body[j].fn, body[j].args) + x[j + 1]
        /\ m = "pending" => \A j \in 1 .. n + 1 : x[j] = 0
    BY <2>1 DEF Listed
  <2> HIDE DEF x
  <2>3. ASSUME NEW j \in 1 .. n
        PROVE  Balanced(m, e, fn, args, exc, body[j], x[j], x[j + 1])
    <3>1. j \in 1 .. n + 1 /\ j + 1 \in 1 .. n + 1
      OBVIOUS
    <3>2. Covers(m, x[j], Work(m, e, body[j].fn, body[j].args) + x[j + 1])
      BY <2>2, <3>1 DEF Covers
    <3>3. Quiet(e, body[j]) /\ (m = "pending" => x[j + 1] = 0)
      BY <2>2, <3>1
    <3> HIDE DEF body
    <3> QED
      BY <3>2, <3>3, QuietStep
  <2>4. Len(body) = n
    OBVIOUS
  <2>5. Path(m, e, fn, args, exc, 1, x[1])
    <3>1. (\A j \in 1 .. n + 1 : x[j] \in Int) /\ x[n + 1] = 0
      BY <2>2
    <3> QED
      BY <2>3, <2>4, <3>1, PathWhole
  <2> QED
    BY <2>2, <2>5
<1>3. Len(body) \in Nat
  OBVIOUS
<1> QED
  BY <1>1, <1>2, <1>3, KeepsBy

\* A guard, then captures and blocks that add nothing, then the count of a program.
IsSwitch(e, body, n) ==
  /\ n \in Nat /\ n > 1 /\ Len(body) = n /\ body[1].op = "guard" /\ body[n] = Count("programs")
  /\ \A j \in 2 .. n - 1 :
       \/ body[j].op = "capture"
       \/ Quiet(e, body[j]) /\ \A m \in Accounts(e) : Work(m, e, body[j].fn, body[j].args) = 0

\* Program 16: the switch machine and its try block keep their contract.
LEMMA SwitchKeeps ==
  ASSUME NEW e, NEW fn, NEW args, NEW exc, NEW n, IsSwitch(e, Body(e, fn, args, exc), n),
         ClausesKept(e, fn, args), Accounts(e) = {"guards", "programs", "pending"},
         \A m \in Accounts(e) :
           Work(m, e, fn, args) = IF m \in {"guards", "programs"} THEN 1 ELSE 0
  PROVE  Keeps(e, fn, args, exc)
<1> DEFINE body == Body(e, fn, args, exc)
<1>1. /\ n \in Nat /\ n > 1 /\ Len(body) = n /\ body[1].op = "guard"
      /\ body[n].op = "count" /\ body[n].event = "programs"
  BY DEF IsSwitch, Count
<1>2. \A j \in 2 .. n - 1 :
        \/ body[j].op = "capture"
        \/ Quiet(e, body[j]) /\ \A m \in Accounts(e) : Work(m, e, body[j].fn, body[j].args) = 0
  BY DEF IsSwitch
<1>3. \A j \in 1 .. n : j = 1 \/ j = n \/ j \in 2 .. n - 1
  BY <1>1
<1>4. \A i \in 1 .. Len(body) : Contained(e, fn, args, exc, body[i])
  BY <1>1, <1>2, <1>3 DEF Contained, Quiet
<1>5. ASSUME NEW m \in Accounts(e)
      PROVE  Path(m, e, fn, args, exc, 1, Work(m, e, fn, args))
  <2> DEFINE x == [j \in Int |-> IF m = "guards" /\ j <= 1 THEN 1
                                 ELSE IF m = "programs" /\ j <= n THEN 1 ELSE 0]
  <2>1. \A j \in Int : x[j] = IF m = "guards" /\ j <= 1 THEN 1
                              ELSE IF m = "programs" /\ j <= n THEN 1 ELSE 0
    OBVIOUS
  <2> HIDE DEF x
  <2>2. /\ \A j \in 1 .. n + 1 : x[j] \in Int
        /\ x[n + 1] = 0 /\ x[1] = Work(m, e, fn, args)
    BY <1>1, <2>1
  <2>3. ASSUME NEW j \in 1 .. n
        PROVE  Balanced(m, e, fn, args, exc, body[j], x[j], x[j + 1])
    <3>1. CASE j = 1
      <4>1. /\ x[j] = IF m \in {"guards", "programs"} THEN 1 ELSE 0
            /\ x[j + 1] = IF m = "programs" THEN 1 ELSE 0
        BY <1>1, <2>1, <3>1
      <4>2. Covers(m, x[j], Cost(m, body[j]) + x[j + 1])
        BY <1>1, <3>1, <4>1 DEF Covers, Cost
      <4> QED
        BY <1>1, <3>1, <4>2 DEF Balanced
    <3>2. CASE j = n
      <4>1. x[j] = (IF m = "programs" THEN 1 ELSE 0) /\ x[j + 1] = 0
        BY <1>1, <2>1, <3>2
      <4>2. Covers(m, x[j], Cost(m, body[j]) + x[j + 1])
        BY <1>1, <3>2, <4>1 DEF Covers, Cost, CountCost
      <4> QED
        BY <1>1, <3>2, <4>2 DEF Balanced
    <3>3. CASE j \in 2 .. n - 1
      <4>1. /\ x[j] = x[j + 1] /\ x[j] \in Int /\ x[j + 1] \in Int
            /\ m = "pending" => x[j + 1] = 0
        BY <1>1, <2>1, <3>3
      <4>2. CASE body[j].op = "capture"
        <5>1. Covers(m, x[j], Cost(m, body[j]) + x[j + 1])
          BY <4>1, <4>2 DEF Covers, Cost
        <5> QED
          BY <4>2, <5>1 DEF Balanced
      <4>3. CASE Quiet(e, body[j]) /\ Work(m, e, body[j].fn, body[j].args) = 0
        <5>1. Covers(m, x[j], Work(m, e, body[j].fn, body[j].args) + x[j + 1])
          BY <4>1, <4>3 DEF Covers
        <5> HIDE DEF body
        <5> QED
          BY <4>1, <4>3, <5>1, QuietStep
      <4> QED
        BY <1>2, <3>3, <4>2, <4>3
    <3> QED
      BY <1>3, <3>1, <3>2, <3>3
  <2> QED
    BY <1>1, <2>2, <2>3, PathWhole
<1>6. Len(body) \in Nat
  BY <1>1
<1> QED
  BY <1>4, <1>5, <1>6, KeepsBy

\* A call and the count of a program, which the clause counts instead when the call fails.
LEMMA RungKeeps ==
  ASSUME NEW e, NEW fn, NEW args, NEW exc, NEW g, NEW a, NEW t, NEW clause,
         Body(e, fn, args, exc) = << Call(g, a) >> \o Finished,
         Accounts(e) = {"guards", "programs", "pending"}, "none" \in Enters(e, g, a),
         Leaks(e, g, a) \subseteq {t}, t \in Raises(e, fn, args),
         Catches(e, fn, t) = clause, clause # "none", ClausesKept(e, fn, args),
         Work("guards", e, g, a) = Work("guards", e, fn, args),
         Work("guards", e, fn, args) \in Int,
         Work("programs", e, fn, args) = 1, Work("programs", e, g, a) = 0,
         Work("pending", e, fn, args) = 0, Work("pending", e, g, a) = 0,
         Work("guards", e, clause, args) = 0, Work("programs", e, clause, args) = 1,
         Work("pending", e, clause, args) = -1
  PROVE  Keeps(e, fn, args, exc)
<1> DEFINE body == Body(e, fn, args, exc)
           s == Call(g, a)
<1>1. /\ Len(body) = 2 /\ body[1] = s /\ body[2].op = "count" /\ body[2].event = "programs"
  BY DEF Finished, Count
<1>2. s.op = "call" /\ s.fn = g /\ s.args = a
  BY DEF Call
<1> HIDE DEF s
<1>3. \A i \in 1 .. Len(body) : Contained(e, fn, args, exc, body[i])
  <2>1. \A i \in 1 .. Len(body) : i = 1 \/ i = 2
    BY <1>1
  <2> QED
    BY <1>1, <1>2, <2>1 DEF Contained
<1>4. ASSUME NEW m \in Accounts(e)
      PROVE  Path(m, e, fn, args, exc, 1, Work(m, e, fn, args))
  <2> DEFINE y == IF m = "programs" THEN 1 ELSE 0
  <2>1. Path(m, e, fn, args, exc, 2 + 1, 0)
    BY <1>1, PathEnd
  <2>2. Covers(m, y, Cost(m, body[2]) + 0)
    BY <1>1 DEF Covers, Cost, CountCost
  <2>3. Len(body) \in Nat /\ 2 <= Len(body) /\ 1 <= Len(body)
    BY <1>1
  <2>4. m \in {"guards", "programs", "pending"}
    OBVIOUS
  <2>5. Covers(m, Work(m, e, fn, args), Work(m, e, s.fn, s.args) + y)
    BY <1>2, <2>4 DEF Covers
  <2>6. \A u \in Leaks(e, s.fn, s.args) : Covers(m, y + Fare(m), Settled(m, e, fn, args, u))
    <3>1. y + Fare(m) = Work(m, e, clause, args) /\ Work(m, e, clause, args) \in Int
      BY <2>4 DEF Fare
    <3>2. Settled(m, e, fn, args, t) = Work(m, e, clause, args)
      BY DEF Settled
    <3>3. Covers(m, y + Fare(m), Settled(m, e, fn, args, t))
      BY <3>1, <3>2 DEF Covers
    <3> HIDE DEF y
    <3> QED
      BY <1>2, <3>3
  <2>7. m = "pending" => y = 0
    OBVIOUS
  <2> HIDE DEF y
  <2>8. Path(m, e, fn, args, exc, 2, y)
    BY <1>1, <2>1, <2>2, <2>3, PathFlat
  <2>9. Path(m, e, fn, args, exc, 1 + 1, y)
    BY <2>8
  <2> QED
    BY <1>1, <1>2, <2>3, <2>5, <2>6, <2>7, <2>9, PathCall
<1>5. Len(body) \in Nat
  BY <1>1
<1> QED
  BY <1>3, <1>4, <1>5, KeepsBy

-----------------------------------------------------------------------------

(***************************************************************************)
(* The accounts the seeds decide.  Their scopes are those of the rules     *)
(* above, and no exception settles anything, so a plan only has to spend   *)
(* the work of the scope on its statements: all of it before one that may  *)
(* end in an exception.                                                    *)
(***************************************************************************)
Seeded == {"hits", "throws", "walks"}

\* Statement s adds x, or no more than x.
Adds(m, e, s, x) ==
  /\ s.op \in {"guard", "capture", "count"} => Covers(m, x, Cost(m, s))
  /\ s.op \in {"call", "try"} => Covers(m, x, Work(m, e, s.fn, s.args))
  /\ s.op \in {"throw", "rethrow"} => Covers(m, x, 0)

\* No exception leaves s.
Still(e, s) ==
  /\ s.op \notin {"throw", "rethrow"}
  /\ s.op \in {"call", "try"} => Leaks(e, s.fn, s.args) = {}

\* No exception settles anything.
Free(m, e, fn, args) == \A t \in Raises(e, fn, args) : Settled(m, e, fn, args, t) = 0

\* A scope whose work is spent on its statements has a plan.
LEMMA SeedPlan ==
  ASSUME NEW m \in Seeded, NEW e, NEW fn, NEW args, NEW exc, Keeps(e, fn, args, exc),
         Free(m, e, fn, args), NEW n, n = Len(Body(e, fn, args, exc)),
         NEW left \in [1 .. n + 1 -> Int],
         left[1] = Work(m, e, fn, args), left[n + 1] = 0,
         \A j \in 1 .. n : /\ Adds(m, e, Body(e, fn, args, exc)[j], left[j] - left[j + 1])
                           /\ left[j + 1] # 0 => Still(e, Body(e, fn, args, exc)[j])
  PROVE  \E plan : IsPlan(m, e, fn, args, exc, plan)
<1> DEFINE body == Body(e, fn, args, exc)
<1>1. Fare(m) = 0 /\ m # "pending"
  BY DEF Fare, Seeded
<1>2. ASSUME NEW j \in 1 .. n
      PROVE  Balanced(m, e, fn, args, exc, body[j], left[j], left[j + 1])
  <2> DEFINE s == body[j]
             x == left[j]
             y == left[j + 1]
  <2>1. n \in Nat /\ j \in 1 .. n + 1 /\ j + 1 \in 1 .. n + 1
    BY DEF Keeps
  <2>2. x \in Int /\ y \in Int
    BY <2>1
  <2>3. Contained(e, fn, args, exc, s)
    BY DEF Keeps
  <2>4. Adds(m, e, s, x - y) /\ (y # 0 => Still(e, s))
    OBVIOUS
  <2> SUFFICES Balanced(m, e, fn, args, exc, s, x, y)
    OBVIOUS
  <2> HIDE DEF s, x, y, body
  <2>5. ASSUME NEW c, Covers(m, x - y, c) PROVE Covers(m, x, c + y)
    BY <2>2, <2>5 DEF Covers
  <2>6. CASE s.op \in {"guard", "capture", "count"}
    <3>1. Covers(m, x, Cost(m, s) + y)
      BY <2>4, <2>5, <2>6 DEF Adds
    <3> QED
      BY <2>6, <3>1 DEF Balanced
  <2>7. CASE s.op \in {"call", "try"}
    <3>1. Covers(m, x, Work(m, e, s.fn, s.args) + y)
      BY <2>4, <2>5, <2>7 DEF Adds
    <3>2. ASSUME NEW t \in Leaks(e, s.fn, s.args)
          PROVE  Covers(m, y + Fare(m), Settled(m, e, fn, args, t))
      <4>1. y = 0
        BY <2>4, <2>7 DEF Still
      <4>2. Settled(m, e, fn, args, t) = 0
        BY <2>3, <2>7 DEF Contained, Free
      <4> QED
        BY <1>1, <4>1, <4>2 DEF Covers
    <3> QED
      BY <1>1, <2>7, <3>1, <3>2 DEF Balanced
  <2>8. CASE s.op \in {"throw", "rethrow"}
    <3>1. Covers(m, x, 0)
      <4>1. y = 0
        BY <2>4, <2>8 DEF Still
      <4> QED
        BY <2>2, <2>4, <2>8, <4>1 DEF Adds
    <3>2. s.op = "throw" => Settled(m, e, fn, args, s.exc.type) = 0
      BY <2>3 DEF Contained, Free
    <3>3. s.op = "rethrow" => Settled(m, e, fn, args, exc.type) = 0
      BY <2>3 DEF Contained, Free
    <3> QED
      BY <2>8, <3>1, <3>2, <3>3 DEF Balanced
  <2>9. CASE s.op \notin {"guard", "capture", "count", "call", "try", "throw", "rethrow"}
    BY <2>9 DEF Balanced
  <2> QED
    BY <2>6, <2>7, <2>8, <2>9
<1> QED
  BY <1>2 DEF IsPlan

\* A statement that adds nothing, whatever the seed.
Barren(m, e, s) ==
  \/ s.op \in {"guard", "capture", "throw", "rethrow"}
  \/ s.op = "count" /\ (m = "hits" => s.event # "thrown")
  \/ s.op \in {"call", "try"} /\ Work(m, e, s.fn, s.args) = 0

\* Such a statement, for these accounts.
LEMMA BarrenAdds ==
  ASSUME NEW m \in Seeded, NEW e, NEW s, Barren(m, e, s)
  PROVE  Adds(m, e, s, 0)
<1>1. CASE s.op \in {"guard", "capture", "throw", "rethrow"}
  BY <1>1 DEF Adds, Covers, Cost, Seeded, Exact
<1>2. CASE s.op = "count" /\ (m = "hits" => s.event # "thrown")
  <2>1. Covers(m, 0, CountCost(m, s.event))
    <3>1. CASE m = "hits"
      BY <1>2, <3>1 DEF CountCost, Covers
    <3>2. CASE m = "throws"
      BY <3>2 DEF CountCost, Covers, Exact
    <3>3. CASE m = "walks"
      BY <3>3 DEF CountCost, Covers
    <3> QED
      BY <3>1, <3>2, <3>3 DEF Seeded
  <2> QED
    BY <1>2, <2>1 DEF Adds, Cost
<1>3. CASE s.op \in {"call", "try"} /\ Work(m, e, s.fn, s.args) = 0
  BY <1>3 DEF Adds, Covers
<1> QED
  BY <1>1, <1>2, <1>3 DEF Barren

\* A scope of such statements.
LEMMA SeedBarren ==
  ASSUME NEW m \in Seeded, NEW e, NEW fn, NEW args, NEW exc, Keeps(e, fn, args, exc),
         Free(m, e, fn, args), Work(m, e, fn, args) = 0,
         \A j \in 1 .. Len(Body(e, fn, args, exc)) : Barren(m, e, Body(e, fn, args, exc)[j])
  PROVE  \E plan : IsPlan(m, e, fn, args, exc, plan)
<1> DEFINE body == Body(e, fn, args, exc)
           n == Len(body)
           left == [j \in 1 .. n + 1 |-> 0]
<1>1. n \in Nat /\ n = Len(body)
  BY DEF Keeps
<1>2. \A j \in 1 .. n : Adds(m, e, body[j], 0)
  BY BarrenAdds
<1> HIDE DEF n, body
<1>3. /\ 1 \in 1 .. n + 1 /\ n + 1 \in 1 .. n + 1
      /\ \A j \in 1 .. n : j \in 1 .. n + 1 /\ j + 1 \in 1 .. n + 1
  BY <1>1
<1>4. /\ left \in [1 .. n + 1 -> Int] /\ left[1] = 0 /\ left[n + 1] = 0
      /\ \A j \in 1 .. n : left[j] - left[j + 1] = 0 /\ left[j + 1] = 0
  BY <1>3
<1> HIDE DEF left
<1>5. \A j \in 1 .. n : /\ Adds(m, e, body[j], left[j] - left[j + 1])
                        /\ left[j + 1] # 0 => Still(e, body[j])
  BY <1>2, <1>4
<1> QED
  BY <1>1, <1>4, <1>5, SeedPlan DEF body

\* A scope that does its work in statement p: nothing before it ends in an exception.
LEMMA SeedPivot ==
  ASSUME NEW m \in Seeded, NEW e, NEW fn, NEW args, NEW exc, Keeps(e, fn, args, exc),
         Free(m, e, fn, args), NEW n, n = Len(Body(e, fn, args, exc)), NEW p \in 1 .. n,
         Work(m, e, fn, args) \in Int,
         Adds(m, e, Body(e, fn, args, exc)[p], Work(m, e, fn, args)),
         \A j \in 1 .. n : j # p => Barren(m, e, Body(e, fn, args, exc)[j]),
         \A j \in 1 .. n : j < p => Still(e, Body(e, fn, args, exc)[j])
  PROVE  \E plan : IsPlan(m, e, fn, args, exc, plan)
<1> DEFINE body == Body(e, fn, args, exc)
           w == Work(m, e, fn, args)
           left == [j \in 1 .. n + 1 |-> IF j <= p THEN w ELSE 0]
<1>1. n \in Nat /\ n = Len(body) /\ w \in Int
  BY DEF Keeps
<1>2. Adds(m, e, body[p], w) /\ \A j \in 1 .. n : j # p => Adds(m, e, body[j], 0)
  BY BarrenAdds
<1>3. \A j \in 1 .. n : j < p => Still(e, body[j])
  OBVIOUS
<1> HIDE DEF w, body
<1>4. left \in [1 .. n + 1 -> Int] /\ left[1] = w /\ left[n + 1] = 0
  BY <1>1
<1>5. ASSUME NEW j \in 1 .. n
      PROVE  /\ left[j] - left[j + 1] = IF j = p THEN w ELSE 0
             /\ left[j + 1] # 0 => j < p
  <2>1. j \in 1 .. n + 1 /\ j + 1 \in 1 .. n + 1
    BY <1>1
  <2> QED
    BY <1>1, <2>1
<1> HIDE DEF left
<1>6. \A j \in 1 .. n : /\ Adds(m, e, body[j], left[j] - left[j + 1])
                        /\ left[j + 1] # 0 => Still(e, body[j])
  BY <1>2, <1>3, <1>5
<1> QED
  BY <1>1, <1>4, <1>6, SeedPlan DEF body, w

-----------------------------------------------------------------------------

(***************************************************************************)
(* Sums.                                                                   *)
(***************************************************************************)
IsSum(f, n, s) == s = [k \in 0 .. n |-> IF k = 0 THEN 0 ELSE s[k - 1] + f[k]]

\* The sums of the first elements of a sequence of numbers exist,
LEMMA SumExists ==
  ASSUME NEW n \in Nat, NEW f, \A k \in 1 .. n : f[k] \in Int
  PROVE  \E s : IsSum(f, n, s)
<1> DEFINE S == {k \in Nat : k <= n => \E s : IsSum(f, k, s) /\ \A j \in 0 .. k : s[j] \in Int}
<1>1. 0 \in S
  <2> DEFINE s == [k \in 0 .. 0 |-> 0]
  <2>1. IsSum(f, 0, s) /\ \A j \in 0 .. 0 : s[j] \in Int
    BY DEF IsSum
  <2> QED
    BY <2>1
<1>2. ASSUME NEW k \in Nat, k \in S PROVE k + 1 \in S
  <2> SUFFICES ASSUME k + 1 <= n
               PROVE  \E s : IsSum(f, k + 1, s) /\ \A j \in 0 .. k + 1 : s[j] \in Int
    OBVIOUS
  <2>1. PICK s : IsSum(f, k, s) /\ \A j \in 0 .. k : s[j] \in Int
    BY <1>2
  <2> DEFINE t == [j \in 0 .. k + 1 |-> IF j = k + 1 THEN s[k] + f[k + 1] ELSE s[j]]
  <2>2. \A j \in 0 .. k : j \in 0 .. k + 1 /\ j # k + 1 /\ t[j] = s[j]
    OBVIOUS
  <2>3. t[k + 1] = s[k] + f[k + 1] /\ k \in 0 .. k /\ k + 1 \in 1 .. n
    OBVIOUS
  <2>4. ASSUME NEW j \in 0 .. k + 1
        PROVE  t[j] \in Int /\ t[j] = IF j = 0 THEN 0 ELSE t[j - 1] + f[j]
    <3>1. CASE j = k + 1
      BY <2>1, <2>2, <2>3, <3>1
    <3>2. CASE j # k + 1
      <4>1. j \in 0 .. k /\ (j # 0 => j - 1 \in 0 .. k)
        BY <3>2
      <4>2. s[j] = IF j = 0 THEN 0 ELSE s[j - 1] + f[j]
        BY <2>1, <4>1 DEF IsSum
      <4> HIDE DEF t
      <4> QED
        BY <2>1, <2>2, <4>1, <4>2
    <3> QED
      BY <3>1, <3>2
  <2>5. IsSum(f, k + 1, t)
    <3>1. t = [j \in 0 .. k + 1 |-> t[j]]
      OBVIOUS
    <3> HIDE DEF t
    <3> QED
      BY <2>4, <3>1 DEF IsSum
  <2> HIDE DEF t
  <2> QED
    BY <2>4, <2>5
<1> HIDE DEF S
<1>3. n \in S
  BY <1>1, <1>2, SetInduction
<1> QED
  BY <1>3 DEF S

\* and there is one such function.
LEMMA SumUnique ==
  ASSUME NEW n \in Nat, NEW f, \A k \in 1 .. n : f[k] \in Int, NEW h \in 0 .. n,
         NEW s, NEW t, IsSum(f, n, s), IsSum(f, h, t)
  PROVE  s[h] = t[h] /\ s[h] \in Int
<1> DEFINE S == {k \in Nat : k <= h => s[k] = t[k] /\ s[k] \in Int}
<1>1. 0 \in S
  <2>1. 0 \in 0 .. n /\ 0 \in 0 .. h
    OBVIOUS
  <2>2. s[0] = 0 /\ t[0] = 0
    BY <2>1 DEF IsSum
  <2> QED
    BY <2>2
<1>2. ASSUME NEW k \in Nat, k \in S PROVE k + 1 \in S
  <2> SUFFICES ASSUME k + 1 <= h PROVE s[k + 1] = t[k + 1] /\ s[k + 1] \in Int
    OBVIOUS
  <2>1. k + 1 \in 0 .. n /\ k + 1 \in 0 .. h /\ k + 1 # 0 /\ (k + 1) - 1 = k /\ k + 1 \in 1 .. n
    OBVIOUS
  <2>2. s[k + 1] = s[(k + 1) - 1] + f[k + 1] /\ t[k + 1] = t[(k + 1) - 1] + f[k + 1]
    BY <2>1 DEF IsSum
  <2>3. s[k] = t[k] /\ s[k] \in Int
    BY <1>2
  <2> QED
    BY <2>1, <2>2, <2>3
<1> HIDE DEF S
<1>3. h \in S
  BY <1>1, <1>2, SetInduction
<1> QED
  BY <1>3 DEF S

\* What Total is.
LEMMA TotalSum ==
  ASSUME NEW n \in Nat, NEW f, \A k \in 1 .. n : f[k] \in Int
  PROVE  \E s : IsSum(f, n, s) /\ Total(f, n) = s[n]
<1>1. \E s : IsSum(f, n, s)
  BY SumExists
<1> QED
  BY <1>1 DEF Total, IsSum

\* A total, and the one after it.
LEMMA TotalStep ==
  ASSUME NEW n \in Nat, NEW f, \A k \in 1 .. n : f[k] \in Int
  PROVE  /\ Total(f, n) \in Int
         /\ n = 0 => Total(f, n) = 0
         /\ n # 0 => Total(f, n) = Total(f, n - 1) + f[n]
<1>1. PICK s : IsSum(f, n, s) /\ Total(f, n) = s[n]
  BY TotalSum
<1>2. n \in 0 .. n
  OBVIOUS
<1>3. Total(f, n) \in Int
  BY <1>1, <1>2, SumUnique
<1>4. n = 0 => s[n] = 0
  BY <1>1 DEF IsSum
<1>5. ASSUME n # 0 PROVE Total(f, n) = Total(f, n - 1) + f[n]
  <2>1. n - 1 \in Nat /\ n - 1 \in 0 .. n /\ \A k \in 1 .. n - 1 : f[k] \in Int
    BY <1>5
  <2>2. PICK t : IsSum(f, n - 1, t) /\ Total(f, n - 1) = t[n - 1]
    BY <2>1, TotalSum
  <2>3. s[n - 1] = t[n - 1]
    BY <1>1, <2>1, <2>2, SumUnique
  <2>4. s[n] = s[n - 1] + f[n]
    BY <1>1, <1>2, <1>5 DEF IsSum
  <2> QED
    BY <1>1, <2>2, <2>3, <2>4
<1> QED
  BY <1>1, <1>3, <1>4, <1>5

\* A scope that adds up what its statements do, none of which ends in an exception.
LEMMA SeedList ==
  ASSUME NEW m \in Seeded, NEW e, NEW fn, NEW args, NEW exc, Keeps(e, fn, args, exc),
         Free(m, e, fn, args), NEW n, n = Len(Body(e, fn, args, exc)), NEW f,
         \A j \in 1 .. n : /\ f[j] \in Int /\ Still(e, Body(e, fn, args, exc)[j])
                           /\ Adds(m, e, Body(e, fn, args, exc)[j], f[j]),
         Work(m, e, fn, args) = Total(f, n)
  PROVE  \E plan : IsPlan(m, e, fn, args, exc, plan)
<1> DEFINE body == Body(e, fn, args, exc)
           left == [j \in 1 .. n + 1 |-> Total(f, n) - Total(f, j - 1)]
<1>1. n \in Nat
  BY DEF Keeps
<1>2. ASSUME NEW k \in 0 .. n
      PROVE  /\ Total(f, k) \in Int
             /\ k = 0 => Total(f, k) = 0
             /\ k # 0 => Total(f, k) = Total(f, k - 1) + f[k]
  <2>1. k \in Nat /\ \A j \in 1 .. k : f[j] \in Int
    BY <1>1
  <2> QED
    BY <2>1, TotalStep
<1>3. left \in [1 .. n + 1 -> Int] /\ left[1] = Total(f, n) /\ left[n + 1] = 0
  <2>1. \A j \in 1 .. n + 1 : j - 1 \in 0 .. n
    BY <1>1
  <2>2. \A j \in 1 .. n + 1 : Total(f, n) - Total(f, j - 1) \in Int
    BY <1>1, <1>2, <2>1
  <2>3. 1 \in 1 .. n + 1 /\ n + 1 \in 1 .. n + 1 /\ 1 - 1 = 0 /\ (n + 1) - 1 = n /\ 0 \in 0 .. n
        /\ n \in 0 .. n
    BY <1>1
  <2>4. Total(f, 0) = 0 /\ Total(f, n) \in Int
    BY <1>2, <2>3
  <2> QED
    BY <2>2, <2>3, <2>4
<1>4. ASSUME NEW j \in 1 .. n PROVE left[j] - left[j + 1] = f[j]
  <2>1. j \in 1 .. n + 1 /\ j + 1 \in 1 .. n + 1 /\ (j + 1) - 1 = j /\ j - 1 \in 0 .. n
        /\ j \in 0 .. n /\ j # 0 /\ n \in 0 .. n
    BY <1>1
  <2>2. left[j] = Total(f, n) - Total(f, j - 1) /\ left[j + 1] = Total(f, n) - Total(f, j)
    BY <2>1
  <2>3. Total(f, j) = Total(f, j - 1) + f[j] /\ Total(f, j - 1) \in Int /\ Total(f, n) \in Int
        /\ f[j] \in Int
    BY <1>2, <2>1
  <2> HIDE DEF left
  <2> QED
    BY <2>2, <2>3
<1> HIDE DEF left
<1>5. \A j \in 1 .. n : /\ Adds(m, e, body[j], left[j] - left[j + 1])
                        /\ left[j + 1] # 0 => Still(e, body[j])
  BY <1>4
<1> QED
  BY <1>3, <1>5, SeedPlan

\* A line passes on what it calls.
LEMMA SeedWrap ==
  ASSUME NEW m \in Seeded, NEW e, NEW fn, NEW args, NEW exc, Keeps(e, fn, args, exc),
         Free(m, e, fn, args), NEW g, NEW a, NEW first,
         Wraps(Body(e, fn, args, exc), g, a, first),
         Work(m, e, g, a) = Work(m, e, fn, args), Work(m, e, fn, args) \in Int
  PROVE  \E plan : IsPlan(m, e, fn, args, exc, plan)
<1> DEFINE body == Body(e, fn, args, exc)
<1>1. PICK n, p : IsLine(body, n, p) /\ body[p].fn = g /\ body[p].args = a
  BY DEF Wraps
<1>2. /\ n = Len(body) /\ p \in 1 .. n /\ body[p].op \in {"call", "try"}
      /\ \A j \in 1 .. n : j # p => body[j].op \in {"guard", "capture"}
  BY <1>1 DEF IsLine
<1> HIDE DEF body
<1>3. Adds(m, e, body[p], Work(m, e, fn, args))
  BY <1>1, <1>2 DEF Adds, Covers
<1>4. \A j \in 1 .. n : j # p => Barren(m, e, body[j]) /\ Still(e, body[j])
  BY <1>2 DEF Barren, Still
<1>5. \A j \in 1 .. n : j < p => j # p
  OBVIOUS
<1> QED
  BY <1>2, <1>3, <1>4, <1>5, SeedPivot DEF body

\* What a case that throws if c holds may be worth.
Worth(m, c) ==
  CASE m = "hits"   -> {Bit(c)}
    [] m = "throws" -> {0, 0 - Bit(c)}
    [] m = "walks"  -> {0, -1}

\* A guard, a capture and a throw if c holds, else perhaps a capture.
EndsBy(body, c) ==
  /\ Len(body) \in {2, 3, 4}
  /\ body[1].op = "guard" /\ body[2].op = "capture"
  /\ (~c /\ Len(body) = 3) => body[3].op = "capture"
  /\ c => /\ Len(body) = 4 /\ body[3].op = "count" /\ body[3].event = "thrown"
          /\ body[4].op = "throw"
  /\ ~c => Len(body) \in {2, 3}

\* The cases of the suites end so.
LEMMA CaseParts ==
  ASSUME NEW c, NEW type, NEW code, NEW rest \in {<< >>, << Capture >>}
  PROVE  EndsBy(<< Guard, Capture >> \o (IF c THEN Raise(type, code) ELSE rest), c)
<1>1. CASE c
  BY <1>1 DEF EndsBy, Raise, Guard, Capture, Count
<1>2. CASE ~c /\ rest = << >>
  BY <1>2 DEF EndsBy, Guard, Capture
<1>3. CASE ~c /\ rest = << Capture >>
  BY <1>3 DEF EndsBy, Guard, Capture
<1> QED
  BY <1>1, <1>2, <1>3

\* A case.
LEMMA SeedCase ==
  ASSUME NEW m \in Seeded, NEW e, NEW fn, NEW args, NEW exc, Keeps(e, fn, args, exc),
         Free(m, e, fn, args), NEW c, NEW type, NEW code, NEW rest \in {<< >>, << Capture >>},
         Body(e, fn, args, exc) = << Guard, Capture >> \o (IF c THEN Raise(type, code) ELSE rest),
         Work(m, e, fn, args) \in Worth(m, c)
  PROVE  \E plan : IsPlan(m, e, fn, args, exc, plan)
<1> DEFINE body == Body(e, fn, args, exc)
           n == Len(body)
           w == Work(m, e, fn, args)
<1>1. n = Len(body)
  OBVIOUS
<1>2. body = << Guard, Capture >> \o (IF c THEN Raise(type, code) ELSE rest)
  OBVIOUS
<1> HIDE DEF n, body
<1>3. EndsBy(body, c)
  BY <1>2, CaseParts
<1>4. /\ n \in {2, 3, 4}
      /\ body[1].op = "guard" /\ body[2].op = "capture"
      /\ (~c /\ n = 3) => body[3].op = "capture"
      /\ c => /\ n = 4 /\ body[3].op = "count" /\ body[3].event = "thrown"
              /\ body[4].op = "throw"
      /\ ~c => n \in {2, 3}
  BY <1>3, <1>1 DEF EndsBy
<1>5. \A j \in 1 .. n : j \in {1, 2, 3, 4} /\ (j = 3 => n \in {3, 4}) /\ (j = 4 => n = 4)
  BY <1>4
<1>6. \A j \in 1 .. n : /\ ~(c /\ j = 3 /\ m = "hits") => Barren(m, e, body[j])
                        /\ j < 4 => Still(e, body[j])
  <2>1. ASSUME NEW j \in 1 .. n
        PROVE  \/ body[j].op \in {"guard", "capture"}
               \/ c /\ j = 3 /\ body[j].op = "count"
               \/ c /\ j = 4 /\ body[j].op = "throw"
    BY <1>4, <1>5
  <2> QED
    BY <2>1 DEF Barren, Still
<1>7. CASE w = 0 /\ (m = "hits" => ~c)
  BY <1>6, <1>1, <1>7, SeedBarren DEF body
<1>8. CASE w = -1 /\ m = "walks"
  <2>1. Adds(m, e, body[2], w)
    BY <1>4, <1>8 DEF Adds, Cost, Covers, Exact
  <2>2. 2 \in 1 .. n /\ \A j \in 1 .. n : j < 2 => j < 4
    BY <1>4
  <2>3. \A j \in 1 .. n : j # 2 => Barren(m, e, body[j])
    BY <1>6, <1>8
  <2>4. w \in Int
    BY <1>8
  <2> QED
    BY <1>6, <1>1, <2>1, <2>2, <2>3, <2>4, SeedPivot DEF body
<1>9. CASE c /\ (\/ w = 1 /\ m = "hits"
                 \/ w = -1 /\ m = "throws")
  <2>1. Covers(m, w, CountCost(m, "thrown"))
    BY <1>9 DEF CountCost, Covers, Exact
  <2>2. Adds(m, e, body[3], w)
    BY <1>4, <1>9, <2>1 DEF Adds, Cost
  <2>3. 3 \in 1 .. n /\ \A j \in 1 .. n : j < 3 => j < 4
    BY <1>4, <1>9
  <2>4. \A j \in 1 .. n : j # 3 => Barren(m, e, body[j])
    BY <1>6
  <2>5. w \in Int
    BY <1>9
  <2> QED
    BY <1>6, <1>1, <2>2, <2>3, <2>4, <2>5, SeedPivot DEF body
<1>10. \/ w = 0 /\ (m = "hits" => ~c)
       \/ w = -1 /\ m = "walks"
       \/ c /\ (\/ w = 1 /\ m = "hits"
                \/ w = -1 /\ m = "throws")
  <2> HIDE DEF w
  <2>1. w \in Worth(m, c)
    BY DEF w
  <2> QED
    BY <2>1 DEF Worth, Bit, Seeded
<1> QED
  BY <1>7, <1>8, <1>9, <1>10

\* What the seeds make of a case is a number.
LEMMA AmountTyped ==
  ASSUME NEW m \in Seeded, NEW fn, NEW args
  PROVE  CaseAmount(m, fn, args) \in Int
<1>1. \A c : Bit(c) \in Int
  BY DEF Bit
<1> QED
  BY <1>1 DEF CaseAmount, Seeded

\* The works that the seeds decide.
LEMMA SeedWorks ==
  ASSUME NEW e, NEW m \in SeedAccounts(e)
  PROVE  /\ m \in Seeded
         /\ \A fn, args : Work(m, e, fn, args) = SeededWork(m, e, fn, args)
         /\ \A fn, args : fn \notin {e, "round_try", "runAllPrograms"} =>
              /\ Work(m, e, fn, args) = ProgramAmount(m, e, fn, args)
              /\ fn \notin Swept => Work(m, e, fn, args) = CaseAmount(m, fn, args)
         /\ \A args : e \notin {"round_try", "runAllPrograms"} =>
              /\ Work(m, e, "round_try", args) = RoundAmount(m, e, args)
              /\ Work(m, e, "runAllPrograms", args) = RoundAmount(m, e, args)
<1>1. m \in Seeded /\ (e = BasicEntry => m # "throws")
  BY DEF SeedAccounts, Seeded, BasicEntry, CfiEntry, ExtEntry
<1>2. \A fn, args : Work(m, e, fn, args) = SeededWork(m, e, fn, args)
  BY <1>1 DEF Work, Seeded
<1>3. \A fn, args : fn \notin {e, "round_try", "runAllPrograms"} =>
        Work(m, e, fn, args) = ProgramAmount(m, e, fn, args)
  BY <1>2 DEF SeededWork
<1>4. \A fn, args : fn \notin Swept => ProgramAmount(m, e, fn, args) = CaseAmount(m, fn, args)
  BY DEF ProgramAmount
<1>5. \A args : e \notin {"round_try", "runAllPrograms"} =>
        /\ Work(m, e, "round_try", args) = RoundAmount(m, e, args)
        /\ Work(m, e, "runAllPrograms", args) = RoundAmount(m, e, args)
  BY <1>2 DEF SeededWork
<1> QED
  BY <1>1, <1>2, <1>3, <1>4, <1>5

\* A program: turns calls or try blocks of g, then its count.
IsRun(body, g, turns) ==
  /\ turns \in Nat /\ Len(body) = turns + 1 /\ body[turns + 1] = Count("programs")
  /\ \A j \in 1 .. turns : body[j].op \in {"call", "try"} /\ body[j].fn = g

\* Turns on one function and the count of a completed program are a run,
LEMMA FinishedRuns ==
  ASSUME NEW g, NEW n \in Nat, NEW s, s = [j \in 1 .. n |-> s[j]],
         \A j \in 1 .. n : s[j].op \in {"call", "try"} /\ s[j].fn = g
  PROVE  IsRun(s \o Finished, g, n)
<1> DEFINE T == {s[j] : j \in 1 .. n}
<1>1. s \in [1 .. n -> T]
  OBVIOUS
<1> HIDE DEF T
<1>2. s \in Seq(T) /\ Len(s) = n
  BY <1>1
<1>3. Finished = << Count("programs") >>
  BY DEF Finished
<1>4. /\ Len(s \o Finished) = n + 1 /\ (s \o Finished)[n + 1] = Count("programs")
      /\ \A j \in 1 .. n : (s \o Finished)[j] = s[j]
  BY <1>2, <1>3
<1> QED
  BY <1>4 DEF IsRun

\* and so are the sweeps that the programs loop over.
LEMMA SweepRuns ==
  ASSUME NEW op \in {"call", "try"}, NEW g, NEW n \in Nat, NEW seed, NEW stride
  PROVE  IsRun(Sweep(op, g, n, seed, stride) \o Finished, g, n)
<1> DEFINE s == Sweep(op, g, n, seed, stride)
<1>1. /\ s = [j \in 1 .. n |-> s[j]]
      /\ \A j \in 1 .. n : s[j].op \in {"call", "try"} /\ s[j].fn = g
  BY DEF Sweep
<1> HIDE DEF s
<1>2. IsRun(s \o Finished, g, n)
  BY <1>1, FinishedRuns
<1> QED
  BY <1>2 DEF s

\* The scopes that are not a program or a case.
Rounds(e) == {e, "round_try", "runAllPrograms"}

\* A scope of no account,
LEMMA SeedNone ==
  ASSUME NEW e, NEW m \in SeedAccounts(e), NEW fn, NEW args,
         fn \notin Rounds(e) \cup Swept \cup Walked, ~CfiHits(fn, args), ~ExtHits(fn, args)
  PROVE  Work(m, e, fn, args) = 0
<1>1. Work(m, e, fn, args) = CaseAmount(m, fn, args) /\ m \in Seeded
  BY SeedWorks DEF Rounds
<1>2. /\ Bit(CfiHits(fn, args)) = 0 /\ Bit(ExtHits(fn, args)) = 0 /\ Bit(fn \in Walked) = 0
  BY DEF Bit
<1>3. CaseAmount(m, fn, args) \in {0, 0 - 0}
  BY <1>1, <1>2 DEF CaseAmount, Seeded
<1> QED
  BY <1>1, <1>3

\* two that are worth the same,
LEMMA SeedSame ==
  ASSUME NEW e, NEW m \in SeedAccounts(e), NEW fn, NEW args, NEW g, NEW a,
         fn \notin Rounds(e) \cup Swept, g \notin Rounds(e) \cup Swept,
         CfiHits(g, a) = CfiHits(fn, args), ExtHits(g, a) = ExtHits(fn, args),
         (g \in Walked) = (fn \in Walked)
  PROVE  Work(m, e, g, a) = Work(m, e, fn, args) /\ Work(m, e, fn, args) \in Int
<1>1. /\ Work(m, e, fn, args) = CaseAmount(m, fn, args) /\ m \in Seeded
      /\ Work(m, e, g, a) = CaseAmount(m, g, a)
  BY SeedWorks DEF Rounds
<1>2. CaseAmount(m, g, a) = CaseAmount(m, fn, args)
  BY DEF CaseAmount
<1> QED
  BY <1>1, <1>2, AmountTyped

\* the walks,
LEMMA SeedWalks ==
  ASSUME NEW e, NEW m \in SeedAccounts(e), NEW fn, NEW args, m = "walks",
         fn \notin Rounds(e) \cup Swept \cup Walked
  PROVE  Work(m, e, fn, args) = 0
<1>1. Work(m, e, fn, args) = CaseAmount(m, fn, args)
  BY SeedWorks DEF Rounds
<1>2. CaseAmount(m, fn, args) = 0 - Bit(fn \in Walked)
  BY DEF CaseAmount
<1>3. Bit(fn \in Walked) = 0
  BY DEF Bit
<1> QED
  BY <1>1, <1>2, <1>3

\* and what a case may be worth.
LEMMA SeedWorth ==
  ASSUME NEW e, NEW m \in SeedAccounts(e), NEW fn, NEW args, NEW c,
         fn \notin Rounds(e) \cup Swept,
         m = "hits" => c = CfiHits(fn, args), m = "throws" => c = ExtHits(fn, args)
  PROVE  Work(m, e, fn, args) \in Worth(m, c)
<1>1. Work(m, e, fn, args) = CaseAmount(m, fn, args) /\ m \in Seeded
  BY SeedWorks DEF Rounds
<1>2. CASE m = "hits"
  BY <1>1, <1>2 DEF CaseAmount, Worth
<1>3. CASE m = "throws"
  BY <1>1, <1>3 DEF CaseAmount, Worth
<1>4. CASE m = "walks"
  <2>1. CaseAmount(m, fn, args) = 0 - Bit(fn \in Walked)
    BY <1>4 DEF CaseAmount
  <2>2. Bit(fn \in Walked) \in {0, 1}
    BY DEF Bit
  <2> QED
    BY <1>1, <1>4, <2>1, <2>2 DEF Worth
<1> QED
  BY <1>1, <1>2, <1>3, <1>4 DEF Seeded

\* A program that sweeps a table: each turn is worth what its arguments make of it.
LEMMA SeedSweep ==
  ASSUME NEW e, NEW m \in SeedAccounts(e), NEW fn, NEW args, NEW exc, Keeps(e, fn, args, exc),
         Free(m, e, fn, args), fn \in Swept \ Rounds(e),
         Body(e, fn, args, exc) = SuiteBody(e, fn, args, NoException),
         NEW g, g \notin Swept \cup Rounds(e), \A a : Leaks(e, g, a) = {},
         NEW turns, IsRun(Body(e, fn, args, exc), g, turns)
  PROVE  \E plan : IsPlan(m, e, fn, args, exc, plan)
<1> DEFINE body == Body(e, fn, args, exc)
           n == Len(body)
           f == [k \in 1 .. n |-> IF body[k].op = "count" THEN 0
                                  ELSE CaseAmount(m, body[k].fn, body[k].args)]
<1>1. m \in Seeded /\ Work(m, e, fn, args) = ProgramAmount(m, e, fn, args)
      /\ \A a : Work(m, e, g, a) = CaseAmount(m, g, a)
  BY SeedWorks DEF Rounds
<1>2. ProgramAmount(m, e, fn, args) = Total(f, n)
  BY DEF ProgramAmount
<1>3. /\ n \in Nat /\ n = turns + 1 /\ turns \in Nat
      /\ body[turns + 1].op = "count" /\ body[turns + 1].event = "programs"
      /\ \A j \in 1 .. turns : body[j].op \in {"call", "try"} /\ body[j].fn = g
  BY DEF IsRun, Count
<1>4. \A j \in 1 .. n : f[j] = IF body[j].op = "count" THEN 0
                                ELSE CaseAmount(m, body[j].fn, body[j].args)
  OBVIOUS
<1>5. n = Len(Body(e, fn, args, exc))
  OBVIOUS
<1> HIDE DEF f, n
<1>6. ASSUME NEW j \in 1 .. n
      PROVE  f[j] \in Int /\ Still(e, body[j]) /\ Adds(m, e, body[j], f[j])
  <2> HIDE DEF body
  <2>1. CASE j = turns + 1
    <3>1. f[j] = 0 /\ Still(e, body[j])
      BY <1>3, <1>4, <2>1 DEF Still
    <3>2. Barren(m, e, body[j])
      BY <1>3, <2>1 DEF Barren
    <3> QED
      BY <1>1, <3>1, <3>2, BarrenAdds
  <2>2. CASE j # turns + 1
    <3>1. j \in 1 .. turns
      BY <1>3, <2>2
    <3>2. body[j].op \in {"call", "try"} /\ body[j].fn = g
      BY <1>3, <3>1
    <3>3. f[j] = Work(m, e, body[j].fn, body[j].args) /\ f[j] \in Int
      BY <1>1, <1>4, <3>2, AmountTyped
    <3>4. Still(e, body[j])
      BY <3>2 DEF Still
    <3> QED
      BY <3>2, <3>3, <3>4 DEF Adds, Covers
  <2> QED
    BY <2>1, <2>2
<1> QED
  BY <1>1, <1>2, <1>5, <1>6, SeedList

\* It is a number.
LEMMA SweepTyped ==
  ASSUME NEW e, NEW m \in Seeded, NEW fn, NEW args, NEW g, NEW turns,
         IsRun(SuiteBody(e, fn, args, NoException), g, turns)
  PROVE  ProgramAmount(m, e, fn, args) \in Int
<1> DEFINE body == SuiteBody(e, fn, args, NoException)
           n == Len(body)
           f == [k \in 1 .. n |-> IF body[k].op = "count" THEN 0
                                  ELSE CaseAmount(m, body[k].fn, body[k].args)]
<1>1. n \in Nat
  BY DEF IsRun
<1>2. ProgramAmount(m, e, fn, args) = IF fn \in Swept THEN Total(f, n) ELSE CaseAmount(m, fn, args)
  BY DEF ProgramAmount
<1> HIDE DEF n, body
<1>3. \A j \in 1 .. n : f[j] \in Int
  BY AmountTyped
<1> HIDE DEF f
<1> QED
  BY <1>1, <1>2, <1>3, TotalStep, AmountTyped

\* A program whose turns add nothing.
LEMMA SeedIdle ==
  ASSUME NEW m \in Seeded, NEW e, NEW fn, NEW args, NEW exc, Keeps(e, fn, args, exc),
         Free(m, e, fn, args), Work(m, e, fn, args) = 0,
         NEW g, \A a : Work(m, e, g, a) = 0,
         NEW turns, IsRun(Body(e, fn, args, exc), g, turns)
  PROVE  \E plan : IsPlan(m, e, fn, args, exc, plan)
<1> DEFINE body == Body(e, fn, args, exc)
<1>1. /\ turns \in Nat /\ Len(body) = turns + 1
      /\ body[turns + 1].op = "count" /\ body[turns + 1].event = "programs"
      /\ \A j \in 1 .. turns : body[j].op \in {"call", "try"} /\ body[j].fn = g
  BY DEF IsRun, Count
<1>2. \A j \in 1 .. Len(body) : j = turns + 1 \/ j \in 1 .. turns
  BY <1>1
<1> HIDE DEF body
<1>3. \A j \in 1 .. Len(body) : Barren(m, e, body[j])
  BY <1>1, <1>2 DEF Barren
<1> QED
  BY <1>3, SeedBarren DEF body

\* A call that nothing leaves, worth x.
Spends(m, e, s, x) ==
  /\ s.op \in {"call", "try"} /\ Leaks(e, s.fn, s.args) = {}
  /\ x \in Int /\ Work(m, e, s.fn, s.args) = x

\* A scope that only makes such calls.
LEMMA SeedCalls ==
  ASSUME NEW m \in Seeded, NEW e, NEW fn, NEW args, NEW exc, Keeps(e, fn, args, exc),
         Free(m, e, fn, args), NEW n, n = Len(Body(e, fn, args, exc)), NEW f,
         Work(m, e, fn, args) = Total(f, n),
         \A j \in 1 .. n : Spends(m, e, Body(e, fn, args, exc)[j], f[j])
  PROVE  \E plan : IsPlan(m, e, fn, args, exc, plan)
<1>1. \A s, x : Spends(m, e, s, x) => x \in Int /\ Still(e, s) /\ Adds(m, e, s, x)
  BY DEF Spends, Still, Adds, Covers
<1> QED
  BY <1>1, SeedList

\* A program of a round, and a round.
IsProgram(m, e, s) ==
  /\ s.op = "call" /\ s.fn \notin Rounds(e) /\ Leaks(e, s.fn, s.args) = {}
  /\ ProgramAmount(m, e, s.fn, s.args) \in Int

IsRoundTry(m, e, s) ==
  /\ s.op = "try" /\ s.fn = "round_try" /\ Leaks(e, s.fn, s.args) = {}
  /\ RoundAmount(m, e, s.args) \in Int

\* A round adds up its programs,
LEMMA SeedRound ==
  ASSUME NEW e, NEW m \in SeedAccounts(e), NEW fn, NEW args, NEW exc, Keeps(e, fn, args, exc),
         Free(m, e, fn, args), fn = "runAllPrograms", e \notin {"round_try", "runAllPrograms"},
         Body(e, fn, args, exc) = SuiteBody(e, fn, args, NoException),
         \A j \in 1 .. Len(Body(e, fn, args, exc)) : IsProgram(m, e, Body(e, fn, args, exc)[j])
  PROVE  \E plan : IsPlan(m, e, fn, args, exc, plan)
<1> DEFINE body == Body(e, fn, args, exc)
           n == Len(body)
           f == [k \in 1 .. n |-> ProgramAmount(m, e, body[k].fn, body[k].args)]
<1>1. /\ m \in Seeded /\ Work(m, e, fn, args) = RoundAmount(m, e, args)
      /\ \A g, a : g \notin Rounds(e) => Work(m, e, g, a) = ProgramAmount(m, e, g, a)
  BY SeedWorks DEF Rounds
<1>2. RoundAmount(m, e, args) = Total(f, n)
  BY DEF RoundAmount
<1>3. \A j \in 1 .. n : f[j] = ProgramAmount(m, e, body[j].fn, body[j].args)
  OBVIOUS
<1>4. n = Len(Body(e, fn, args, exc)) /\ \A j \in 1 .. n : IsProgram(m, e, body[j])
  OBVIOUS
<1> HIDE DEF f, n, body
<1>5. \A j \in 1 .. n : Spends(m, e, body[j], f[j])
  BY <1>1, <1>3, <1>4 DEF IsProgram, Spends
<1> QED
  BY <1>1, <1>2, <1>4, <1>5, SeedCalls DEF body

\* and an exported function its rounds.
LEMMA SeedEntry ==
  ASSUME NEW e, NEW m \in SeedAccounts(e), NEW fn, NEW args, NEW exc, Keeps(e, fn, args, exc),
         Free(m, e, fn, args), fn = e, e \notin {"round_try", "runAllPrograms"},
         Body(e, fn, args, exc) = SuiteBody(e, fn, args, NoException),
         \A j \in 1 .. Len(Body(e, fn, args, exc)) : IsRoundTry(m, e, Body(e, fn, args, exc)[j])
  PROVE  \E plan : IsPlan(m, e, fn, args, exc, plan)
<1> DEFINE body == Body(e, fn, args, exc)
           n == Len(body)
           f == [k \in 1 .. n |-> RoundAmount(m, e, body[k].args)]
<1>1. /\ m \in Seeded /\ Work(m, e, fn, args) = SeededWork(m, e, fn, args)
      /\ \A a : Work(m, e, "round_try", a) = RoundAmount(m, e, a)
  BY SeedWorks
<1>2. SeededWork(m, e, fn, args) = Total(f, n)
  BY DEF SeededWork
<1>3. \A j \in 1 .. n : f[j] = RoundAmount(m, e, body[j].args)
  OBVIOUS
<1>4. n = Len(Body(e, fn, args, exc)) /\ \A j \in 1 .. n : IsRoundTry(m, e, body[j])
  OBVIOUS
<1> HIDE DEF f, n, body
<1>5. \A j \in 1 .. n : Spends(m, e, body[j], f[j])
  BY <1>1, <1>3, <1>4 DEF IsRoundTry, Spends
<1> QED
  BY <1>1, <1>2, <1>4, <1>5, SeedCalls DEF body
=============================================================================
