------------------------- MODULE CrashHandlersProofs ------------------------
(***************************************************************************)
(* For any set of threads and of signals without a handler: a crash is     *)
(* never hidden behind an exit code of main, and a handled signal kills    *)
(* the process only in a race or on an exhausted stack.                    *)
(***************************************************************************)
EXTENDS CrashHandlers, FiniteSetTheorems, TLAPS

\* Every variable stays in its domain.
TypeOK ==
  /\ action \in [Signals -> {"default", "handler"}]
  /\ at \in [Threads -> {"start", "unstarted", "running", "joining", "joined",
                         "writing", "exiting", "ended"}]
  /\ signal \in [Threads -> Handled \cup {0}]
  /\ messages \in [Signals -> Nat]
  /\ status \in {Alive} \cup { Exited(code) : code \in 0 .. 255 } \cup { Killed(s) : s \in Signals }
  /\ raised \in [Signals -> SUBSET Threads]
  /\ overrun \subseteq Threads

\* Thread t alone has raised s and is in the handler, before or after the message.
InHandler(t, s) ==
  /\ raised[s] = {t}
  /\ signal[t] = s
  /\ \/ at[t] = "writing" /\ messages[s] = 0
     \/ at[t] = "exiting" /\ messages[s] = 1

\* While the process runs, what has been raised is being handled.
RaisedInv ==
  \A s \in Signals :
    \/ raised[s] = {} /\ messages[s] = 0
    \/ s \in Handled /\ \E t \in Threads : InHandler(t, s)

HandlerInv ==
  \A t \in Threads : at[t] \in {"writing", "exiting"} =>
    signal[t] \in Handled /\ raised[signal[t]] = {t}

\* Once installed, a handler stays until its signal is raised.
ActionInv ==
  /\ at["main"] = "start" =>
       (\A s \in Signals : raised[s] = {}) /\ (\A w \in Workers : at[w] = "unstarted")
  /\ at["main"] # "start" => \A s \in Handled : raised[s] = {} <=> action[s] = "handler"
  /\ \A s \in Unhandled : action[s] = "default"

JoinInv == at["main"] = "joined" => \A w \in Workers : at[w] \in {"unstarted", "ended"}

RunInv == RaisedInv /\ HandlerInv /\ ActionInv /\ JoinInv /\ overrun = {}

IInv ==
  /\ TypeOK
  /\ Running => RunInv
  /\ CrashNeverHidden
  /\ SilentOnlyOnRace

-----------------------------------------------------------------------------

Places == {"start", "unstarted", "running", "joining", "joined", "writing", "exiting", "ended"}

\* A running process breaks neither promise.
LEMMA InitInv == Init => IInv
<1> SUFFICES ASSUME Init PROVE IInv
  OBVIOUS
<1>1. Running /\ TypeOK
  BY CrashAssumption DEF Init, Running, TypeOK, Signals, Handled, Threads
<1>2. RunInv
  BY CrashAssumption DEF Init, RunInv, RaisedInv, HandlerInv, ActionInv, JoinInv, Threads, Signals
<1>3. CrashNeverHidden /\ SilentOnlyOnRace
  BY <1>1 DEF Running, Alive, CrashNeverHidden, SilentOnlyOnRace
<1> QED
  BY <1>1, <1>2, <1>3 DEF IInv

\* A step of a thread outside the handler that raises nothing: main moves on, or a
\* worker starts under a running main or ends.
LEMMA QuietStep ==
  ASSUME IInv, NEW t \in Threads, NEW from, NEW to \in Places,
         from \notin {"writing", "exiting"}, to \notin {"writing", "exiting", "start"},
         Move(t, from, to), UNCHANGED << action, signal, messages, status, raised, overrun >>,
         t = "main" => /\ from # "start"
                       /\ to = "joined" => \A w \in Workers : at[w] \in {"unstarted", "ended"},
         t # "main" => at["main"] = "running" \/ (from = "running" /\ to = "ended")
  PROVE  IInv'
<1>1. /\ at[t] = from /\ Running /\ Running'
      /\ \A u \in Threads : at'[u] = IF u = t THEN to ELSE at[u]
      /\ at' \in [Threads -> Places]
  BY DEF Move, IInv, TypeOK, Running, Places
<1>2. TypeOK'
  BY <1>1 DEF IInv, TypeOK, Places
<1>3. RunInv
  BY <1>1 DEF IInv
<1>4. RaisedInv' /\ HandlerInv'
  <2>1. ASSUME NEW s \in Signals, NEW u \in Threads, InHandler(u, s) PROVE InHandler(u, s)'
    BY <1>1, <2>1 DEF InHandler
  <2> QED
    BY <1>1, <1>3, <2>1 DEF RunInv, RaisedInv, HandlerInv
<1>5. ActionInv' /\ JoinInv'
  <2>1. CASE t = "main"
    BY <1>1, <1>3, <2>1, CrashAssumption DEF RunInv, ActionInv, JoinInv, Threads
  <2>2. CASE t # "main"
    BY <1>1, <1>3, <2>2, CrashAssumption DEF RunInv, ActionInv, JoinInv, Threads
  <2> QED
    BY <2>1, <2>2
<1>6. CrashNeverHidden' /\ SilentOnlyOnRace'
  BY <1>1 DEF Running, Alive, CrashNeverHidden, SilentOnlyOnRace
<1> QED
  BY <1>2, <1>3, <1>4, <1>5, <1>6 DEF IInv, RunInv

LEMMA InstallKeeps == IInv /\ InstallCrashHandlers => IInv'
<1> SUFFICES ASSUME IInv, InstallCrashHandlers PROVE IInv'
  OBVIOUS
<1>1. /\ at["main"] = "start" /\ Running /\ Running'
      /\ \A u \in Threads : at'[u] = IF u = "main" THEN "running" ELSE at[u]
      /\ at' \in [Threads -> Places]
      /\ action' = [s \in Signals |-> IF s \in Handled THEN "handler" ELSE "default"]
      /\ UNCHANGED << signal, messages, status, raised, overrun >>
  BY DEF InstallCrashHandlers, Move, IInv, TypeOK, Running, Places, Threads
<1>2. TypeOK'
  BY <1>1 DEF IInv, TypeOK, Places
<1>3. RunInv /\ \A s \in Signals : raised[s] = {}
  BY <1>1 DEF IInv, RunInv, ActionInv
<1>4. RaisedInv' /\ HandlerInv'
  BY <1>1, <1>3 DEF RunInv, RaisedInv, HandlerInv, InHandler
<1>5. ActionInv' /\ JoinInv'
  BY <1>1, <1>3, CrashAssumption DEF ActionInv, JoinInv, Signals, Handled, Threads
<1>6. CrashNeverHidden' /\ SilentOnlyOnRace'
  BY <1>1 DEF Running, Alive, CrashNeverHidden, SilentOnlyOnRace
<1> QED
  BY <1>1, <1>2, <1>3, <1>4, <1>5, <1>6 DEF IInv, RunInv

\* main can return only past the join, when no thread is in the handler.
LEMMA ReturnKeeps == IInv /\ ReturnFromMain => IInv'
<1> SUFFICES ASSUME IInv, ReturnFromMain PROVE IInv'
  OBVIOUS
<1>1. PICK code \in MainCodes : status' = Exited(code)
  BY DEF ReturnFromMain
<1>2. /\ Running /\ at["main"] = "joined" /\ code \in 0 .. 127
      /\ UNCHANGED << action, at, signal, messages, raised, overrun >>
  BY CrashAssumption DEF ReturnFromMain
<1>3. NothingRaised
  BY <1>2 DEF IInv, RunInv, RaisedInv, InHandler, JoinInv, NothingRaised, Threads
<1>4. TypeOK'
  BY <1>1, <1>2 DEF IInv, TypeOK
<1>5. ~Running' /\ CrashNeverHidden' /\ SilentOnlyOnRace'
  BY <1>1, <1>2, <1>3
     DEF Running, Alive, Exited, CrashNeverHidden, SilentOnlyOnRace, NothingRaised
<1> QED
  BY <1>4, <1>5 DEF IInv

LEMMA PairCardinality ==
  ASSUME NEW a, NEW b, a # b
  PROVE  Cardinality({a} \cup {b}) = 2
<1>1. IsFiniteSet({a}) /\ Cardinality({a}) = 1
  BY FS_Singleton
<1>2. Cardinality({a} \cup {b}) = Cardinality({a}) + 1
  BY <1>1, FS_AddElement
<1> QED
  BY <1>1, <1>2

LEMMA RaiseKeeps ==
  ASSUME IInv, NEW t \in Threads, NEW s \in Signals, Raise(t, s)
  PROVE  IInv'
<1>1. /\ Running /\ at[t] \in {"running", "joined"} /\ t \in Threads
      /\ raised' = [raised EXCEPT ![s] = @ \cup {t}]
      /\ UNCHANGED << messages, overrun >>
  BY DEF Raise
<1>2. RunInv /\ at["main"] # "start"
  BY <1>1, CrashAssumption DEF IInv, RunInv, ActionInv, Threads
<1>3. /\ raised[s] \in SUBSET Threads
      /\ raised' \in [Signals -> SUBSET Threads]
      /\ \A r \in Signals : raised'[r] = IF r = s THEN raised[s] \cup {t} ELSE raised[r]
  BY <1>1 DEF IInv, TypeOK
<1>4. CASE action[s] = "handler"
  <2>1. /\ action' = [action EXCEPT ![s] = "default"]
        /\ at' = [at EXCEPT ![t] = "writing"]
        /\ signal' = [signal EXCEPT ![t] = s]
        /\ status' = status /\ Running'
    BY <1>1, <1>4 DEF Raise, Running
  <2>2. s \in Handled
    BY <1>2, <1>4 DEF RunInv, ActionInv, Signals
  <2>3. /\ \A u \in Threads : /\ at'[u] = IF u = t THEN "writing" ELSE at[u]
                              /\ signal'[u] = IF u = t THEN s ELSE signal[u]
        /\ \A r \in Signals : action'[r] = IF r = s THEN "default" ELSE action[r]
        /\ TypeOK'
    BY <1>1, <1>3, <2>1, <2>2 DEF IInv, TypeOK
  <2>4. CASE raised[s] = {}
    <3>1. raised'[s] = {t} /\ messages'[s] = 0
      BY <1>1, <1>2, <1>3, <2>4 DEF RunInv, RaisedInv, InHandler
    <3>2. ASSUME NEW r \in Signals, r # s, NEW u \in Threads, InHandler(u, r) PROVE InHandler(u, r)'
      BY <1>1, <1>3, <2>3, <3>2 DEF InHandler
    <3>3. InHandler(t, s)'
      BY <2>3, <3>1 DEF InHandler
    <3>4. RaisedInv'
      BY <1>1, <1>2, <1>3, <2>2, <3>2, <3>3 DEF RunInv, RaisedInv
    <3>5. HandlerInv'
      BY <1>2, <1>3, <2>2, <2>3, <2>4, <3>1 DEF RunInv, HandlerInv, Signals
    <3>6. ActionInv' /\ JoinInv'
      BY <1>1, <1>2, <1>3, <2>2, <2>3, <3>1, CrashAssumption
         DEF RunInv, ActionInv, JoinInv, Threads, Signals, Handled
    <3>7. CrashNeverHidden' /\ SilentOnlyOnRace'
      BY <2>1 DEF Running, Alive, CrashNeverHidden, SilentOnlyOnRace
    <3> QED
      BY <1>1, <1>2, <2>1, <2>3, <3>4, <3>5, <3>6, <3>7 DEF IInv, RunInv
  <2>5. raised[s] = {}
    BY <1>2, <1>4, <2>2 DEF RunInv, ActionInv
  <2> QED
    BY <2>4, <2>5
<1>5. CASE action[s] # "handler"
  <2>1. status' = Killed(s) /\ UNCHANGED << action, at, signal >>
    BY <1>5 DEF Raise
  <2>2. TypeOK'
    BY <1>1, <1>3, <2>1 DEF IInv, TypeOK
  <2>3. ASSUME s \in Handled PROVE Cardinality(raised'[s]) = 2
    <3>1. raised[s] # {}
      BY <1>2, <1>5, <2>3 DEF RunInv, ActionInv
    <3>2. PICK u \in Threads : raised[s] = {u} /\ at[u] \in {"writing", "exiting"}
      BY <1>2, <3>1 DEF RunInv, RaisedInv, InHandler
    <3>3. u # t /\ raised'[s] = {u} \cup {t}
      BY <1>1, <1>3, <3>2
    <3>4. Cardinality({u} \cup {t}) = 2
      BY <3>3, PairCardinality, Zenon
    <3> QED
      BY <3>3, <3>4, Zenon
  <2>4. ~Running' /\ CrashNeverHidden' /\ SilentOnlyOnRace'
    BY <1>3, <2>1, <2>3 DEF Running, Alive, Killed, CrashNeverHidden, SilentOnlyOnRace
  <2> QED
    BY <2>2, <2>4 DEF IInv
<1> QED
  BY <1>4, <1>5

LEMMA OverrunKeeps ==
  ASSUME IInv, NEW t \in Threads, OverrunStack(t)
  PROVE  IInv'
<1>1. /\ raised' = [raised EXCEPT ![11] = @ \cup {t}]
      /\ overrun' = overrun \cup {t} /\ status' = Killed(11)
      /\ UNCHANGED << action, at, signal, messages >>
  BY DEF OverrunStack
<1>2. TypeOK'
  BY <1>1 DEF IInv, TypeOK, Signals, Handled
<1>3. ~Running' /\ CrashNeverHidden' /\ SilentOnlyOnRace'
  BY <1>1 DEF Running, Alive, Killed, CrashNeverHidden, SilentOnlyOnRace
<1> QED
  BY <1>2, <1>3 DEF IInv

LEMMA WriteKeeps ==
  ASSUME IInv, NEW t \in Threads, WriteMessage(t)
  PROVE  IInv'
<1>1. /\ at[t] = "writing" /\ Running /\ Running'
      /\ \A u \in Threads : at'[u] = IF u = t THEN "exiting" ELSE at[u]
      /\ at' \in [Threads -> Places]
      /\ messages' = [messages EXCEPT ![signal[t]] = @ + 1]
      /\ UNCHANGED << action, signal, status, raised, overrun >>
  BY DEF WriteMessage, Move, IInv, TypeOK, Running, Places
<1>2. RunInv /\ signal[t] \in Handled /\ raised[signal[t]] = {t}
  BY <1>1 DEF IInv, RunInv, HandlerInv
<1>3. /\ messages' \in [Signals -> Nat]
      /\ \A s \in Signals : messages'[s] = IF s = signal[t] THEN messages[s] + 1 ELSE messages[s]
      /\ signal[t] \in Signals
  BY <1>1, <1>2 DEF IInv, TypeOK, Signals
<1>4. TypeOK'
  BY <1>1, <1>3 DEF IInv, TypeOK, Places
<1>5. RaisedInv'
  <2>1. ASSUME NEW s \in Signals, s # signal[t], NEW u \in Threads, InHandler(u, s)
        PROVE  InHandler(u, s)'
    BY <1>1, <1>3, <2>1 DEF InHandler
  <2>2. InHandler(t, signal[t])'
    <3>1. messages[signal[t]] = 0
      BY <1>1, <1>2, <1>3 DEF RunInv, RaisedInv, InHandler
    <3> QED
      BY <1>1, <1>2, <1>3, <3>1 DEF InHandler
  <2> QED
    BY <1>1, <1>2, <1>3, <2>1, <2>2 DEF RunInv, RaisedInv
<1>6. HandlerInv' /\ ActionInv' /\ JoinInv'
  BY <1>1, <1>2, CrashAssumption DEF RunInv, HandlerInv, ActionInv, JoinInv, Threads
<1>7. CrashNeverHidden' /\ SilentOnlyOnRace'
  BY <1>1 DEF Running, Alive, CrashNeverHidden, SilentOnlyOnRace
<1> QED
  BY <1>1, <1>2, <1>4, <1>5, <1>6, <1>7 DEF IInv, RunInv

LEMMA ExitKeeps ==
  ASSUME IInv, NEW t \in Threads, ExitHandler(t)
  PROVE  IInv'
<1>1. /\ at[t] = "exiting" /\ Running /\ status' = Exited(128 + signal[t])
      /\ UNCHANGED << action, at, signal, messages, raised, overrun >>
  BY DEF ExitHandler
<1>2. signal[t] \in Handled /\ signal[t] \in Signals /\ raised[signal[t]] = {t}
  BY <1>1 DEF IInv, RunInv, HandlerInv, Signals
<1>3. messages[signal[t]] = 1
  BY <1>1, <1>2 DEF IInv, RunInv, RaisedInv, InHandler
<1>4. TypeOK'
  BY <1>1, <1>2 DEF IInv, TypeOK, Handled
<1>5. ~Running' /\ CrashNeverHidden' /\ SilentOnlyOnRace'
  <2>1. signal[t] \in Nat /\ (128 + signal[t]) - 128 = signal[t] /\ ~(128 + signal[t] < 128)
    BY <1>2 DEF Handled
  <2> QED
    BY <1>1, <1>2, <1>3, <2>1 DEF Running, Alive, Exited, CrashNeverHidden, SilentOnlyOnRace
<1> QED
  BY <1>4, <1>5 DEF IInv

LEMMA StepInv == IInv /\ [Next]_vars => IInv'
<1> SUFFICES ASSUME IInv, [Next]_vars PROVE IInv'
  OBVIOUS
<1>1. CASE InstallCrashHandlers
  BY <1>1, InstallKeeps
<1>2. CASE BeginJoin
  BY <1>2, QuietStep DEF BeginJoin, Threads, Places
<1>3. CASE EndJoin
  BY <1>3, QuietStep DEF EndJoin, Threads, Places
<1>4. CASE ReturnFromMain
  BY <1>4, ReturnKeeps
<1>5. ASSUME NEW w \in Workers, StartWorker(w) PROVE IInv'
  BY <1>5, QuietStep, CrashAssumption DEF StartWorker, Threads, Places
<1>6. ASSUME NEW w \in Workers, EndWorker(w) PROVE IInv'
  BY <1>6, QuietStep, CrashAssumption DEF EndWorker, Threads, Places
<1>7. ASSUME NEW t \in Threads, Handler(t) PROVE IInv'
  BY <1>7, WriteKeeps, ExitKeeps DEF Handler
<1>8. ASSUME NEW t \in Threads, OverrunStack(t) PROVE IInv'
  BY <1>8, OverrunKeeps
<1>9. ASSUME NEW t \in Threads, NEW s \in Signals, Raise(t, s) PROVE IInv'
  BY <1>9, RaiseKeeps
<1>10. CASE UNCHANGED vars
  BY <1>10 DEF vars, IInv, TypeOK, Running, RunInv, RaisedInv, InHandler, HandlerInv, ActionInv,
     JoinInv, CrashNeverHidden, NothingRaised, SilentOnlyOnRace
<1> QED
  BY <1>1, <1>2, <1>3, <1>4, <1>5, <1>6, <1>7, <1>8, <1>9, <1>10 DEF Next, Program

-----------------------------------------------------------------------------

\* For any number of threads: a crash is never hidden behind main's exit code, and
\* the handler's exit code comes after its one message.
THEOREM CrashIsReported == Spec => []CrashNeverHidden
<1>1. IInv => CrashNeverHidden
  BY DEF IInv
<1> QED
  BY <1>1, InitInv, StepInv, PTL DEF Spec

\* A handled signal kills the process without its exit code only when exactly two
\* threads have raised it or a stack overflowed.
THEOREM SilenceIsARace == Spec => []SilentOnlyOnRace
<1>1. IInv => SilentOnlyOnRace
  BY DEF IInv
<1> QED
  BY <1>1, InitInv, StepInv, PTL DEF Spec
=============================================================================
