---------------------------- MODULE CrashHandlers ---------------------------
(***************************************************************************)
(* src/driver.cpp: installCrashHandlers and signalHandler, under the       *)
(* threads of the process: main, which returns an exit code, and the       *)
(* workers of the stress suite, which runThreadedStress joins before it    *)
(* goes on.  A fatal signal is raised by the thread that crashes; the      *)
(* kernel's part (external) is the action on delivery, SA_RESETHAND and    *)
(* that _exit or an unhandled fatal signal ends every thread.              *)
(***************************************************************************)
EXTENDS Integers, FiniteSets

CONSTANTS
  Workers,   \* the threads main starts
  Unhandled, \* fatal signals the driver installs no handler for
  MainCodes  \* what main may return

ASSUME CrashAssumption ==
  /\ "main" \notin Workers
  /\ Unhandled \subseteq Nat \ {4, 6, 11}
  /\ MainCodes \subseteq 0 .. 127

Threads == Workers \cup {"main"}

\* SIGILL, SIGABRT, SIGSEGV.
Handled == {4, 6, 11}
Signals == Handled \cup Unhandled

VARIABLES
  action,   \* the process's action for each signal
  at,       \* where each thread is
  signal,   \* the signal a thread's handler was called with, or 0
  messages, \* how often the handler's text for each signal was written
  status,   \* of the process: still running, exited with a code, killed by a signal
  raised,   \* the threads that have raised each signal (history)
  overrun   \* the threads that have run out of stack (history)

vars == << action, at, signal, messages, status, raised, overrun >>

Alive == [ended |-> "no", code |-> 0]
Exited(code) == [ended |-> "exit", code |-> code]
Killed(s) == [ended |-> "signal", code |-> s]

Init ==
  /\ action = [s \in Signals |-> "default"]
  /\ at = [t \in Threads |-> IF t = "main" THEN "start" ELSE "unstarted"]
  /\ signal = [t \in Threads |-> 0]
  /\ messages = [s \in Signals |-> 0]
  /\ status = Alive
  /\ raised = [s \in Signals |-> {}]
  /\ overrun = {}

Running == status = Alive
Move(t, from, to) == Running /\ at[t] = from /\ at' = [at EXCEPT ![t] = to]

\* Mutant of InstallCrashHandlers: SIGABRT is forgotten.
InstallCrashHandlersTwo ==
  /\ Move("main", "start", "running")
  /\ action' = [s \in Signals |-> IF s \in {4, 11} THEN "handler" ELSE "default"]
  /\ UNCHANGED << signal, messages, status, raised, overrun >>

InstallCrashHandlers ==
  /\ Move("main", "start", "running")
  /\ action' = [s \in Signals |-> IF s \in Handled THEN "handler" ELSE "default"]
  /\ UNCHANGED << signal, messages, status, raised, overrun >>

\* The std::thread constructors and joins of runThreadedStress.
StartWorker(w) ==
  /\ at["main"] = "running"
  /\ Move(w, "unstarted", "running")
  /\ UNCHANGED << action, signal, messages, status, raised, overrun >>

BeginJoin ==
  /\ Move("main", "running", "joining")
  /\ UNCHANGED << action, signal, messages, status, raised, overrun >>

EndWorker(w) ==
  /\ Move(w, "running", "ended")
  /\ UNCHANGED << action, signal, messages, status, raised, overrun >>

\* Mutant of EndJoin: the workers are detached.
EndJoinDetached ==
  /\ Move("main", "joining", "joined")
  /\ UNCHANGED << action, signal, messages, status, raised, overrun >>

EndJoin ==
  /\ \A w \in Workers : at[w] \in {"unstarted", "ended"}
  /\ Move("main", "joining", "joined")
  /\ UNCHANGED << action, signal, messages, status, raised, overrun >>

ReturnFromMain ==
  /\ Running
  /\ at["main"] = "joined"
  /\ \E code \in MainCodes : status' = Exited(code)
  /\ UNCHANGED << action, at, signal, messages, raised, overrun >>

\* Thread t crashes: it enters the handler, whose entry resets the action, or the
\* default action ends the process.
Raise(t, s) ==
  /\ Running
  /\ at[t] \in {"running", "joined"}
  /\ raised' = [raised EXCEPT ![s] = @ \cup {t}]
  /\ IF action[s] = "handler"
     THEN /\ action' = [action EXCEPT ![s] = "default"]
          /\ at' = [at EXCEPT ![t] = "writing"]
          /\ signal' = [signal EXCEPT ![t] = s]
          /\ UNCHANGED status
     ELSE status' = Killed(s) /\ UNCHANGED << action, at, signal >>
  /\ UNCHANGED << messages, overrun >>

\* Thread t runs out of stack.  The handler has no stack of its own (no SA_ONSTACK):
\* the kernel cannot call it and SIGSEGV ends the process.
OverrunStack(t) ==
  /\ Running
  /\ at[t] \in {"running", "joined"}
  /\ raised' = [raised EXCEPT ![11] = @ \cup {t}]
  /\ overrun' = overrun \cup {t}
  /\ status' = Killed(11)
  /\ UNCHANGED << action, at, signal, messages >>

\* Mutant of WriteMessage: the handler returns after its message.
WriteMessageReturn(t) ==
  /\ Move(t, "writing", "running")
  /\ messages' = [messages EXCEPT ![signal[t]] = @ + 1]
  /\ UNCHANGED << action, signal, status, raised, overrun >>

WriteMessage(t) ==
  /\ Move(t, "writing", "exiting")
  /\ messages' = [messages EXCEPT ![signal[t]] = @ + 1]
  /\ UNCHANGED << action, signal, status, raised, overrun >>

\* _exit(128 + signal_number)
ExitHandler(t) ==
  /\ Running
  /\ at[t] = "exiting"
  /\ status' = Exited(128 + signal[t])
  /\ UNCHANGED << action, at, signal, messages, raised, overrun >>

Program ==
  \/ InstallCrashHandlers \/ BeginJoin \/ EndJoin \/ ReturnFromMain
  \/ \E w \in Workers : StartWorker(w) \/ EndWorker(w)

Handler(t) == WriteMessage(t) \/ ExitHandler(t)

Next ==
  \/ Program
  \/ \E t \in Threads : Handler(t) \/ OverrunStack(t) \/ \E s \in Signals : Raise(t, s)

\* A thread in the handler is scheduled; nothing has to crash, and a suite may hang.
Spec == Init /\ [][Next]_vars /\ \A t \in Threads : WF_vars(Handler(t))

(* ----------------------------- Properties ----------------------------- *)

NothingRaised == \A s \in Signals : raised[s] = {}

\* A process in which any thread has crashed never exits as if none had: main waits
\* for a worker that is stuck in the handler and so cannot return a code first; and
\* an exit code of the handler comes after the one message for that signal.
CrashNeverHidden ==
  status.ended = "exit" =>
    IF status.code < 128 THEN NothingRaised
    ELSE raised[status.code - 128] # {} /\ messages[status.code - 128] = 1

\* A signal the driver handles ends the process without its exit code only if a
\* stack overflowed or two threads have raised it: the second one finds the action
\* reset while the first is still between the entry of the handler and _exit.
SilentOnlyOnRace ==
  status.ended = "signal" /\ status.code \in Handled =>
    overrun # {} \/ Cardinality(raised[status.code]) = 2

\* A crash ends the process, whatever the other threads wait for.
CrashEnds == (~NothingRaised) ~> ~Running
=============================================================================
