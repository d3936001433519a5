------------------------ MODULE StressThreadsProofs -------------------------
(***************************************************************************)
(* For every number of iterations, amount of work and depth of walks: the  *)
(* mutex makes the counters exact, and finishResult reads them when no     *)
(* worker runs.                                                            *)
(***************************************************************************)
EXTENDS StressThreads, TLAPS

Critical == {"load", "store", "depth", "shallow", "unlock"}

\* Mutual exclusion: a worker is in a critical section exactly while it owns the lock.
LockInv == \A w \in Workers : at[w] \in Critical <=> lock = w

NoneStarted == \A w \in Workers : at[w] = "unstarted"
AllDone == \A w \in Workers : at[w] = "done"

\* Which workers run at each point of the call.
CallerInv ==
  /\ caller \in {"reset", "body", "catch"} => NoneStarted
  /\ caller = "start" =>
       /\ turn # "none"
       /\ at["t0"] = "unstarted" <=> turn = "t0"
       /\ at["t1"] = "unstarted" <=> turn # "t2"
       /\ at["t2"] = "unstarted"
  /\ caller = "join" =>
       /\ turn # "none"
       /\ \A w \in Workers : at[w] # "unstarted"
       /\ turn # "t0" => at["t0"] = "done"
       /\ turn = "t2" => at["t1"] = "done"
  /\ caller \in {"finish", "returned"} => NoneStarted \/ AllDone

\* A round is complete one step before it is taken off the worker's list.
Settling(w) == IF at[w] = "unlock" /\ ~Capturing(w) THEN 1 ELSE 0

WorkInv ==
  \A w \in Workers :
    /\ at[w] = "unstarted" => completed[w] = 0
    /\ at[w] # "unstarted" => completed[w] + rounds[w] = ThreadIterations + Settling(w)
    /\ at[w] \in Critical => rounds[w] > 0
    /\ at[w] = "done" => rounds[w] = 0
    /\ at[w] \in {"depth", "shallow"} => Capturing(w)
    /\ at[w] = "store" =>
         reg[w] = IF Capturing(w) THEN metrics.captures ELSE metrics.rounds

DepthsAgree == metrics.minDepth < 5 <=> metrics.shallow > 0

\* The metrics are what has been recorded, but for a shallow walk between its two
\* assignments.
CountInv ==
  /\ metrics.captures = Total(captured)
  /\ metrics.shallow = Total(shallowed)
  /\ metrics.rounds = Total(completed)
  /\ completed["caller"] = 0
  /\ (\A w \in Workers : at[w] # "shallow") => DepthsAgree
  /\ \A w \in Workers : at[w] = "shallow" =>
       (metrics.minDepth < 5 <=> metrics.shallow > 0 \/ walk[w] < 5)

\* Nothing is recorded before the counters are reset.
ResetInv == caller = "reset" => captured = None /\ shallowed = None /\ completed = None

ReportInv == caller = "returned" => report = metrics

IInv == TypeOK /\ LockInv /\ CallerInv /\ WorkInv /\ CountInv /\ ResetInv /\ ReportInv

-----------------------------------------------------------------------------

LEMMA Halved ==
  ASSUME NEW i \in Nat
  PROVE  i \div 2 \in Nat /\ 2 * (i \div 2) <= i /\ i <= 2 * (i \div 2) + 1
OBVIOUS

LEMMA RoundsSuffice ==
  ASSUME iterations \in Nat \ {0}
  PROVE  ThreadIterations \in Nat /\ ThreadIterations > 0 /\ 3 * ThreadIterations >= iterations
BY Halved DEF ThreadIterations, Max2

LEMMA TotalNat ==
  ASSUME NEW f \in [Threads -> Nat]
  PROVE  /\ Total(f) \in Nat
         /\ f["caller"] \in Nat /\ f["t0"] \in Nat /\ f["t1"] \in Nat /\ f["t2"] \in Nat
BY DEF Total, Threads, Workers

\* One more recorded by one thread is one more in total.
LEMMA TotalBump ==
  ASSUME NEW f \in [Threads -> Nat], NEW t \in Threads
  PROVE  /\ [f EXCEPT ![t] = @ + 1] \in [Threads -> Nat]
         /\ Total([f EXCEPT ![t] = @ + 1]) = Total(f) + 1
<1>1. f["caller"] \in Nat /\ f["t0"] \in Nat /\ f["t1"] \in Nat /\ f["t2"] \in Nat
  BY TotalNat
<1>2. t \in {"caller", "t0", "t1", "t2"}
  BY DEF Threads, Workers
<1> QED
  BY <1>1, <1>2 DEF Total, Threads, Workers

LEMMA NoneRecorded ==
  /\ None \in [Threads -> Nat] /\ Total(None) = 0 /\ None["caller"] = 0
  /\ \A w \in Workers : None[w] = 0
BY DEF None, Total, Threads, Workers

LEMMA InitInv == Init => IInv
<1> SUFFICES ASSUME Init PROVE IInv
  OBVIOUS
<1>1. iterations \in Nat \ {0}
  BY ThreadsAssumption DEF Init, Max2
<1>2. TypeOK
  BY <1>1, NoneRecorded DEF Init, TypeOK, Fresh
<1> QED
  BY <1>2, NoneRecorded DEF Init, IInv, LockInv, CallerInv, NoneStarted, WorkInv, CountInv,
     DepthsAgree, ResetInv, ReportInv, Fresh, Critical, Workers

LEMMA ResetKeeps == IInv /\ Reset => IInv'
<1> SUFFICES ASSUME IInv, Reset PROVE IInv'
  OBVIOUS
<1>1. NoneStarted /\ caller = "reset" /\ caller' = "body" /\ metrics' = Fresh
  BY DEF IInv, CallerInv, Reset
<1>2. TypeOK'
  BY <1>1 DEF IInv, TypeOK, Reset, Fresh, workVars
<1>3. LockInv' /\ CallerInv' /\ ResetInv' /\ ReportInv'
  BY <1>1 DEF IInv, Reset, LockInv, CallerInv, NoneStarted, ResetInv, ReportInv, workVars
<1>4. WorkInv'
  BY <1>1 DEF IInv, Reset, WorkInv, NoneStarted, Settling, Capturing, ThreadIterations, workVars,
     Critical
<1>5. CountInv'
  BY <1>1, NoneRecorded
     DEF IInv, Reset, CountInv, DepthsAgree, NoneStarted, ResetInv, Fresh, workVars
<1> QED
  BY <1>2, <1>3, <1>4, <1>5 DEF IInv

\* A capture of the caller while no worker runs keeps everything but where it is.
LEMMA CallerCapturesKeeps ==
  ASSUME IInv, NoneStarted, NEW depth \in Depths, CallerCaptures(depth),
         caller' \in {"start", "finish"},
         UNCHANGED << iterations, report, workVars, lock >>,
         turn' \in Workers \cup {"none"}
  PROVE  TypeOK' /\ LockInv' /\ WorkInv' /\ CountInv' /\ ResetInv' /\ ReportInv'
<1>1. depth \in Nat /\ "caller" \in Threads
  BY ThreadsAssumption DEF Threads
<1>2. /\ captured' = [captured EXCEPT !["caller"] = @ + 1]
      /\ captured \in [Threads -> Nat] /\ shallowed \in [Threads -> Nat]
  BY DEF CallerCaptures, IInv, TypeOK
<1>3. captured' \in [Threads -> Nat] /\ Total(captured') = Total(captured) + 1
  BY <1>1, <1>2, TotalBump
<1>4. /\ shallowed' \in [Threads -> Nat]
      /\ Total(shallowed') = Total(shallowed) + (IF depth < 5 THEN 1 ELSE 0)
  <2>1. CASE depth < 5
    <3>1. shallowed' = [shallowed EXCEPT !["caller"] = @ + 1]
      BY <2>1 DEF CallerCaptures
    <3> QED
      BY <1>1, <1>2, <2>1, <3>1, TotalBump
  <2>2. CASE ~(depth < 5)
    BY <1>2, <2>2, TotalNat DEF CallerCaptures
  <2> QED
    BY <2>1, <2>2
<1>5. /\ metrics \in [captures : Nat, minDepth : Nat, shallow : Nat, rounds : Nat]
      /\ metrics' = [metrics EXCEPT !.captures = @ + 1, !.minDepth = Min2(@, depth),
                                    !.shallow = IF depth < 5 THEN @ + 1 ELSE @]
      /\ completed' = completed
  BY DEF CallerCaptures, IInv, TypeOK
<1>6. /\ metrics' \in [captures : Nat, minDepth : Nat, shallow : Nat, rounds : Nat]
      /\ metrics'.captures = metrics.captures + 1
      /\ metrics'.rounds = metrics.rounds
      /\ metrics'.shallow = metrics.shallow + (IF depth < 5 THEN 1 ELSE 0)
      /\ metrics'.minDepth < 5 <=> metrics.minDepth < 5 \/ depth < 5
  <2>1. /\ metrics.captures \in Nat /\ metrics.minDepth \in Nat
        /\ metrics.shallow \in Nat /\ metrics.rounds \in Nat
    BY <1>5
  <2>2. Min2(metrics.minDepth, depth) \in Nat
        /\ (Min2(metrics.minDepth, depth) < 5 <=> metrics.minDepth < 5 \/ depth < 5)
    BY <1>1, <2>1 DEF Min2
  <2>3. metrics' = [captures |-> metrics.captures + 1,
                    minDepth |-> Min2(metrics.minDepth, depth),
                    shallow |-> IF depth < 5 THEN metrics.shallow + 1 ELSE metrics.shallow,
                    rounds |-> metrics.rounds]
    BY <1>5
  <2>4. (IF depth < 5 THEN metrics.shallow + 1 ELSE metrics.shallow)
          = metrics.shallow + (IF depth < 5 THEN 1 ELSE 0)
    BY <2>1
  <2>5. metrics.shallow + (IF depth < 5 THEN 1 ELSE 0) \in Nat
    BY <2>1
  <2> QED
    BY <2>1, <2>2, <2>3, <2>4, <2>5
<1>7. TypeOK'
  BY <1>3, <1>4, <1>5, <1>6 DEF IInv, TypeOK, workVars
<1>8. LockInv' /\ ResetInv' /\ ReportInv'
  BY DEF IInv, LockInv, ResetInv, ReportInv, workVars
<1>9. WorkInv'
  BY <1>5 DEF IInv, WorkInv, NoneStarted, Settling, Capturing, ThreadIterations, workVars, Critical
<1>10. DepthsAgree
  BY DEF IInv, CountInv, NoneStarted
<1>11. metrics.shallow \in Nat
  BY <1>5
<1>12. DepthsAgree'
  BY <1>6, <1>10, <1>11 DEF DepthsAgree
<1>13. CountInv'
  BY <1>3, <1>4, <1>5, <1>6, <1>12 DEF IInv, CountInv, NoneStarted, workVars
<1> QED
  BY <1>7, <1>8, <1>9, <1>13

LEMMA RunBodyKeeps == IInv /\ RunBody => IInv'
<1> SUFFICES ASSUME IInv, RunBody PROVE IInv'
  OBVIOUS
<1>1. NoneStarted /\ caller' = "start" /\ turn' = "t0"
  BY DEF IInv, CallerInv, RunBody
<1>2. PICK depth \in Depths : CallerCaptures(depth)
  BY DEF RunBody
<1>3. TypeOK' /\ LockInv' /\ WorkInv' /\ CountInv' /\ ResetInv' /\ ReportInv'
  BY <1>1, <1>2, CallerCapturesKeeps DEF RunBody, Workers
<1>4. CallerInv'
  BY <1>1 DEF CallerInv, NoneStarted, RunBody, Workers, workVars
<1> QED
  BY <1>3, <1>4 DEF IInv

LEMMA CatchFailureKeeps == IInv /\ CatchFailure => IInv'
<1> SUFFICES ASSUME IInv, CatchFailure PROVE IInv'
  OBVIOUS
<1>1. NoneStarted /\ caller' = "finish" /\ turn' = turn
  BY DEF IInv, CallerInv, CatchFailure
<1>2. PICK depth \in Depths : CallerCaptures(depth)
  BY DEF CatchFailure
<1>3. TypeOK' /\ LockInv' /\ WorkInv' /\ CountInv' /\ ResetInv' /\ ReportInv'
  BY <1>1, <1>2, CallerCapturesKeeps DEF CatchFailure, IInv, TypeOK
<1>4. CallerInv'
  BY <1>1 DEF CallerInv, NoneStarted, CatchFailure, workVars
<1> QED
  BY <1>3, <1>4 DEF IInv

LEMMA StartThreadKeeps == IInv /\ StartThread => IInv'
<1> SUFFICES ASSUME IInv, StartThread PROVE IInv'
  OBVIOUS
<1>1. /\ caller = "start" /\ turn \in Workers /\ at[turn] = "unstarted"
      /\ at' = [at EXCEPT ![turn] = "running"]
      /\ left' = [left EXCEPT ![turn] = CapturesPerRound]
      /\ rounds' = [rounds EXCEPT ![turn] = ThreadIterations]
      /\ UNCHANGED << iterations, report, reg, walk, lock, metrics, captured, shallowed, completed >>
  BY DEF IInv, TypeOK, CallerInv, StartThread, Workers
<1>2. ThreadIterations \in Nat /\ CapturesPerRound \in Nat /\ ThreadIterations' = ThreadIterations
  BY <1>1, RoundsSuffice, ThreadsAssumption DEF IInv, TypeOK, ThreadIterations
<1>3. /\ caller' \in {"start", "join"} /\ turn' \in Workers
      /\ turn = "t0" => caller' = "start" /\ turn' = "t1"
      /\ turn = "t1" => caller' = "start" /\ turn' = "t2"
      /\ turn = "t2" => caller' = "join" /\ turn' = "t0"
  BY <1>1 DEF StartThread, After, Workers
<1>4. TypeOK'
  BY <1>1, <1>2, <1>3 DEF IInv, TypeOK
<1>5. LockInv' /\ ResetInv' /\ ReportInv'
  BY <1>1, <1>3 DEF IInv, TypeOK, LockInv, ResetInv, ReportInv, Critical
<1>6. CallerInv'
  BY <1>1, <1>3 DEF IInv, TypeOK, CallerInv, Workers
<1>7. WorkInv'
  <2> SUFFICES ASSUME NEW w \in Workers
               PROVE  /\ at'[w] = "unstarted" => completed'[w] = 0
                      /\ at'[w] # "unstarted" =>
                           completed'[w] + rounds'[w] = ThreadIterations' + Settling(w)'
                      /\ at'[w] \in Critical => rounds'[w] > 0
                      /\ at'[w] = "done" => rounds'[w] = 0
                      /\ at'[w] \in {"depth", "shallow"} => Capturing(w)'
                      /\ at'[w] = "store" =>
                           reg'[w] = IF Capturing(w)' THEN metrics'.captures ELSE metrics'.rounds
    BY DEF WorkInv
  <2>1. CASE w = turn
    BY <1>1, <1>2, <2>1 DEF IInv, TypeOK, WorkInv, Settling, Critical
  <2>2. CASE w # turn
    BY <1>1, <1>2, <2>2 DEF IInv, TypeOK, WorkInv, Settling, Capturing, Critical
  <2> QED
    BY <2>1, <2>2
<1>8. CountInv'
  BY <1>1 DEF IInv, TypeOK, CountInv, DepthsAgree
<1> QED
  BY <1>4, <1>5, <1>6, <1>7, <1>8 DEF IInv

LEMMA StartThreadFailsKeeps == IInv /\ StartThreadFails => IInv'
<1> SUFFICES ASSUME IInv, StartThreadFails PROVE IInv'
  OBVIOUS
<1>1. /\ caller = "start" /\ turn \in Workers
      /\ caller' = IF turn = "t0" THEN "catch" ELSE "terminated"
      /\ UNCHANGED << iterations, turn, report, workVars, lock, metrics, captured, shallowed, completed >>
  BY DEF IInv, TypeOK, CallerInv, StartThreadFails
<1>2. turn = "t0" => NoneStarted
  BY <1>1 DEF IInv, TypeOK, CallerInv, NoneStarted, Workers
<1>3. TypeOK' /\ LockInv' /\ ResetInv' /\ ReportInv'
  BY <1>1 DEF IInv, TypeOK, LockInv, ResetInv, ReportInv, workVars
<1>4. CallerInv'
  BY <1>1, <1>2 DEF CallerInv, NoneStarted, workVars
<1>5. WorkInv' /\ CountInv'
  BY <1>1 DEF IInv, WorkInv, CountInv, DepthsAgree, Settling, Capturing, ThreadIterations, workVars
<1> QED
  BY <1>3, <1>4, <1>5 DEF IInv

LEMMA JoinThreadKeeps == IInv /\ JoinThread => IInv'
<1> SUFFICES ASSUME IInv, JoinThread PROVE IInv'
  OBVIOUS
<1>1. /\ caller = "join" /\ turn \in Workers /\ at[turn] = "done"
      /\ UNCHANGED << iterations, report, workVars, lock, metrics, captured, shallowed, completed >>
  BY DEF IInv, TypeOK, CallerInv, JoinThread
<1>2. /\ turn = "t0" => caller' = "join" /\ turn' = "t1"
      /\ turn = "t1" => caller' = "join" /\ turn' = "t2"
      /\ turn = "t2" => caller' = "finish" /\ turn' = "none"
  BY <1>1 DEF JoinThread, After, Workers
<1>3. TypeOK' /\ LockInv' /\ ResetInv' /\ ReportInv'
  BY <1>1, <1>2 DEF IInv, TypeOK, LockInv, ResetInv, ReportInv, workVars, Workers
<1>4. CallerInv'
  BY <1>1, <1>2 DEF IInv, CallerInv, AllDone, Workers, workVars
<1>5. WorkInv' /\ CountInv'
  BY <1>1 DEF IInv, WorkInv, CountInv, DepthsAgree, Settling, Capturing, ThreadIterations, workVars
<1> QED
  BY <1>3, <1>4, <1>5 DEF IInv

LEMMA FinishResultKeeps == IInv /\ FinishResult => IInv'
<1> SUFFICES ASSUME IInv, FinishResult PROVE IInv'
  OBVIOUS
<1>1. /\ caller = "finish" /\ caller' = "returned" /\ report' = metrics
      /\ UNCHANGED << iterations, turn, workVars, lock, metrics, captured, shallowed, completed >>
  BY DEF FinishResult
<1>2. TypeOK' /\ LockInv' /\ ResetInv' /\ ReportInv'
  BY <1>1 DEF IInv, TypeOK, LockInv, ResetInv, ReportInv, workVars
<1>3. CallerInv'
  BY <1>1 DEF IInv, CallerInv, NoneStarted, AllDone, workVars
<1>4. WorkInv' /\ CountInv'
  BY <1>1 DEF IInv, WorkInv, CountInv, DepthsAgree, Settling, Capturing, ThreadIterations, workVars
<1> QED
  BY <1>2, <1>3, <1>4 DEF IInv

-----------------------------------------------------------------------------

\* While a worker has a step to take the call is starting or joining workers, and
\* it stays where it is.
LEMMA WorkerLeavesCaller ==
  ASSUME IInv, Alive, NEW w \in Workers, at[w] \notin {"unstarted", "done"},
         NEW x, x # "unstarted", at' = [at EXCEPT ![w] = x], UNCHANGED callVars
  PROVE  CallerInv' /\ ResetInv' /\ ReportInv'
<1>1. caller \in {"start", "join"}
  BY DEF IInv, TypeOK, CallerInv, NoneStarted, AllDone, Alive
<1>2. \A v \in Workers : at'[v] = IF v = w THEN x ELSE at[v]
  BY DEF IInv, TypeOK
<1>3. \A v \in Workers : /\ at'[v] = "unstarted" <=> at[v] = "unstarted"
                         /\ at[v] = "done" => at'[v] = "done"
  BY <1>2
<1> QED
  BY <1>1, <1>3 DEF IInv, CallerInv, ResetInv, ReportInv, callVars, Workers

\* Only the owner of the lock is in a critical section.
LEMMA OwnerAlone ==
  ASSUME IInv, NEW w \in Workers, at[w] \in Critical, NEW v \in Workers, v # w
  PROVE  at[v] \notin Critical
BY DEF IInv, LockInv

\* What WorkInv says of one worker.
WorkOf(w) ==
  /\ at[w] = "unstarted" => completed[w] = 0
  /\ at[w] # "unstarted" => completed[w] + rounds[w] = ThreadIterations + Settling(w)
  /\ at[w] \in Critical => rounds[w] > 0
  /\ at[w] = "done" => rounds[w] = 0
  /\ at[w] \in {"depth", "shallow"} => Capturing(w)
  /\ at[w] = "store" =>
       reg[w] = IF Capturing(w) THEN metrics.captures ELSE metrics.rounds

\* It keeps holding of the others, for none of them is about to store a counter.
LEMMA OthersKeep ==
  ASSUME IInv, NEW w \in Workers, NEW v \in Workers, v # w,
         at'[v] = at[v], left'[v] = left[v], rounds'[v] = rounds[v], reg'[v] = reg[v],
         completed'[v] = completed[v], iterations' = iterations,
         at[w] \in Critical \/ metrics' = metrics
  PROVE  WorkOf(v)'
<1>1. ThreadIterations' = ThreadIterations
  BY DEF ThreadIterations
<1>2. WorkOf(v)
  BY DEF IInv, WorkInv, WorkOf
<1>3. at[v] = "store" => metrics' = metrics
  BY OwnerAlone DEF Critical
<1> QED
  BY <1>1, <1>2, <1>3 DEF WorkOf, Settling, Capturing

LEMMA LockMetricsKeeps ==
  ASSUME NEW w \in Workers, IInv, LockMetrics(w)
  PROVE  IInv'
<1>1. /\ Alive /\ at[w] = "running" /\ rounds[w] > 0 /\ lock = "free" /\ lock' = w
      /\ at' = [at EXCEPT ![w] = "load"]
      /\ UNCHANGED << callVars, reg, left, rounds, metrics, captured, shallowed, completed >>
  BY DEF LockMetrics
<1>2. /\ \A v \in Workers : at'[v] = IF v = w THEN "load" ELSE at[v]
      /\ at' \in [Workers -> {"unstarted", "running", "load", "store", "depth", "shallow",
                              "unlock", "done"}]
  BY <1>1 DEF IInv, TypeOK
<1>3. walk' \in [Workers -> Nat]
  BY ThreadsAssumption DEF LockMetrics, IInv, TypeOK
<1>4. TypeOK'
  BY <1>1, <1>2, <1>3 DEF IInv, TypeOK, callVars
<1>5. CallerInv' /\ ResetInv' /\ ReportInv'
  BY <1>1, WorkerLeavesCaller
<1>6. LockInv'
  BY <1>1, <1>2 DEF IInv, LockInv, Critical, Workers
<1>7. WorkOf(w)'
  <2>1. WorkOf(w) /\ ThreadIterations' = ThreadIterations
    BY <1>1 DEF IInv, WorkInv, WorkOf, ThreadIterations, callVars
  <2> QED
    BY <1>1, <1>2, <2>1 DEF WorkOf, Settling, Capturing
<1>8. WorkInv'
  <2>1. ASSUME NEW v \in Workers PROVE WorkOf(v)'
    BY <1>1, <1>2, <1>7, OthersKeep DEF callVars
  <2> QED
    BY <2>1 DEF WorkInv, WorkOf
<1>9. CountInv'
  <2>1. \A v \in Workers : at[v] # "shallow" /\ at'[v] # "shallow"
    BY <1>1, <1>2 DEF IInv, LockInv, Critical, Workers
  <2> QED
    BY <1>1, <2>1 DEF IInv, CountInv, DepthsAgree
<1> QED
  BY <1>4, <1>5, <1>6, <1>8, <1>9 DEF IInv

LEMMA LoadCounterKeeps ==
  ASSUME NEW w \in Workers, IInv, LoadCounter(w)
  PROVE  IInv'
<1>1. /\ Alive /\ at[w] = "load"
      /\ reg' = [reg EXCEPT ![w] = IF Capturing(w) THEN metrics.captures ELSE metrics.rounds]
      /\ at' = [at EXCEPT ![w] = "store"]
      /\ UNCHANGED << callVars, walk, left, rounds, lock, metrics, captured, shallowed, completed >>
  BY DEF LoadCounter
<1>2. /\ \A v \in Workers : at'[v] = IF v = w THEN "store" ELSE at[v]
      /\ at' \in [Workers -> {"unstarted", "running", "load", "store", "depth", "shallow",
                              "unlock", "done"}]
  BY <1>1 DEF IInv, TypeOK
<1>3. /\ reg' \in [Workers -> Nat]
      /\ reg'[w] = IF Capturing(w) THEN metrics.captures ELSE metrics.rounds
      /\ \A v \in Workers : v # w => reg'[v] = reg[v]
  BY <1>1 DEF IInv, TypeOK
<1>4. TypeOK'
  BY <1>1, <1>2, <1>3 DEF IInv, TypeOK, callVars
<1>5. CallerInv' /\ ResetInv' /\ ReportInv'
  BY <1>1, WorkerLeavesCaller
<1>6. LockInv'
  BY <1>1, <1>2 DEF IInv, LockInv, Critical
<1>7. WorkOf(w)'
  <2>1. WorkOf(w) /\ ThreadIterations' = ThreadIterations
    BY <1>1 DEF IInv, WorkInv, WorkOf, ThreadIterations, callVars
  <2> QED
    BY <1>1, <1>2, <1>3, <2>1 DEF WorkOf, Settling, Capturing, Critical
<1>8. WorkInv'
  <2>1. ASSUME NEW v \in Workers PROVE WorkOf(v)'
    BY <1>1, <1>2, <1>3, <1>7, OthersKeep DEF callVars
  <2> QED
    BY <2>1 DEF WorkInv, WorkOf
<1>9. CountInv'
  BY <1>1, <1>2 DEF IInv, CountInv, DepthsAgree
<1> QED
  BY <1>4, <1>5, <1>6, <1>8, <1>9 DEF IInv

LEMMA StoreCaptureKeeps ==
  ASSUME NEW w \in Workers, IInv, StoreCapture(w)
  PROVE  IInv'
<1>1. /\ Alive /\ at[w] = "store" /\ Capturing(w)
      /\ metrics' = [metrics EXCEPT !.captures = reg[w] + 1]
      /\ captured' = [captured EXCEPT ![w] = @ + 1]
      /\ at' = [at EXCEPT ![w] = "depth"]
      /\ UNCHANGED << callVars, reg, walk, left, rounds, lock, shallowed, completed >>
  BY DEF StoreCapture
<1>2. /\ \A v \in Workers : at'[v] = IF v = w THEN "depth" ELSE at[v]
      /\ at' \in [Workers -> {"unstarted", "running", "load", "store", "depth", "shallow",
                              "unlock", "done"}]
  BY <1>1 DEF IInv, TypeOK
<1>3. WorkOf(w) /\ ThreadIterations' = ThreadIterations
  BY <1>1 DEF IInv, WorkInv, WorkOf, ThreadIterations, callVars
<1>4. reg[w] = metrics.captures
  BY <1>1, <1>3 DEF WorkOf
<1>5. /\ metrics.captures \in Nat
      /\ metrics' \in [captures : Nat, minDepth : Nat, shallow : Nat, rounds : Nat]
      /\ metrics'.captures = metrics.captures + 1 /\ metrics'.minDepth = metrics.minDepth
      /\ metrics'.shallow = metrics.shallow /\ metrics'.rounds = metrics.rounds
  BY <1>1, <1>4 DEF IInv, TypeOK
<1>6. captured' \in [Threads -> Nat] /\ Total(captured') = Total(captured) + 1
  BY <1>1, TotalBump DEF IInv, TypeOK, Threads
<1>7. TypeOK'
  BY <1>1, <1>2, <1>5, <1>6 DEF IInv, TypeOK, callVars
<1>8. CallerInv' /\ ResetInv' /\ ReportInv'
  BY <1>1, WorkerLeavesCaller
<1>9. LockInv'
  BY <1>1, <1>2 DEF IInv, LockInv, Critical
<1>10. WorkOf(w)'
  BY <1>1, <1>2, <1>3 DEF WorkOf, Settling, Capturing, Critical
<1>11. WorkInv'
  <2>1. ASSUME NEW v \in Workers PROVE WorkOf(v)'
    BY <1>1, <1>2, <1>10, OthersKeep DEF callVars, Critical
  <2> QED
    BY <2>1 DEF WorkInv, WorkOf
<1>12. CountInv'
  BY <1>1, <1>2, <1>5, <1>6 DEF IInv, CountInv, DepthsAgree
<1> QED
  BY <1>7, <1>8, <1>9, <1>11, <1>12 DEF IInv

LEMMA StoreRoundKeeps ==
  ASSUME NEW w \in Workers, IInv, StoreRound(w)
  PROVE  IInv'
<1>1. /\ Alive /\ at[w] = "store" /\ ~Capturing(w)
      /\ metrics' = [metrics EXCEPT !.rounds = reg[w] + 1]
      /\ completed' = [completed EXCEPT ![w] = @ + 1]
      /\ at' = [at EXCEPT ![w] = "unlock"]
      /\ UNCHANGED << callVars, reg, walk, left, rounds, lock, captured, shallowed >>
  BY DEF StoreRound
<1>2. /\ \A v \in Workers : at'[v] = IF v = w THEN "unlock" ELSE at[v]
      /\ at' \in [Workers -> {"unstarted", "running", "load", "store", "depth", "shallow",
                              "unlock", "done"}]
  BY <1>1 DEF IInv, TypeOK
<1>3. WorkOf(w) /\ ThreadIterations' = ThreadIterations
  BY <1>1 DEF IInv, WorkInv, WorkOf, ThreadIterations, callVars
<1>4. reg[w] = metrics.rounds
  BY <1>1, <1>3 DEF WorkOf
<1>5. /\ metrics.rounds \in Nat
      /\ metrics' \in [captures : Nat, minDepth : Nat, shallow : Nat, rounds : Nat]
      /\ metrics'.captures = metrics.captures /\ metrics'.minDepth = metrics.minDepth
      /\ metrics'.shallow = metrics.shallow /\ metrics'.rounds = metrics.rounds + 1
  BY <1>1, <1>4 DEF IInv, TypeOK
<1>6. /\ completed' \in [Threads -> Nat] /\ Total(completed') = Total(completed) + 1
      /\ completed'["caller"] = completed["caller"]
      /\ completed'[w] = completed[w] + 1
      /\ \A v \in Workers : v # w => completed'[v] = completed[v]
  <2>1. completed \in [Threads -> Nat] /\ w \in Threads /\ w # "caller" /\ "caller" \in Threads
    BY DEF IInv, TypeOK, Threads, Workers
  <2> QED
    BY <1>1, <2>1, TotalBump DEF Threads
<1>7. TypeOK'
  BY <1>1, <1>2, <1>5, <1>6 DEF IInv, TypeOK, callVars
<1>8. CallerInv' /\ ResetInv' /\ ReportInv'
  BY <1>1, WorkerLeavesCaller
<1>9. LockInv'
  BY <1>1, <1>2 DEF IInv, LockInv, Critical
<1>10. WorkOf(w)'
  <2>1. completed[w] \in Nat /\ rounds[w] \in Nat /\ ThreadIterations \in Nat
    BY RoundsSuffice DEF IInv, TypeOK, Threads
  <2> QED
    BY <1>1, <1>2, <1>3, <1>6, <2>1 DEF WorkOf, Settling, Capturing, Critical
<1>11. WorkInv'
  <2>1. ASSUME NEW v \in Workers PROVE WorkOf(v)'
    BY <1>1, <1>2, <1>6, <1>10, OthersKeep DEF callVars, Critical
  <2> QED
    BY <2>1 DEF WorkInv, WorkOf
<1>12. CountInv'
  BY <1>1, <1>2, <1>5, <1>6 DEF IInv, CountInv, DepthsAgree
<1> QED
  BY <1>7, <1>8, <1>9, <1>11, <1>12 DEF IInv

LEMMA KeepMinDepthKeeps ==
  ASSUME NEW w \in Workers, IInv, KeepMinDepth(w)
  PROVE  IInv'
<1>1. /\ Alive /\ at[w] = "depth"
      /\ metrics' = [metrics EXCEPT !.minDepth = Min2(@, walk[w])]
      /\ at' = [at EXCEPT ![w] = "shallow"]
      /\ UNCHANGED << callVars, reg, walk, left, rounds, lock, captured, shallowed, completed >>
  BY DEF KeepMinDepth
<1>2. /\ \A v \in Workers : at'[v] = IF v = w THEN "shallow" ELSE at[v]
      /\ at' \in [Workers -> {"unstarted", "running", "load", "store", "depth", "shallow",
                              "unlock", "done"}]
  BY <1>1 DEF IInv, TypeOK
<1>3. WorkOf(w) /\ ThreadIterations' = ThreadIterations
  BY <1>1 DEF IInv, WorkInv, WorkOf, ThreadIterations, callVars
<1>4. /\ metrics.minDepth \in Nat /\ walk[w] \in Nat
      /\ Min2(metrics.minDepth, walk[w]) \in Nat
      /\ Min2(metrics.minDepth, walk[w]) < 5 <=> metrics.minDepth < 5 \/ walk[w] < 5
  BY DEF IInv, TypeOK, Min2
<1>5. /\ metrics' \in [captures : Nat, minDepth : Nat, shallow : Nat, rounds : Nat]
      /\ metrics'.captures = metrics.captures
      /\ metrics'.minDepth < 5 <=> metrics.minDepth < 5 \/ walk[w] < 5
      /\ metrics'.shallow = metrics.shallow /\ metrics'.rounds = metrics.rounds
  BY <1>1, <1>4 DEF IInv, TypeOK
<1>6. TypeOK'
  BY <1>1, <1>2, <1>5 DEF IInv, TypeOK, callVars
<1>7. CallerInv' /\ ResetInv' /\ ReportInv'
  BY <1>1, WorkerLeavesCaller
<1>8. LockInv'
  BY <1>1, <1>2 DEF IInv, LockInv, Critical
<1>9. WorkOf(w)'
  BY <1>1, <1>2, <1>3 DEF WorkOf, Settling, Capturing, Critical
<1>10. WorkInv'
  <2>1. ASSUME NEW v \in Workers PROVE WorkOf(v)'
    BY <1>1, <1>2, <1>9, OthersKeep DEF callVars, Critical
  <2> QED
    BY <2>1 DEF WorkInv, WorkOf
<1>11. CountInv'
  <2>1. \A v \in Workers : v # w => at[v] # "shallow"
    BY <1>1, OwnerAlone DEF Critical
  <2>2. DepthsAgree
    BY <1>1, <2>1 DEF IInv, CountInv
  <2>3. metrics'.minDepth < 5 <=> metrics'.shallow > 0 \/ walk'[w] < 5
    BY <1>1, <1>5, <2>2 DEF DepthsAgree
  <2> QED
    BY <1>1, <1>2, <1>5, <2>1, <2>3 DEF IInv, CountInv
<1> QED
  BY <1>6, <1>7, <1>8, <1>10, <1>11 DEF IInv

LEMMA CountShallowKeeps ==
  ASSUME NEW w \in Workers, IInv, CountShallow(w)
  PROVE  IInv'
<1>1. /\ Alive /\ at[w] = "shallow"
      /\ at' = [at EXCEPT ![w] = "unlock"]
      /\ UNCHANGED << callVars, reg, walk, left, rounds, lock, captured, completed >>
  BY DEF CountShallow
<1>2. /\ \A v \in Workers : at'[v] = IF v = w THEN "unlock" ELSE at[v]
      /\ at' \in [Workers -> {"unstarted", "running", "load", "store", "depth", "shallow",
                              "unlock", "done"}]
  BY <1>1 DEF IInv, TypeOK
<1>3. WorkOf(w) /\ ThreadIterations' = ThreadIterations
  BY <1>1 DEF IInv, WorkInv, WorkOf, ThreadIterations, callVars
<1>4. /\ metrics' \in [captures : Nat, minDepth : Nat, shallow : Nat, rounds : Nat]
      /\ shallowed' \in [Threads -> Nat]
      /\ metrics'.captures = metrics.captures /\ metrics'.rounds = metrics.rounds
      /\ metrics'.minDepth = metrics.minDepth
      /\ metrics'.shallow = Total(shallowed')
      /\ metrics'.shallow > 0 <=> metrics.shallow > 0 \/ walk[w] < 5
  <2>1. /\ metrics \in [captures : Nat, minDepth : Nat, shallow : Nat, rounds : Nat]
        /\ shallowed \in [Threads -> Nat] /\ w \in Threads
        /\ metrics.shallow = Total(shallowed) /\ metrics.shallow \in Nat
    BY DEF IInv, TypeOK, CountInv, Threads
  <2>2. CASE walk[w] < 5
    <3>1. /\ metrics' = [metrics EXCEPT !.shallow = @ + 1]
          /\ shallowed' = [shallowed EXCEPT ![w] = @ + 1]
      BY <2>2 DEF CountShallow
    <3>2. shallowed' \in [Threads -> Nat] /\ Total(shallowed') = Total(shallowed) + 1
      BY <2>1, <3>1, TotalBump
    <3> QED
      BY <2>1, <2>2, <3>1, <3>2
  <2>3. CASE ~(walk[w] < 5)
    BY <2>1, <2>3 DEF CountShallow
  <2> QED
    BY <2>2, <2>3
<1>5. TypeOK'
  BY <1>1, <1>2, <1>4 DEF IInv, TypeOK, callVars
<1>6. CallerInv' /\ ResetInv' /\ ReportInv'
  BY <1>1, WorkerLeavesCaller
<1>7. LockInv'
  BY <1>1, <1>2 DEF IInv, LockInv, Critical
<1>8. WorkOf(w)'
  BY <1>1, <1>2, <1>3 DEF WorkOf, Settling, Capturing, Critical
<1>9. WorkInv'
  <2>1. ASSUME NEW v \in Workers PROVE WorkOf(v)'
    BY <1>1, <1>2, <1>8, OthersKeep DEF callVars, Critical
  <2> QED
    BY <2>1 DEF WorkInv, WorkOf
<1>10. CountInv'
  <2>1. \A v \in Workers : v # w => at[v] # "shallow"
    BY <1>1, OwnerAlone DEF Critical
  <2>2. metrics.minDepth < 5 <=> metrics.shallow > 0 \/ walk[w] < 5
    BY <1>1 DEF IInv, CountInv
  <2>3. DepthsAgree'
    BY <1>4, <2>2 DEF DepthsAgree
  <2> QED
    BY <1>1, <1>2, <1>4, <2>1, <2>3 DEF IInv, CountInv
<1> QED
  BY <1>5, <1>6, <1>7, <1>9, <1>10 DEF IInv

LEMMA UnlockMetricsKeeps ==
  ASSUME NEW w \in Workers, IInv, UnlockMetrics(w)
  PROVE  IInv'
<1>1. /\ Alive /\ at[w] = "unlock" /\ lock' = "free"
      /\ at' = [at EXCEPT ![w] = "running"]
      /\ UNCHANGED << callVars, reg, walk, metrics, captured, shallowed, completed >>
  BY DEF UnlockMetrics
<1>2. /\ \A v \in Workers : at'[v] = IF v = w THEN "running" ELSE at[v]
      /\ at' \in [Workers -> {"unstarted", "running", "load", "store", "depth", "shallow",
                              "unlock", "done"}]
  BY <1>1 DEF IInv, TypeOK
<1>3. WorkOf(w) /\ ThreadIterations' = ThreadIterations
  BY <1>1 DEF IInv, WorkInv, WorkOf, ThreadIterations, callVars
<1>4. /\ left[w] \in Nat /\ rounds[w] \in Nat /\ rounds[w] > 0 /\ CapturesPerRound \in Nat
  BY <1>1, <1>3, ThreadsAssumption DEF IInv, TypeOK, WorkOf, Critical
<1>5. /\ left' \in [Workers -> Nat] /\ rounds' \in [Workers -> Nat]
      /\ rounds'[w] = IF Capturing(w) THEN rounds[w] ELSE rounds[w] - 1
      /\ \A v \in Workers : v # w => left'[v] = left[v] /\ rounds'[v] = rounds[v]
  <2>1. CASE Capturing(w)
    <3>1. left' = [left EXCEPT ![w] = @ - 1] /\ rounds' = rounds /\ left[w] > 0
      BY <2>1 DEF UnlockMetrics, Capturing
    <3> QED
      BY <1>4, <2>1, <3>1 DEF IInv, TypeOK
  <2>2. CASE ~Capturing(w)
    <3>1. /\ left' = [left EXCEPT ![w] = CapturesPerRound]
          /\ rounds' = [rounds EXCEPT ![w] = @ - 1]
      BY <2>2 DEF UnlockMetrics
    <3> QED
      BY <1>4, <2>2, <3>1 DEF IInv, TypeOK
  <2> QED
    BY <2>1, <2>2
<1>6. TypeOK'
  BY <1>1, <1>2, <1>5 DEF IInv, TypeOK, callVars
<1>7. CallerInv' /\ ResetInv' /\ ReportInv'
  BY <1>1, WorkerLeavesCaller
<1>8. LockInv'
  <2>1. \A v \in Workers : v # w => at[v] \notin Critical
    BY <1>1, OwnerAlone DEF Critical
  <2> QED
    BY <1>1, <1>2, <2>1 DEF LockInv, Critical, Workers
<1>9. WorkOf(w)'
  <2>1. completed[w] \in Nat /\ ThreadIterations \in Nat
    BY RoundsSuffice DEF IInv, TypeOK, Threads
  <2>2. completed[w] + rounds[w] = ThreadIterations + (IF Capturing(w) THEN 0 ELSE 1)
    BY <1>1, <1>3 DEF WorkOf, Settling
  <2>3. completed'[w] + rounds'[w] = ThreadIterations'
    BY <1>1, <1>3, <1>4, <1>5, <2>1, <2>2
  <2>4. at'[w] = "running" /\ Settling(w)' = 0
    BY <1>2 DEF Settling
  <2> QED
    BY <1>3, <2>1, <2>3, <2>4 DEF WorkOf, Critical
<1>10. WorkInv'
  <2>1. ASSUME NEW v \in Workers PROVE WorkOf(v)'
    BY <1>1, <1>2, <1>5, <1>9, OthersKeep DEF callVars
  <2> QED
    BY <2>1 DEF WorkInv, WorkOf
<1>11. CountInv'
  <2>1. \A v \in Workers : at[v] # "shallow" /\ at'[v] # "shallow"
    BY <1>1, <1>2, OwnerAlone DEF Critical
  <2> QED
    BY <1>1, <2>1 DEF IInv, CountInv, DepthsAgree
<1> QED
  BY <1>6, <1>7, <1>8, <1>10, <1>11 DEF IInv

LEMMA EndWorkerKeeps ==
  ASSUME NEW w \in Workers, IInv, EndWorker(w)
  PROVE  IInv'
<1>1. /\ Alive /\ at[w] = "running" /\ rounds[w] = 0
      /\ at' = [at EXCEPT ![w] = "done"]
      /\ UNCHANGED << callVars, reg, walk, left, rounds, lock, metrics, captured, shallowed, completed >>
  BY DEF EndWorker
<1>2. /\ \A v \in Workers : at'[v] = IF v = w THEN "done" ELSE at[v]
      /\ at' \in [Workers -> {"unstarted", "running", "load", "store", "depth", "shallow",
                              "unlock", "done"}]
  BY <1>1 DEF IInv, TypeOK
<1>3. TypeOK'
  BY <1>1, <1>2 DEF IInv, TypeOK, callVars
<1>4. CallerInv' /\ ResetInv' /\ ReportInv'
  BY <1>1, WorkerLeavesCaller
<1>5. LockInv'
  BY <1>1, <1>2 DEF IInv, LockInv, Critical
<1>6. WorkOf(w)'
  <2>1. WorkOf(w) /\ ThreadIterations' = ThreadIterations
    BY <1>1 DEF IInv, WorkInv, WorkOf, ThreadIterations, callVars
  <2> QED
    BY <1>1, <1>2, <2>1 DEF WorkOf, Settling, Capturing, Critical
<1>7. WorkInv'
  <2>1. ASSUME NEW v \in Workers PROVE WorkOf(v)'
    BY <1>1, <1>2, <1>6, OthersKeep DEF callVars
  <2> QED
    BY <2>1 DEF WorkInv, WorkOf
<1>8. CountInv'
  BY <1>1, <1>2 DEF IInv, CountInv, DepthsAgree
<1> QED
  BY <1>3, <1>4, <1>5, <1>7, <1>8 DEF IInv

LEMMA StepInv == IInv /\ [Next]_vars => IInv'
<1> SUFFICES ASSUME IInv, [Next]_vars PROVE IInv'
  OBVIOUS
<1>1. CASE Caller
  BY <1>1, ResetKeeps, RunBodyKeeps, StartThreadKeeps, StartThreadFailsKeeps,
     CatchFailureKeeps, JoinThreadKeeps, FinishResultKeeps DEF Caller
<1>2. ASSUME NEW w \in Workers, Worker(w) PROVE IInv'
  BY <1>2, LockMetricsKeeps, LoadCounterKeeps, StoreCaptureKeeps, StoreRoundKeeps,
     KeepMinDepthKeeps, CountShallowKeeps, UnlockMetricsKeeps, EndWorkerKeeps DEF Worker
<1>3. CASE UNCHANGED vars
  BY <1>3 DEF vars, callVars, workVars, IInv, TypeOK, LockInv, CallerInv, NoneStarted, AllDone,
     WorkInv, Settling, Capturing, ThreadIterations, CountInv, DepthsAgree, ResetInv, ReportInv
<1> QED
  BY <1>1, <1>2, <1>3 DEF Next

-----------------------------------------------------------------------------

\* No counter update of captureStressUnwind or countThreadRound is lost, for any
\* number of rounds and captures and any interleaving of the three workers.
THEOREM UpdatesAreKept == Spec => []NoUpdateLost
<1>1. IInv => NoUpdateLost
  <2> SUFFICES ASSUME IInv PROVE NoUpdateLost
    OBVIOUS
  <2>1. lock = "free" => \A w \in Workers : at[w] # "shallow"
    BY DEF IInv, LockInv, Critical, Workers
  <2> QED
    BY <2>1 DEF IInv, CountInv, DepthsAgree, NoUpdateLost
<1> QED
  BY InitInv, StepInv, <1>1, PTL DEF Spec

\* finishResult reads what three finished workers have done, and that is enough for
\* its threshold whatever the number of iterations.
THEOREM ReportIsComplete == Spec => []ReportComplete
<1>1. IInv => ReportComplete
  <2> SUFFICES ASSUME IInv, caller = "returned", \A w \in Workers : at[w] # "unstarted"
               PROVE  /\ report = metrics
                      /\ report.rounds = 3 * ThreadIterations
                      /\ report.rounds >= iterations
                      /\ report.minDepth < 5 <=> report.shallow > 0
    BY DEF ReportComplete
  <2>1. AllDone /\ report = metrics
    BY DEF IInv, CallerInv, NoneStarted, ReportInv, Workers
  <2>2. ThreadIterations \in Nat /\ 3 * ThreadIterations >= iterations
    BY RoundsSuffice DEF IInv, TypeOK
  <2>3. \A w \in Workers : completed[w] = ThreadIterations
    <3> SUFFICES ASSUME NEW w \in Workers PROVE completed[w] = ThreadIterations
      OBVIOUS
    <3>1. completed[w] \in Nat /\ rounds[w] \in Nat
      BY DEF IInv, TypeOK, Threads
    <3> QED
      BY <2>1, <2>2, <3>1 DEF IInv, WorkInv, AllDone, Settling
  <2>4. metrics.rounds = 3 * ThreadIterations
    BY <2>2, <2>3 DEF IInv, CountInv, Total, Workers
  <2>5. DepthsAgree
    BY <2>1 DEF IInv, CountInv, AllDone
  <2> QED
    BY <2>1, <2>2, <2>4, <2>5 DEF DepthsAgree
<1> QED
  BY InitInv, StepInv, <1>1, PTL DEF Spec

\* A call that returns has joined every worker or started none; in the second case
\* its verdict is a failure.
THEOREM CallOutlivesWorkers == Spec => []NoWorkerOutlivesCall
<1>1. IInv => NoWorkerOutlivesCall
  <2> SUFFICES ASSUME IInv, caller = "returned"
               PROVE  AllDone \/ (NoneStarted /\ report.rounds < iterations)
    BY DEF NoWorkerOutlivesCall, AllDone, NoneStarted
  <2>1. AllDone \/ NoneStarted
    BY DEF IInv, CallerInv
  <2>2. ASSUME NoneStarted PROVE report.rounds = 0
    BY <2>2 DEF IInv, NoneStarted, WorkInv, CountInv, ReportInv, Total, Workers
  <2>3. iterations \in Nat \ {0}
    BY DEF IInv, TypeOK
  <2> QED
    BY <2>1, <2>2, <2>3
<1> QED
  BY InitInv, StepInv, <1>1, PTL DEF Spec

\* Every reachable state is well typed.
THEOREM TypeCorrect == Spec => []TypeOK
<1>1. IInv => TypeOK
  BY DEF IInv
<1> QED
  BY InitInv, StepInv, <1>1, PTL DEF Spec

-----------------------------------------------------------------------------

\* The counters are blank before the reset, and a walk to be recorded has one of the
\* depths considered.
WalkInv ==
  /\ caller = "reset" => metrics = Fresh
  /\ \A w \in Workers : at[w] \in {"load", "store"} /\ Capturing(w) => walk[w] \in Depths

LEMMA WalkStep == IInv /\ WalkInv /\ [Next]_vars => WalkInv'
<1> SUFFICES ASSUME IInv, WalkInv, [Next]_vars PROVE WalkInv'
  OBVIOUS
<1>1. CASE Caller
  <2>1. CASE StartThread
    <3>1. /\ caller' # "reset" /\ walk' = walk /\ turn \in Workers
          /\ at' = [at EXCEPT ![turn] = "running"]
          /\ left' = [left EXCEPT ![turn] = CapturesPerRound]
      BY <2>1 DEF StartThread, IInv, CallerInv, TypeOK
    <3> QED
      BY <3>1 DEF WalkInv, IInv, TypeOK, Capturing
  <2>2. CASE ~StartThread
    <3>1. caller' # "reset" /\ UNCHANGED << at, walk, left >>
      BY <1>1, <2>2 DEF Caller, Reset, RunBody, StartThreadFails, CatchFailure, JoinThread,
         FinishResult, workVars
    <3> QED
      BY <3>1 DEF WalkInv, Capturing
  <2> QED
    BY <2>1, <2>2
<1>2. ASSUME NEW w \in Workers, Worker(w) PROVE WalkInv'
  <2>1. /\ caller' = caller /\ at[w] \notin {"unstarted", "done"}
        /\ at' \in [Workers -> {"unstarted", "running", "load", "store", "depth", "shallow",
                                "unlock", "done"}]
        /\ \A v \in Workers : v # w => at'[v] = at[v] /\ walk'[v] = walk[v] /\ left'[v] = left[v]
        /\ at'[w] \in {"load", "store"} =>
             /\ left'[w] = left[w]
             /\ at[w] = "running" \/ (at[w] \in {"load", "store"} /\ walk'[w] = walk[w])
        /\ at'[w] = "load" /\ Capturing(w) => walk'[w] \in Depths
    BY <1>2 DEF Worker, LockMetrics, LoadCounter, StoreCapture, StoreRound, KeepMinDepth,
       CountShallow, UnlockMetrics, EndWorker, IInv, TypeOK, callVars
  <2>2. caller # "reset"
    BY <2>1 DEF IInv, CallerInv, NoneStarted
  <2> QED
    BY <1>2, <2>1, <2>2 DEF WalkInv, Capturing, Worker, LockMetrics, LoadCounter, StoreCapture,
       StoreRound, KeepMinDepth, CountShallow, UnlockMetrics, EndWorker
<1>3. CASE UNCHANGED vars
  BY <1>3 DEF vars, callVars, workVars, WalkInv, Capturing
<1> QED
  BY <1>1, <1>2, <1>3 DEF Next

\* The counters as the board shows them.
Shown == IF lock = "free" THEN metrics ELSE Pending(metrics, lock)
Open == caller \notin {"returned", "terminated"}

Tallies == [captures : Nat, minDepth : Nat, shallow : Nat, rounds : Nat]

LEMMA MinimaAgree ==
  ASSUME NEW a \in Nat, NEW d \in Nat
  PROVE  Min2(a, d) = IF d < a THEN d ELSE a
BY DEF Min2

\* A capture of the caller is a walk on the board.
LEMMA CallerRecords ==
  ASSUME IInv, lock = "free", lock' = lock, NEW depth \in Depths, CallerCaptures(depth),
         Open, Open', report' = report
  PROVE  Board!Next
<1>1. metrics \in Tallies /\ depth \in Nat
  BY ThreadsAssumption DEF IInv, TypeOK, Tallies
<1>2. metrics' = Board!Walked(metrics, depth)
  BY <1>1, MinimaAgree DEF CallerCaptures, Board!Walked, Tallies
<1>3. Board!RecordWalk(depth)
  BY <1>2 DEF Board!RecordWalk, Open
<1> QED
  BY <1>3 DEF Board!Next

\* A worker keeps the call open.
LEMMA WorkerKeepsOpen ==
  ASSUME IInv, NEW w \in Workers, Worker(w)
  PROVE  Open /\ Open' /\ UNCHANGED report
<1>1. Alive /\ UNCHANGED << caller, report >> /\ at[w] \notin {"unstarted", "done"}
  BY DEF Worker, LockMetrics, LoadCounter, StoreCapture, StoreRound, KeepMinDepth, CountShallow,
     UnlockMetrics, EndWorker, callVars
<1> QED
  BY <1>1 DEF IInv, CallerInv, NoneStarted, AllDone, Open, Alive

\* A worker's steps are a walk when it stores the number of captures, a round when it
\* stores that of rounds, and nothing otherwise.
LEMMA WorkerRecords ==
  ASSUME IInv, WalkInv, NEW w \in Workers, Worker(w)
  PROVE  [Board!Next]_(Board!vars)
<1>1. Open /\ Open' /\ UNCHANGED report
  BY WorkerKeepsOpen
<1>2. /\ metrics \in Tallies /\ walk[w] \in Nat /\ w # "free" /\ reg[w] \in Nat
      /\ at \in [Workers -> {"unstarted", "running", "load", "store", "depth", "shallow",
                             "unlock", "done"}]
  BY DEF IInv, TypeOK, Tallies, Workers
<1>3. at[w] \in Critical <=> lock = w
  BY DEF IInv, LockInv
<1>4. ASSUME Shown' = Shown PROVE UNCHANGED Board!vars
  BY <1>1, <1>4 DEF Board!vars, Shown, Open
<1>5. CASE LockMetrics(w)
  <2>1. lock = "free" /\ lock' = w /\ metrics' = metrics /\ at'[w] = "load"
    BY <1>2, <1>5 DEF LockMetrics
  <2>2. Shown' = Shown
    BY <1>2, <2>1 DEF Shown, Pending, Tallies
  <2> QED
    BY <1>4, <2>2
<1>6. CASE LoadCounter(w)
  <2>1. lock = w /\ lock' = w /\ metrics' = metrics /\ at[w] = "load" /\ at'[w] = "store"
    BY <1>2, <1>3, <1>6 DEF LoadCounter, Critical
  <2>2. Shown' = Shown
    BY <1>2, <2>1 DEF Shown, Pending, Tallies
  <2> QED
    BY <1>4, <2>2
<1>7. CASE StoreCapture(w)
  <2>1. /\ lock = w /\ lock' = w /\ walk' = walk /\ at[w] = "store" /\ at'[w] = "depth"
        /\ metrics' = [metrics EXCEPT !.captures = reg[w] + 1] /\ Capturing(w)
    BY <1>2, <1>3, <1>7 DEF StoreCapture, Critical
  <2>2. reg[w] = metrics.captures /\ walk[w] \in Depths
    BY <2>1 DEF IInv, WorkInv, WalkInv
  <2>3. Shown = metrics
    BY <1>2, <2>1 DEF Shown, Pending, Tallies
  <2>4. Shown' = [metrics' EXCEPT !.minDepth = Min2(@, walk[w]),
                                  !.shallow = IF walk[w] < 5 THEN @ + 1 ELSE @]
    BY <1>2, <2>1 DEF Shown, Pending, Tallies
  <2>5. Shown' = Board!Walked(Shown, walk[w])
    BY <1>2, <2>1, <2>2, <2>3, <2>4, MinimaAgree DEF Board!Walked, Tallies
  <2>6. Board!RecordWalk(walk[w])
    BY <1>1, <2>5 DEF Board!RecordWalk, Shown, Open
  <2> QED
    BY <2>2, <2>6 DEF Board!Next
<1>8. CASE StoreRound(w)
  <2>1. /\ lock = w /\ lock' = w /\ at[w] = "store" /\ at'[w] = "unlock"
        /\ metrics' = [metrics EXCEPT !.rounds = reg[w] + 1] /\ ~Capturing(w)
    BY <1>2, <1>3, <1>8 DEF StoreRound, Critical
  <2>2. reg[w] = metrics.rounds
    BY <2>1 DEF IInv, WorkInv
  <2>3. Shown = metrics /\ Shown' = metrics'
    BY <1>2, <2>1 DEF Shown, Pending, Tallies
  <2>4. Shown' = [Shown EXCEPT !.rounds = @ + 1]
    BY <1>2, <2>1, <2>2, <2>3 DEF Tallies
  <2>5. Board!RecordRound
    BY <1>1, <2>4 DEF Board!RecordRound, Shown, Open
  <2> QED
    BY <2>5 DEF Board!Next
<1>9. CASE KeepMinDepth(w)
  <2>1. /\ lock = w /\ lock' = w /\ walk' = walk /\ at[w] = "depth" /\ at'[w] = "shallow"
        /\ metrics' = [metrics EXCEPT !.minDepth = Min2(@, walk[w])]
    BY <1>2, <1>3, <1>9 DEF KeepMinDepth, Critical
  <2>2. Shown' = Shown
    BY <1>2, <2>1 DEF Shown, Pending, Tallies
  <2> QED
    BY <1>4, <2>2
<1>10. CASE CountShallow(w)
  <2>1. /\ lock = w /\ lock' = w /\ walk' = walk /\ at[w] = "shallow" /\ at'[w] = "unlock"
        /\ metrics' = IF walk[w] < 5 THEN [metrics EXCEPT !.shallow = @ + 1] ELSE metrics
    BY <1>2, <1>3, <1>10 DEF CountShallow, Critical
  <2>2. Shown' = Shown
    BY <1>2, <2>1 DEF Shown, Pending, Tallies
  <2> QED
    BY <1>4, <2>2
<1>11. CASE UnlockMetrics(w)
  <2>1. lock = w /\ lock' = "free" /\ metrics' = metrics /\ at[w] = "unlock"
    BY <1>3, <1>11 DEF UnlockMetrics, Critical
  <2>2. Shown' = Shown
    BY <1>2, <2>1 DEF Shown, Pending, Tallies
  <2> QED
    BY <1>4, <2>2
<1>12. CASE EndWorker(w)
  <2>1. /\ lock' = lock /\ metrics' = metrics /\ walk' = walk /\ lock # w
        /\ \A v \in Workers : v # w => at'[v] = at[v]
    BY <1>2, <1>3, <1>12 DEF EndWorker, Critical
  <2>2. Shown' = Shown
    BY <2>1 DEF Shown, Pending, IInv, TypeOK
  <2> QED
    BY <1>4, <2>2
<1> QED
  BY <1>5, <1>6, <1>7, <1>8, <1>9, <1>10, <1>11, <1>12 DEF Worker

LEMMA BoardInit == Init => Board!Init
BY DEF Init, Board!Init, Board!Blank, Fresh

LEMMA BoardStep == IInv /\ IInv' /\ WalkInv /\ [Next]_vars => [Board!Next]_(Board!vars)
<1> SUFFICES ASSUME IInv, IInv', WalkInv, [Next]_vars PROVE [Board!Next]_(Board!vars)
  OBVIOUS
<1>1. CASE Reset
  <2>1. lock = "free" /\ UNCHANGED << lock, metrics, report >> /\ Open /\ Open'
    BY <1>1 DEF Reset, WalkInv, Open
  <2> QED
    BY <2>1 DEF Board!vars, Open
<1>2. CASE RunBody \/ CatchFailure
  <2>1. PICK depth \in Depths : CallerCaptures(depth)
    BY <1>2 DEF RunBody, CatchFailure
  <2>2. lock = "free" /\ UNCHANGED << lock, report >> /\ Open /\ Open'
    BY <1>2 DEF RunBody, CatchFailure, Open
  <2> QED
    BY <2>1, <2>2, CallerRecords
<1>3. CASE StartThread \/ JoinThread
  <2>1. UNCHANGED << lock, metrics, walk, report >> /\ Open /\ Open'
    BY <1>3 DEF StartThread, JoinThread, Open, workVars
  <2>2. ASSUME lock # "free" PROVE at'[lock] = at[lock]
    <3>1. at[lock] \in Critical /\ lock \in Workers
      BY <2>2 DEF IInv, TypeOK, LockInv
    <3>2. StartThread => lock # turn
      BY <3>1 DEF StartThread, IInv, CallerInv, Critical, Workers, TypeOK
    <3> QED
      BY <1>3, <3>1, <3>2 DEF StartThread, JoinThread, IInv, TypeOK, workVars
  <2>3. Shown' = Shown
    BY <2>1, <2>2 DEF Shown, Pending, Tallies
  <2> QED
    BY <2>1, <2>3 DEF Board!vars, Shown, Open
<1>4. CASE StartThreadFails
  <2>1. UNCHANGED << lock, metrics, walk, at, report >> /\ Open
    BY <1>4 DEF StartThreadFails, workVars, Open
  <2>2. Shown' = Shown
    BY <2>1 DEF Shown, Pending, Tallies
  <2>3. CASE Open'
    BY <2>1, <2>2, <2>3 DEF Board!vars, Shown, Open
  <2>4. CASE ~Open'
    BY <2>1, <2>2, <2>4 DEF Board!Next, Board!Abort, Shown, Open
  <2> QED
    BY <2>3, <2>4
<1>5. CASE FinishResult
  <2>1. lock = "free" /\ UNCHANGED << lock, metrics >> /\ report' = metrics /\ Open /\ ~Open'
    BY <1>5 DEF FinishResult, Open
  <2>2. Board!Publish
    BY <2>1 DEF Board!Publish, Open
  <2> QED
    BY <2>2 DEF Board!Next
<1>6. ASSUME NEW w \in Workers, Worker(w) PROVE [Board!Next]_(Board!vars)
  BY <1>6, WorkerRecords
<1>7. CASE UNCHANGED vars
  <2>1. UNCHANGED << lock, metrics, walk, at, report, caller >>
    BY <1>7 DEF vars, callVars, workVars
  <2> QED
    BY <2>1 DEF Board!vars, Pending
<1> QED
  BY <1>1, <1>2, <1>3, <1>4, <1>5, <1>6, <1>7 DEF Next, Caller

\* The counters as the suites' users see them are recorded in one step each: every
\* behaviour of the call and its workers is one of the board.
THEOREM ThreadsImplementBoard == Spec => ImplementsBoard
<1>1. Init => WalkInv
  BY DEF Init, WalkInv
<1> QED
  BY <1>1, InitInv, StepInv, WalkStep, BoardInit, BoardStep, PTL
     DEF Spec, ImplementsBoard, Board!Spec
=============================================================================
