---------------------------- MODULE SuiteProofs -----------------------------
(***************************************************************************)
(* The six suites have the contracts of module Contracts, for every number *)
(* of iterations, and what follows for every unwinder they are run on.     *)
(***************************************************************************)
EXTENDS ContractProofs

-----------------------------------------------------------------------------

(* ----------------------------- PluginSuite ----------------------------- *)

\* The tables of the plugin suite.
LEMMA PluginTables ==
  ASSUME NEW e, e = PluginEntry, \A fn, type : Catches(e, fn, type) = PluginCatches(fn, type)
  PROVE  /\ Accounts(e) = {"guards", "traces", "pending"}
         /\ \A fn, args : /\ Enters(e, fn, args) = PluginEnters(fn, args)
                          /\ Raises(e, fn, args) = PluginRaises(fn, args)
                          /\ Guards(e, fn, args) = PluginGuards(fn, args)
         /\ \A fn : fn # "case_try" => Plain(e, fn)
         /\ \A fn, args : fn # "pluginCase" => Leaks(e, fn, args) = {}
         /\ \A args : /\ Leaks(e, "pluginCase", args) = {"PluginError"}
                      /\ ClausesKept(e, "case_try", args)
                      /\ \A m : Settled(m, e, "case_try", args, "PluginError") =
                                  Work(m, e, "case_catch", args)
<1>1. Accounts(e) = {"guards", "traces", "pending"}
  BY DEF Accounts, PluginEntry, BasicEntry, CfiEntry, ExtEntry, DeepEntry, StressEntry
<1>2. \A fn, args : /\ Enters(e, fn, args) = PluginEnters(fn, args)
                    /\ Raises(e, fn, args) = PluginRaises(fn, args)
                    /\ Guards(e, fn, args) = PluginGuards(fn, args)
  BY DEF Enters, Raises, Guards, PluginEntry, BasicEntry, CfiEntry, ExtEntry, DeepEntry,
     StressEntry
<1>3. /\ \A fn, t : fn # "case_try" \/ t # "PluginError" => Catches(e, fn, t) = "none"
      /\ Catches(e, "case_try", "PluginError") = "case_catch"
  BY DEF PluginCatches
<1>4. /\ \A fn, args : fn \notin {"pluginCase", "case_try"} => Raises(e, fn, args) = {}
      /\ \A args : /\ Raises(e, "pluginCase", args) = {"PluginError"}
                   /\ Raises(e, "case_try", args) = {"PluginError"}
  BY <1>2 DEF PluginRaises
<1>5. \A args : Enters(e, "case_catch", args) = {"PluginError"}
  BY <1>2 DEF PluginEnters, PluginEntry
<1>6. \A fn : fn # "case_try" => Plain(e, fn)
  BY <1>3 DEF Plain
<1>7. \A fn, args : fn # "pluginCase" => Leaks(e, fn, args) = {}
  BY <1>3, <1>4 DEF Leaks
<1>8. \A args : Leaks(e, "pluginCase", args) = {"PluginError"}
  BY <1>4, <1>6, PlainScope
<1>9. \A args : ClausesKept(e, "case_try", args)
  BY <1>3, <1>4, <1>5 DEF ClausesKept
<1>10. \A m, args : Settled(m, e, "case_try", args, "PluginError") = Work(m, e, "case_catch", args)
  BY <1>3 DEF Settled
<1> QED
  BY <1>1, <1>2, <1>6, <1>7, <1>8, <1>9, <1>10

\* The plugin suite keeps its contracts.
LEMMA PluginOrderly ==
  ASSUME NEW e, e = PluginEntry,
         \A fn, args, exc : Body(e, fn, args, exc) = PluginBody(fn, args, exc),
         \A fn, type : Catches(e, fn, type) = PluginCatches(fn, type)
  PROVE  Orderly(e)
<1>1. ASSUME NEW n \in Nat \ {0}
      PROVE  /\ "none" \in Enters(e, e, << n >>)
             /\ Raises(e, e, << n >>) = {}
  <2>1. Counted(<< n >>)
    BY DEF Counted
  <2> QED
    BY <2>1, PluginTables DEF PluginEnters, PluginRaises, OnlyIf, PluginEntry
<1>2. ASSUME NEW fn \in STRING, NEW args \in Seq(Int), NEW exc \in MaybeException,
             exc.type \in Enters(e, fn, args)
      PROVE  Keeps(e, fn, args, exc)
  <2> DEFINE body == Body(e, fn, args, exc)
  <2>1. exc.type \in PluginEnters(fn, args)
    BY <1>2, PluginTables
  <2>2. fn \in {"case_catch", PluginEntry, "case_try", "pluginCase"}
    BY <2>1 DEF PluginEnters
  <2>3. /\ Accounts(e) = {"guards", "traces", "pending"}
        /\ \A g, a : /\ Enters(e, g, a) = PluginEnters(g, a)
                     /\ Raises(e, g, a) = PluginRaises(g, a)
                     /\ Guards(e, g, a) = PluginGuards(g, a)
        /\ \A g : g # "case_try" => Plain(e, g)
        /\ \A g, a : g # "pluginCase" => Leaks(e, g, a) = {}
        /\ \A a : /\ Leaks(e, "pluginCase", a) = {"PluginError"}
                  /\ ClausesKept(e, "case_try", a)
                  /\ \A m : Settled(m, e, "case_try", a, "PluginError") = Work(m, e, "case_catch", a)
    BY PluginTables
  <2>4. body = PluginBody(fn, args, exc)
    OBVIOUS
  <2>5. \A a : /\ Work("guards", e, "pluginCase", a) = 1 /\ Work("guards", e, "case_try", a) = 1
               /\ Work("guards", e, "case_catch", a) = 0
               /\ Work("traces", e, "pluginCase", a) = 2 /\ Work("traces", e, "case_try", a) = 2
               /\ Work("traces", e, "case_catch", a) = 1
               /\ Work("pending", e, "pluginCase", a) = 0 /\ Work("pending", e, "case_try", a) = 0
               /\ Work("pending", e, "case_catch", a) = -1
    BY <2>3, SeedsDecide DEF Work, PluginEnters, PluginGuards, PluginTraces, Fare, PluginEntry
  <2>6. \A a : /\ "none" \in Enters(e, "case_try", a) /\ "none" \in Enters(e, "pluginCase", a)
    BY <2>3 DEF PluginEnters, PluginEntry
  <2>7. CASE fn = "case_catch"
    <3>1. body = Caught
      BY <2>4, <2>7 DEF PluginBody, PluginEntry
    <3>2. Plain(e, fn) /\ Accounts(e) \subseteq AllAccounts
      BY <2>3, <2>7 DEF AllAccounts
    <3>3. \A m \in Accounts(e) : Work(m, e, fn, args) = Fare(m)
      BY <2>3, <2>5, <2>7 DEF Fare
    <3> QED
      BY <3>1, <3>2, <3>3, CatchKeeps
  <2>8. CASE fn = PluginEntry
    <3> DEFINE n == args[1]
               k == n * 32 + 1
    <3>1. Counted(args) /\ n \in Nat \ {0}
      BY <2>1, <2>8 DEF PluginEnters, PluginEntry, OnlyIf, Counted
    <3>2. body = PluginRounds(n)
      BY <2>4, <2>8 DEF PluginBody, PluginEntry
    <3> HIDE DEF n
    <3>3. k \in Nat /\ k # 0 /\ k - 1 = n * 32
      BY <3>1
    <3>4. Len(body) = k - 1
      BY <3>1, <3>2, <3>3 DEF PluginRounds
    <3>5. \A j \in 1 .. k - 1 : body[j].op = "try" /\ body[j].fn = "case_try"
      BY <3>2, <3>3 DEF PluginRounds, Try
    <3> DEFINE step == [m \in AllAccounts |-> CASE m = "guards" -> 1 [] m = "traces" -> 2 [] OTHER -> 0]
               rest == [m \in AllAccounts |-> 0]
    <3>6. /\ Work("guards", e, fn, args) = 32 * n /\ Work("traces", e, fn, args) = 64 * n
          /\ Work("pending", e, fn, args) = 0
      BY <2>3, <2>8, <3>1, SeedsDecide DEF Work, PluginEnters, PluginGuards, PluginTraces, PluginEntry, OnlyIf, n
    <3>7. ASSUME NEW m \in Accounts(e)
          PROVE  LoopWork(m, e, body, k, Work(m, e, fn, args), step[m], rest[m])
      <4>1. /\ step[m] = CASE m = "guards" -> 1 [] m = "traces" -> 2 [] OTHER -> 0
            /\ rest[m] = 0
        BY <2>3 DEF AllAccounts
      <4>2. \A a : Work(m, e, "case_try", a) = step[m]
        BY <2>3, <2>5, <4>1
      <4>3. Work(m, e, fn, args) = (k - 1) * step[m] + rest[m]
        BY <2>3, <3>1, <3>3, <3>6, <4>1
      <4> HIDE DEF k, step, rest
      <4> QED
        BY <3>4, <3>5, <4>1, <4>2, <4>3 DEF LoopWork
    <3>8. IsLoop(e, body, k)
      <4>1. Leaks(e, "case_try", << >>) = {} /\ \A a : Leaks(e, "case_try", a) = {}
        BY <2>3
      <4> HIDE DEF k
      <4> QED
        BY <2>6, <3>4, <3>5, <4>1 DEF IsLoop, Quiet
    <3>9. Plain(e, fn) /\ Accounts(e) \subseteq AllAccounts
      BY <2>3, <2>8 DEF AllAccounts, PluginEntry
    <3> HIDE DEF k, step, rest
    <3> QED
      BY <3>3, <3>7, <3>8, <3>9, LoopKeeps, PlainScope
  <2>9. CASE fn = "case_try"
    <3>1. body = << Call("pluginCase", args) >>
      BY <2>4, <2>9 DEF PluginBody, PluginEntry
    <3> DEFINE s == Call("pluginCase", args)
    <3>2. /\ Len(body) = 1 /\ body[1] = s /\ s.op = "call" /\ s.fn = "pluginCase" /\ s.args = args
      BY <3>1 DEF Call
    <3> HIDE DEF s
    <3>3. ASSUME NEW i \in 1 .. Len(body)
          PROVE  Contained(e, fn, args, exc, body[i])
      <4>1. i = 1
        BY <3>2
      <4>2. Leaks(e, "pluginCase", args) \subseteq Raises(e, fn, args)
        BY <2>3, <2>9 DEF PluginRaises
      <4> QED
        BY <2>6, <3>2, <4>1, <4>2 DEF Contained
    <3>4. ASSUME NEW m \in Accounts(e)
          PROVE  Path(m, e, fn, args, exc, 1, Work(m, e, fn, args))
      <4>1. Path(m, e, fn, args, exc, 1 + 1, 0)
        BY <3>2, PathEnd
      <4>2. Covers(m, Work(m, e, fn, args), Work(m, e, s.fn, s.args) + 0)
        BY <2>3, <2>5, <2>9, <3>2 DEF Covers
      <4>3. \A t \in Leaks(e, s.fn, s.args) : Covers(m, 0 + Fare(m), Settled(m, e, fn, args, t))
        BY <2>3, <2>5, <2>9, <3>2 DEF Covers, Fare
      <4>4. Len(body) \in Nat /\ 1 <= Len(body)
        BY <3>2
      <4> QED
        BY <3>2, <4>1, <4>2, <4>3, <4>4, PathCall
    <3> QED
      BY <2>3, <2>9, <3>2, <3>3, <3>4, KeepsBy
  <2>10. CASE fn = "pluginCase"
    <3> DEFINE c == (args[2] + args[1]) % 13 = 4
               code == args[2] + args[1] * 100 + 4
    <3>1. body = << Guard, Capture >> \o (IF c THEN Raise("PluginError", code) ELSE << Capture >>)
      BY <2>4, <2>10 DEF PluginBody, PluginCase, PluginEntry
    <3> HIDE DEF c, code
    <3>2. IsCase(body, {"PluginError"})
      BY <3>1, CaseShape
    <3>3. /\ body[1].op = "guard" /\ body[2].op = "capture"
          /\ \/ Len(body) = 3 /\ body[3].op = "capture"
             \/ /\ Len(body) = 4 /\ body[3] = Count("thrown")
                /\ body[4].op = "throw" /\ body[4].exc.type = "PluginError"
      BY <3>1 DEF Guard, Capture, Raise
    <3>4. Len(body) \in Nat /\ 3 <= Len(body) /\ 2 <= Len(body) /\ 1 <= Len(body)
      BY <3>3
    <3>5. Plain(e, fn) /\ Accounts(e) \subseteq AllAccounts
      BY <2>3, <2>10 DEF AllAccounts
    <3>8. Raises(e, fn, args) = {"PluginError"}
      BY <2>3, <2>10 DEF PluginRaises
    <3>6. \A i \in 1 .. Len(body) : Contained(e, fn, args, exc, body[i])
      <4>2. 3 \in Nat /\ 3 # 0 /\ (\A i \in 1 .. 3 - 1 : i = 1 \/ i = 2)
        OBVIOUS
      <4>3. \A i \in 1 .. 3 - 1 : Contained(e, fn, args, exc, body[i])
        BY <3>3, <4>2 DEF Contained
      <4> QED
        BY <3>2, <3>8, <4>2, <4>3, EndingContained DEF IsCase
    <3>7. ASSUME NEW m \in Accounts(e)
          PROVE  Path(m, e, fn, args, exc, 1, Work(m, e, fn, args))
      <4> DEFINE x == IF m = "traces" THEN 1 ELSE 0
                 y == IF m = "traces" THEN 2 ELSE 0
      <4>1. m \in AllAccounts /\ m \in {"guards", "traces", "pending"}
        BY <2>3, <3>5
      <4>2. Path(m, e, fn, args, exc, 3, x)
        <5>1. CASE Len(body) = 3 /\ body[3].op = "capture"
          <6>1. Path(m, e, fn, args, exc, 3 + 1, 0)
            BY <5>1, PathEnd
          <6>2. Covers(m, x, Cost(m, body[3]) + 0)
            BY <4>1, <5>1 DEF Covers, Cost
          <6> HIDE DEF x
          <6> QED
            BY <3>4, <5>1, <6>1, <6>2, PathFlat
        <5>2. CASE /\ Len(body) = 4 /\ body[3] = Count("thrown") /\ body[4].op = "throw"
                   /\ body[4].exc.type = "PluginError"
          <6>1. Covers(m, x, CountCost(m, "thrown") + Fare(m))
            BY <4>1 DEF Covers, CountCost, Fare
          <6>2. /\ Len(body) = 3 + 1 /\ body[3] = Count("thrown") /\ body[3 + 1].op = "throw"
                /\ body[3 + 1].exc.type \in Raises(e, fn, args)
            BY <3>8, <5>2
          <6>3. Evenly(m, e, fn, args)
            BY <3>5, PlainScope
          <6> HIDE DEF x
          <6> QED
            BY <4>1, <6>1, <6>2, <6>3, PathRaise
        <5> QED
          BY <3>3, <5>1, <5>2
      <4>3. Path(m, e, fn, args, exc, 1 + 1, y)
        <5>1. Covers(m, y, Cost(m, body[2]) + x)
          BY <3>3, <4>1 DEF Covers, Cost
        <5>2. Path(m, e, fn, args, exc, 2 + 1, x)
          BY <4>2
        <5>3. Path(m, e, fn, args, exc, 2, y)
          <6> HIDE DEF x, y
          <6> QED
            BY <3>3, <3>4, <5>1, <5>2, PathFlat
        <5> QED
          BY <5>3
      <4>4. Covers(m, Work(m, e, fn, args), Cost(m, body[1]) + y)
        BY <2>5, <2>10, <3>3, <4>1 DEF Covers, Cost
      <4> HIDE DEF x, y
      <4> QED
        BY <3>3, <3>4, <4>3, <4>4, PathFlat
    <3> QED
      BY <3>4, <3>5, <3>6, <3>7, KeepsBy, PlainScope
  <2> QED
    BY <2>2, <2>7, <2>8, <2>9, <2>10
<1> QED
  BY <1>1, <1>2 DEF Orderly

-----------------------------------------------------------------------------

(* ------------------------------ BasicSuite ----------------------------- *)

BasicTrying == {"mid_try", "bridge2_try", "root_try", "bridge1_try", "dispatch_try", "entry_try"}
BasicClauses == {"mid_catch", "bridge2_catch", "branch_catch", "base_catch"}

\* What leaves a scope of the basic suite.
BasicLeaks(fn) ==
  CASE fn \in {"repeated_leaf", "mid_try", "repeated_mid", "rethrowLeaf", "bridge2_try",
               "rethrowBridge2"}           -> {"LeafError", "BranchError"}
    [] fn \in {"mid_catch", "bridge2_catch"} -> {"LeafError"}
    [] OTHER                               -> {}

\* The tables of the basic suite.
LEMMA BasicTables ==
  ASSUME NEW e, e = BasicEntry, \A fn, type : Catches(e, fn, type) = BasicCatches(fn, type)
  PROVE  /\ Accounts(e) = {"guards", "throws", "pending"}
         /\ \A fn, args : /\ Enters(e, fn, args) = BasicEnters(fn, args)
                          /\ Raises(e, fn, args) = BasicRaises(fn, args)
                          /\ Work("guards", e, fn, args) = BasicGuards(fn, args)
                          /\ Work("throws", e, fn, args) = BasicThrows(fn, args)
                          /\ Work("pending", e, fn, args) =
                               IF "none" \in BasicEnters(fn, args) THEN 0 ELSE -1
                          /\ Leaks(e, fn, args) = BasicLeaks(fn)
                          /\ ClausesKept(e, fn, args)
                          /\ \A m \in Accounts(e) : Evenly(m, e, fn, args)
         /\ \A fn : fn \notin BasicTrying => Plain(e, fn)
<1>1. Accounts(e) = {"guards", "throws", "pending"}
  BY DEF Accounts, PluginEntry, BasicEntry, CfiEntry, ExtEntry, DeepEntry, StressEntry
<1>2. \A fn, args : /\ Enters(e, fn, args) = BasicEnters(fn, args)
                    /\ Raises(e, fn, args) = BasicRaises(fn, args)
                    /\ Guards(e, fn, args) = BasicGuards(fn, args)
  BY DEF Enters, Raises, Guards, PluginEntry, BasicEntry, CfiEntry, ExtEntry, DeepEntry,
     StressEntry
<1>3. \A fn, args : /\ Work("guards", e, fn, args) = BasicGuards(fn, args)
                    /\ Work("throws", e, fn, args) = BasicThrows(fn, args)
                    /\ Work("pending", e, fn, args) =
                               IF "none" \in BasicEnters(fn, args) THEN 0 ELSE -1
  BY <1>2, SeedsDecide DEF Work, Fare, BasicEntry, CfiEntry, ExtEntry
<1>4. \A fn : fn \notin BasicTrying => Plain(e, fn)
  BY DEF Plain, BasicTrying, BasicCatches
<1>5. /\ Catches(e, "mid_try", "LeafError") = "mid_catch"
      /\ Catches(e, "mid_try", "BranchError") = "none"
      /\ Catches(e, "bridge2_try", "LeafError") = "bridge2_catch"
      /\ Catches(e, "bridge2_try", "BranchError") = "none"
      /\ Catches(e, "root_try", "LeafError") = "base_catch"
      /\ Catches(e, "root_try", "BranchError") = "branch_catch"
      /\ Catches(e, "bridge1_try", "LeafError") = "base_catch"
      /\ Catches(e, "bridge1_try", "BranchError") = "branch_catch"
  BY DEF BasicCatches
<1>6. \A args : /\ Raises(e, "mid_try", args) = {"LeafError", "BranchError"}
                /\ Raises(e, "bridge2_try", args) = {"LeafError", "BranchError"}
                /\ Raises(e, "root_try", args) = {"LeafError", "BranchError"}
                /\ Raises(e, "bridge1_try", args) = {"LeafError", "BranchError"}
                /\ Raises(e, "dispatch_try", args) = {} /\ Raises(e, "entry_try", args) = {}
                /\ Raises(e, "mid_catch", args) = {"LeafError"}
                /\ Raises(e, "bridge2_catch", args) = {"LeafError"}
                /\ Raises(e, "base_catch", args) = {} /\ Raises(e, "branch_catch", args) = {}
  BY <1>2 DEF BasicRaises
<1>7. \A fn, args : fn \notin BasicTrying => Raises(e, fn, args) = BasicLeaks(fn)
  BY <1>2 DEF BasicRaises, BasicLeaks, BasicTrying
<1>8. ASSUME NEW fn, NEW args
      PROVE  Leaks(e, fn, args) = BasicLeaks(fn) /\ ClausesKept(e, fn, args)
  <2>1. CASE fn \notin BasicTrying
    BY <1>4, <1>7, <2>1, PlainScope
  <2>2. /\ Enters(e, "mid_catch", args) = {"LeafError"}
        /\ Enters(e, "bridge2_catch", args) = {"LeafError"}
        /\ Enters(e, "base_catch", args) = {"LeafError"}
        /\ Enters(e, "branch_catch", args) = {"BranchError"}
    BY <1>2 DEF BasicEnters, BasicEntry
  <2>3. \A c \in BasicClauses : \A t : Catches(e, c, t) = "none"
    BY <1>4 DEF BasicTrying, BasicClauses, Plain
  <2>4. CASE fn \in {"mid_try", "bridge2_try"}
    <3>1. BasicLeaks(fn) = {"LeafError", "BranchError"}
      BY <2>4 DEF BasicLeaks
    <3>2. Leaks(e, fn, args) = {"LeafError", "BranchError"}
      BY <1>5, <1>6, <2>4 DEF Leaks
    <3>3. ClausesKept(e, fn, args)
      BY <1>5, <1>6, <2>2, <2>3, <2>4 DEF ClausesKept, BasicClauses
    <3> QED
      BY <3>1, <3>2, <3>3
  <2>5. CASE fn \in {"root_try", "bridge1_try"}
    <3>1. BasicLeaks(fn) = {}
      BY <2>5 DEF BasicLeaks
    <3>2. Leaks(e, fn, args) = {}
      BY <1>5, <1>6, <2>5 DEF Leaks
    <3>3. ClausesKept(e, fn, args)
      BY <1>5, <1>6, <2>2, <2>3, <2>5 DEF ClausesKept, BasicClauses
    <3> QED
      BY <3>1, <3>2, <3>3
  <2>6. CASE fn \in {"dispatch_try", "entry_try"}
    <3>1. BasicLeaks(fn) = {}
      BY <2>6 DEF BasicLeaks
    <3> QED
      BY <1>6, <2>6, <3>1 DEF Leaks, ClausesKept
  <2> QED
    BY <2>1, <2>4, <2>5, <2>6 DEF BasicTrying
<1>9. ASSUME NEW fn, NEW args, NEW m \in Accounts(e)
      PROVE  Evenly(m, e, fn, args)
  <2>1. \A c \in BasicClauses : Work(m, e, c, args) = Fare(m)
    BY <1>1, <1>3 DEF BasicClauses, BasicGuards, BasicThrows, BasicEnters, Fare, BasicEntry
  <2>2. CASE fn \notin BasicTrying
    BY <1>4, <2>2, PlainScope DEF Evenly
  <2>3. CASE fn \in BasicTrying
    BY <1>5, <1>6, <2>1, <2>3 DEF Evenly, Settled, BasicClauses, BasicTrying
  <2> QED
    BY <2>2, <2>3
<1> QED
  BY <1>1, <1>2, <1>3, <1>4, <1>8, <1>9

\* The functions and blocks of the basic suite that are a line, and what they call.
BasicLines == {BasicEntry, "dispatch_try", "repeated_root", "root_try", "repeated_mid", "mid_try",
               "rethrowBridge1", "bridge1_try", "rethrowBridge2", "bridge2_try"}
BasicGuarded == {"repeated_root", "repeated_mid", "rethrowBridge1", "rethrowBridge2"}
BasicCallee(fn) ==
  CASE fn = BasicEntry       -> "entry_try"
    [] fn = "dispatch_try"   -> "repeated_root"
    [] fn = "repeated_root"  -> "root_try"
    [] fn = "root_try"       -> "repeated_mid"
    [] fn = "repeated_mid"   -> "mid_try"
    [] fn = "mid_try"        -> "repeated_leaf"
    [] fn = "rethrowBridge1" -> "bridge1_try"
    [] fn = "bridge1_try"    -> "rethrowBridge2"
    [] fn = "rethrowBridge2" -> "bridge2_try"
    [] fn = "bridge2_try"    -> "rethrowLeaf"

\* The basic suite keeps its contracts.
LEMMA BasicOrderly ==
  ASSUME NEW e, e = BasicEntry,
         \A fn, args, exc : Body(e, fn, args, exc) = BasicBody(fn, args, exc),
         \A fn, type : Catches(e, fn, type) = BasicCatches(fn, type)
  PROVE  Orderly(e)
<1>1. ASSUME NEW n \in Nat \ {0}
      PROVE  "none" \in Enters(e, e, << n >>) /\ Raises(e, e, << n >>) = {}
  <2>1. Counted(<< n >>)
    BY DEF Counted
  <2> QED
    BY <2>1, BasicTables DEF BasicEnters, BasicRaises, OnlyIf, BasicEntry
<1>2. ASSUME NEW fn \in STRING, NEW args \in Seq(Int), NEW exc \in MaybeException,
             exc.type \in Enters(e, fn, args)
      PROVE  Keeps(e, fn, args, exc)
  <2> DEFINE body == Body(e, fn, args, exc)
             n == args[1]
  <2>1. exc.type \in BasicEnters(fn, args)
    BY <1>2, BasicTables
  <2>2. fn \in BasicLines \cup BasicClauses \cup
               {"entry_try", "dispatchRoots", "runRethrowTower", "repeated_leaf", "rethrowLeaf"}
    BY <2>1 DEF BasicEnters, BasicLines, BasicClauses
  <2>3. /\ Accounts(e) = {"guards", "throws", "pending"}
        /\ \A g, a : /\ Enters(e, g, a) = BasicEnters(g, a)
                     /\ Raises(e, g, a) = BasicRaises(g, a)
                     /\ Work("guards", e, g, a) = BasicGuards(g, a)
                     /\ Work("throws", e, g, a) = BasicThrows(g, a)
                     /\ Work("pending", e, g, a) = IF "none" \in BasicEnters(g, a) THEN 0 ELSE -1
                     /\ Leaks(e, g, a) = BasicLeaks(g)
                     /\ ClausesKept(e, g, a)
                     /\ \A m \in Accounts(e) : Evenly(m, e, g, a)
        /\ \A g : g \notin BasicTrying => Plain(e, g)
    BY BasicTables
  <2>4. body = BasicBody(fn, args, exc)
    OBVIOUS
  <2>5. Accounts(e) \subseteq AllAccounts \ {"traces"} /\ Accounts(e) \subseteq AllAccounts
    BY <2>3 DEF AllAccounts
  <2>6. CASE fn \in BasicClauses
    <3>1. \A m \in Accounts(e) : Work(m, e, fn, args) = Fare(m)
      BY <2>3, <2>6 DEF BasicClauses, BasicGuards, BasicThrows, BasicEnters, Fare, BasicEntry
    <3>2. Plain(e, fn)
      BY <2>3, <2>6 DEF BasicClauses, BasicTrying
    <3>3. CASE fn \in {"branch_catch", "base_catch"}
      <4>1. body = Caught
        BY <2>4, <3>3 DEF BasicBody, BasicEntry
      <4> QED
        BY <2>5, <3>1, <3>2, <4>1, CatchKeeps
    <3>4. CASE fn \in {"mid_catch", "bridge2_catch"}
      <4> DEFINE c == fn = "bridge2_catch" \/ (exc.code \div 2) % 2 # 0
      <4>1. body = Caught \o (IF c THEN Reraise ELSE << >>)
        BY <2>4, <3>4 DEF BasicBody, MidCatch, BasicEntry
      <4>2. exc.type \in Raises(e, fn, args)
        BY <2>1, <2>3, <3>4 DEF BasicEnters, BasicRaises, BasicEntry
      <4> HIDE DEF c
      <4> QED
        BY <2>5, <3>1, <3>2, <4>1, <4>2, ReraiseKeeps
    <3> QED
      BY <2>6, <3>3, <3>4 DEF BasicClauses
  <2>7. CASE fn \in BasicLines
    <3> DEFINE g == BasicCallee(fn)
               first == IF fn \in BasicGuarded THEN 1 ELSE 0
    <3>1. PICK a : Wraps(body, g, a, first) /\ (fn = BasicEntry => a = args /\ Counted(args))
      <4>1. fn = BasicEntry => Counted(args)
        BY <2>1 DEF BasicEnters, OnlyIf, BasicEntry
      <4>2. \E a : \E s \in {Call(g, a), Try(g, a)} :
              /\ fn = BasicEntry => a = args
              /\ \/ first = 0 /\ body \in {<< s >>, << Capture, s >>, << Capture, s, Capture >>}
                 \/ first = 1 /\ body = << Guard, s >>
        BY <2>4, <2>7 DEF BasicBody, BasicLines, BasicGuarded, BasicCallee, BasicEntry,
           RepeatedMid, MidTry, RepeatedRoot, RootTry, RethrowBridge1, RethrowBridge2,
           Bridge1Try, Bridge2Try
      <4> HIDE DEF g, first, body
      <4> QED
        BY <4>1, <4>2, WrapShapes
    <3>2. "none" \in Enters(e, g, a)
      BY <2>3, <2>7, <3>1 DEF BasicEnters, BasicLines, BasicCallee, OnlyIf, BasicEntry
    <3>3. Leaks(e, g, a) \subseteq Raises(e, fn, args)
      BY <2>3, <2>7 DEF BasicLeaks, BasicRaises, BasicLines, BasicCallee, BasicEntry
    <3>4. ASSUME NEW m \in Accounts(e) PROVE Passes(m, e, fn, args, g, a, first)
      <4>1. fn = BasicEntry => n \in Int
        BY <3>1 DEF Counted
      <4>2. CASE m = "guards"
        BY <2>3, <2>7, <3>1, <4>1, <4>2 DEF Passes, BasicGuards, BasicLines, BasicGuarded,
           BasicCallee, BasicEntry
      <4>3. CASE m = "throws"
        BY <2>3, <2>7, <3>1, <4>1, <4>3 DEF Passes, BasicThrows, BasicLines, BasicCallee, BasicEntry
      <4>4. CASE m = "pending"
        <5>1. Work(m, e, g, a) = 0
          BY <2>3, <3>2, <4>4
        <5>2. "none" \in BasicEnters(fn, args)
          BY <2>7, <3>1 DEF BasicEnters, BasicLines, OnlyIf, BasicEntry
        <5> QED
          BY <2>3, <4>4, <5>1, <5>2 DEF Passes
      <4> QED
        BY <2>3, <4>2, <4>3, <4>4
    <3>5. first \in {0, 1}
      OBVIOUS
    <3> HIDE DEF g, first
    <3> QED
      BY <2>3, <2>5, <3>1, <3>2, <3>3, <3>4, <3>5, WrapKeeps
  <2>8. CASE fn = "repeated_leaf"
    <3>1. IsCase(body, Raises(e, fn, args))
      <4>1. Raises(e, fn, args) = {"LeafError", "BranchError"}
        BY <2>3, <2>8 DEF BasicRaises
      <4>2. body = RepeatedLeaf(n)
        BY <2>4, <2>8 DEF BasicBody, BasicEntry
      <4>3. CASE n % 32 = 7
        <5>1. body = << Guard, Capture >> \o Raise("LeafError", n + 1000)
          BY <4>2, <4>3 DEF RepeatedLeaf
        <5> QED
          BY <4>1, <5>1 DEF IsCase, IsEnding, Raise, Guard, Capture
      <4>4. CASE n % 32 # 7 /\ n % 64 = 11
        <5>1. body = << Guard, Capture >> \o Raise("BranchError", n + 2000)
          BY <4>2, <4>4 DEF RepeatedLeaf
        <5> QED
          BY <4>1, <5>1 DEF IsCase, IsEnding, Raise, Guard, Capture
      <4>5. CASE n % 32 # 7 /\ n % 64 # 11
        <5>1. body = << Guard, Capture >> \o << Capture >>
          BY <4>2, <4>5 DEF RepeatedLeaf
        <5> QED
          BY <5>1 DEF IsCase, IsEnding, Guard, Capture
      <4> QED
        BY <4>3, <4>4, <4>5
    <3>2. \A m \in Accounts(e) : Work(m, e, fn, args) = IF m = "guards" THEN 1 ELSE 0
      BY <2>3, <2>8 DEF BasicGuards, BasicThrows, BasicEnters, BasicEntry
    <3> QED
      BY <2>3, <2>5, <3>1, <3>2, CaseKeeps
  <2>9. CASE fn = "rethrowLeaf"
    <3>1. /\ Len(body) = 4 /\ body[1].op = "guard" /\ body[2].op = "capture"
          /\ body[3] = Count("thrown") /\ body[4].op = "throw"
          /\ body[4].exc.type \in {"LeafError", "BranchError"}
      <4>1. body = RethrowLeaf(n)
        BY <2>4, <2>9 DEF BasicBody, BasicEntry
      <4> QED
        BY <4>1 DEF RethrowLeaf, Guard, Capture, Raise
    <3>2. Raises(e, fn, args) = {"LeafError", "BranchError"}
      BY <2>3, <2>9 DEF BasicRaises
    <3>3. \A i \in 1 .. Len(body) : Contained(e, fn, args, exc, body[i])
      <4>1. \A i \in 1 .. 4 : i = 1 \/ i = 2 \/ i = 3 \/ i = 4
        OBVIOUS
      <4>2. body[3].op = "count"
        BY <3>1 DEF Count
      <4> QED
        BY <3>1, <3>2, <4>1, <4>2 DEF Contained
    <3>4. ASSUME NEW m \in Accounts(e)
          PROVE  Path(m, e, fn, args, exc, 1, Work(m, e, fn, args))
      <4> DEFINE x == IF m = "throws" THEN -1 ELSE 0
      <4>1. m \in AllAccounts /\ m \in {"guards", "throws", "pending"}
        BY <2>3, <2>5
      <4>2. Path(m, e, fn, args, exc, 3, x)
        <5>1. Covers(m, x, CountCost(m, "thrown") + Fare(m))
          BY <4>1 DEF Covers, CountCost, Fare
        <5>2. /\ Len(body) = 3 + 1 /\ body[3] = Count("thrown") /\ body[3 + 1].op = "throw"
              /\ body[3 + 1].exc.type \in Raises(e, fn, args)
          BY <3>1, <3>2
        <5> HIDE DEF x
        <5> QED
          BY <2>3, <4>1, <5>1, <5>2, PathRaise
      <4>3. Len(body) \in Nat /\ 2 <= Len(body) /\ 1 <= Len(body)
        BY <3>1
      <4>4. Path(m, e, fn, args, exc, 1 + 1, x)
        <5>1. Covers(m, x, Cost(m, body[2]) + x)
          BY <3>1, <4>1 DEF Covers, Cost
        <5>2. Path(m, e, fn, args, exc, 2 + 1, x)
          BY <4>2
        <5>3. Path(m, e, fn, args, exc, 2, x)
          <6> HIDE DEF x
          <6> QED
            BY <3>1, <4>3, <5>1, <5>2, PathFlat
        <5> QED
          BY <5>3
      <4>5. Covers(m, Work(m, e, fn, args), Cost(m, body[1]) + x)
        <5>1. Work("guards", e, fn, args) = 1 /\ Work("throws", e, fn, args) = -1
              /\ Work("pending", e, fn, args) = 0
          BY <2>3, <2>9 DEF BasicGuards, BasicThrows, BasicEnters, BasicEntry
        <5> QED
          BY <3>1, <4>1, <5>1 DEF Covers, Cost
      <4> HIDE DEF x
      <4> QED
        BY <3>1, <4>3, <4>4, <4>5, PathFlat
    <3>5. Len(body) \in Nat
      BY <3>1
    <3> QED
      BY <2>3, <3>3, <3>4, <3>5, KeepsBy
  <2>10. CASE fn \in {"dispatchRoots", "runRethrowTower"}
    <3> DEFINE g == IF fn = "dispatchRoots" THEN "dispatch_try" ELSE "rethrowBridge1"
               turns == IF fn = "dispatchRoots" THEN n * RootCount ELSE n * 16
               k == turns + 1
    <3>1. n \in Nat \ {0}
      BY <2>1, <2>10 DEF BasicEnters, BasicEntry, OnlyIf, Counted
    <3>2. turns \in Nat /\ turns = IF fn = "dispatchRoots" THEN 48 * n ELSE 16 * n
      BY <3>1 DEF RootCount
    <3>3. /\ Len(body) = turns
          /\ \A j \in 1 .. turns : body[j].op \in {"call", "try"} /\ body[j].fn = g
      BY <2>4, <2>10, <3>2 DEF BasicBody, DispatchRoots, RunRethrowTower, Call, Try, BasicEntry
    <3> DEFINE step == [m \in AllAccounts |->
                          CASE m = "guards" -> 3
                            [] m = "throws" /\ fn = "runRethrowTower" -> -1
                            [] OTHER -> 0]
               rest == [m \in AllAccounts |-> 0]
    <3>4. /\ \A a : /\ Work("guards", e, g, a) = 3
                    /\ Work("throws", e, g, a) = IF fn = "dispatchRoots" THEN 0 ELSE -1
                    /\ Work("pending", e, g, a) = 0
                    /\ "none" \in Enters(e, g, a) /\ Leaks(e, g, a) = {}
      BY <2>3, <2>10 DEF BasicGuards, BasicThrows, BasicEnters, BasicLeaks, BasicEntry
    <3>5. /\ Work("guards", e, fn, args) = IF fn = "dispatchRoots" THEN 144 * n ELSE 48 * n
          /\ Work("throws", e, fn, args) = IF fn = "dispatchRoots" THEN 0 ELSE -16 * n
          /\ Work("pending", e, fn, args) = 0
      BY <2>1, <2>3, <2>10 DEF BasicGuards, BasicThrows, BasicEnters, BasicEntry, OnlyIf
    <3> HIDE DEF n, g, turns
    <3>6. k \in Nat /\ k # 0 /\ k - 1 = turns
      BY <3>2
    <3>7. ASSUME NEW m \in Accounts(e)
          PROVE  LoopWork(m, e, body, k, Work(m, e, fn, args), step[m], rest[m])
      <4>1. /\ step[m] = CASE m = "guards" -> 3
                           [] m = "throws" /\ fn = "runRethrowTower" -> -1
                           [] OTHER -> 0
            /\ rest[m] = 0 /\ step[m] \in Int
        BY <2>5
      <4>2. \A a : Work(m, e, g, a) = step[m]
        BY <2>3, <2>10, <3>4, <4>1
      <4>3. Work(m, e, fn, args) = (k - 1) * step[m] + rest[m]
        <5>1. CASE m = "guards"
          BY <2>10, <3>1, <3>2, <3>5, <3>6, <4>1, <5>1
        <5>2. CASE m = "throws"
          BY <2>10, <3>1, <3>2, <3>5, <3>6, <4>1, <5>2
        <5>3. CASE m = "pending"
          BY <2>10, <3>1, <3>2, <3>5, <3>6, <4>1, <5>3
        <5> QED
          BY <2>3, <5>1, <5>2, <5>3
      <4>4. m = "pending" => step[m] = 0
        BY <4>1
      <4> HIDE DEF k, step, rest
      <4> QED
        BY <3>3, <3>6, <4>1, <4>2, <4>3, <4>4 DEF LoopWork
    <3>8. IsLoop(e, body, k)
      <4> HIDE DEF k
      <4> QED
        BY <3>3, <3>4, <3>6 DEF IsLoop, Quiet
    <3> HIDE DEF k, step, rest
    <3> QED
      BY <2>3, <2>5, <3>6, <3>7, <3>8, LoopKeeps
  <2>11. CASE fn = "entry_try"
    <3> DEFINE step == [m \in AllAccounts |-> Work(m, e, "dispatchRoots", args)]
               rest == [m \in AllAccounts |-> Work(m, e, "runRethrowTower", args)]
               k == 2
    <3>1. n \in Nat \ {0} /\ Counted(args)
      BY <2>1, <2>11 DEF BasicEnters, BasicEntry, OnlyIf, Counted
    <3>2. body = << Call("dispatchRoots", args), Call("runRethrowTower", args) >>
      BY <2>4, <2>11 DEF BasicBody, BasicEntry
    <3>3. /\ Len(body) = 2 /\ body[1].op = "call" /\ body[2].op = "call"
          /\ body[1].fn = "dispatchRoots" /\ body[1].args = args
          /\ body[2].fn = "runRethrowTower" /\ body[2].args = args
      BY <3>2 DEF Call
    <3>4. /\ Work("guards", e, "dispatchRoots", args) = 144 * n
          /\ Work("guards", e, "runRethrowTower", args) = 48 * n
          /\ Work("guards", e, fn, args) = 192 * n
          /\ Work("throws", e, "dispatchRoots", args) = 0
          /\ Work("throws", e, "runRethrowTower", args) = -16 * n
          /\ Work("throws", e, fn, args) = -16 * n
          /\ Work("pending", e, "dispatchRoots", args) = 0
          /\ Work("pending", e, "runRethrowTower", args) = 0
          /\ Work("pending", e, fn, args) = 0
      BY <2>3, <2>11, <3>1 DEF BasicGuards, BasicThrows, BasicEnters, BasicEntry, OnlyIf
    <3>5. /\ "none" \in Enters(e, "dispatchRoots", args) /\ Leaks(e, "dispatchRoots", args) = {}
          /\ "none" \in Enters(e, "runRethrowTower", args) /\ Leaks(e, "runRethrowTower", args) = {}
      BY <2>3, <3>1 DEF BasicEnters, BasicLeaks, BasicEntry, OnlyIf
    <3>6. k \in Nat /\ k # 0 /\ k - 1 = 1 /\ Len(body) = k /\ Len(body) # k - 1
          /\ \A j \in 1 .. k - 1 : j = 1
      BY <3>3
    <3>7. IsLoop(e, body, k)
      BY <3>3, <3>5, <3>6 DEF IsLoop, Quiet
    <3> HIDE DEF n
    <3>8. ASSUME NEW m \in Accounts(e)
          PROVE  LoopWork(m, e, body, k, Work(m, e, fn, args), step[m], rest[m])
      <4>1. /\ step[m] = Work(m, e, "dispatchRoots", args)
            /\ rest[m] = Work(m, e, "runRethrowTower", args)
        BY <2>5
      <4>2. /\ step[m] \in Int /\ rest[m] \in Int /\ (m = "pending" => step[m] = 0 /\ rest[m] = 0)
            /\ Work(m, e, fn, args) = (k - 1) * step[m] + rest[m]
        BY <2>3, <3>1, <3>4, <3>6, <4>1
      <4> HIDE DEF step, rest
      <4> QED
        BY <3>3, <3>6, <4>1, <4>2 DEF LoopWork
    <3> HIDE DEF k, step, rest
    <3> QED
      BY <2>3, <2>5, <3>6, <3>7, <3>8, LoopKeeps
  <2> QED
    BY <2>2, <2>6, <2>7, <2>8, <2>9, <2>10, <2>11
<1> QED
  BY <1>1, <1>2 DEF Orderly

-----------------------------------------------------------------------------

(* ------------------------------ DeepSuite ------------------------------ *)

DeepTrying == {"recursor_try", "tuple_try", "container_try", "node_try"}
DeepClauses == {"recursor_catch", "tuple_catch", "node_container_catch", "container_catch", "node_catch"}

\* What leaves a scope of the deep suite.
DeepLeaks(fn) ==
  CASE fn = "DeepRecursor" -> {"RecursiveError"}
    [] fn = "runContainerCase" -> {"ContainerError"}
    [] fn = "Node::eval" -> {"ContainerError", "NodeError"}
    [] fn \in {"node_try", "node_catch", "runNodeGraph", "runOptionalTupleCase"} -> {"NodeError"}
    [] OTHER -> {}

\* The tables of the deep suite.
LEMMA DeepTables ==
  ASSUME NEW e, e = DeepEntry, \A fn, type : Catches(e, fn, type) = DeepCatches(fn, type)
  PROVE  /\ Accounts(e) = {"pending"}
         /\ \A fn, args : /\ Enters(e, fn, args) = DeepEnters(fn, args)
                          /\ Raises(e, fn, args) = DeepRaises(fn, args)
                          /\ Work("pending", e, fn, args) =
                               IF "none" \in DeepEnters(fn, args) THEN 0 ELSE -1
                          /\ Leaks(e, fn, args) = DeepLeaks(fn)
                          /\ ClausesKept(e, fn, args)
                          /\ \A m \in Accounts(e) : Evenly(m, e, fn, args)
         /\ \A fn : fn \notin DeepTrying => Plain(e, fn)
<1>1. Accounts(e) = {"pending"}
  BY DEF Accounts, PluginEntry, BasicEntry, CfiEntry, ExtEntry, DeepEntry, StressEntry
<1>2. \A fn, args : /\ Enters(e, fn, args) = DeepEnters(fn, args)
                    /\ Raises(e, fn, args) = DeepRaises(fn, args)
  BY DEF Enters, Raises, PluginEntry, BasicEntry, CfiEntry, ExtEntry, DeepEntry,
     StressEntry
<1>3. \A fn, args : Work("pending", e, fn, args) =
                      IF "none" \in DeepEnters(fn, args) THEN 0 ELSE -1
  BY <1>2, SeedsDecide DEF Work, Fare
<1>4. \A fn : fn \notin DeepTrying => Plain(e, fn)
  BY DEF Plain, DeepTrying, DeepCatches
<1>5. /\ Catches(e, "recursor_try", "RecursiveError") = "recursor_catch"
      /\ Catches(e, "tuple_try", "NodeError") = "tuple_catch"
      /\ Catches(e, "container_try", "ContainerError") = "container_catch"
      /\ Catches(e, "node_try", "ContainerError") = "node_container_catch"
      /\ Catches(e, "node_try", "NodeError") = "node_catch"
  BY DEF DeepCatches
<1>6. \A args : /\ Raises(e, "recursor_try", args) = {"RecursiveError"}
                /\ Raises(e, "tuple_try", args) = {"NodeError"}
                /\ Raises(e, "container_try", args) = {"ContainerError"}
                /\ Raises(e, "node_try", args) = {"ContainerError", "NodeError"}
                /\ Raises(e, "recursor_catch", args) = {} /\ Raises(e, "tuple_catch", args) = {}
                /\ Raises(e, "container_catch", args) = {}
                /\ Raises(e, "node_container_catch", args) = {}
                /\ Raises(e, "node_catch", args) = {"NodeError"}
  BY <1>2 DEF DeepRaises
<1>7. \A fn, args : fn \notin DeepTrying => Raises(e, fn, args) = DeepLeaks(fn)
  BY <1>2 DEF DeepRaises, DeepLeaks, DeepTrying
<1>8. ASSUME NEW fn, NEW args
      PROVE  Leaks(e, fn, args) = DeepLeaks(fn) /\ ClausesKept(e, fn, args)
  <2>1. CASE fn \notin DeepTrying
    BY <1>4, <1>7, <2>1, PlainScope
  <2>2. /\ Enters(e, "recursor_catch", args) = {"RecursiveError"}
        /\ Enters(e, "tuple_catch", args) = {"NodeError"}
        /\ Enters(e, "container_catch", args) = {"ContainerError"}
        /\ Enters(e, "node_container_catch", args) = {"ContainerError"}
        /\ Enters(e, "node_catch", args) = {"NodeError"}
    BY <1>2 DEF DeepEnters, DeepEntry
  <2>3. \A c \in DeepClauses : \A t : Catches(e, c, t) = "none"
    BY <1>4 DEF DeepTrying, DeepClauses, Plain
  <2>4. CASE fn \in DeepTrying
    <3>1. DeepLeaks(fn) = IF fn = "node_try" THEN {"NodeError"} ELSE {}
      BY <2>4 DEF DeepLeaks, DeepTrying
    <3>2. Leaks(e, fn, args) = IF fn = "node_try" THEN {"NodeError"} ELSE {}
      BY <1>5, <1>6, <2>4 DEF Leaks, DeepTrying
    <3>3. ClausesKept(e, fn, args)
      BY <1>5, <1>6, <2>2, <2>3, <2>4 DEF ClausesKept, DeepClauses, DeepTrying
    <3> QED
      BY <3>1, <3>2, <3>3
  <2> QED
    BY <2>1, <2>4
<1>9. ASSUME NEW fn, NEW args, NEW m \in Accounts(e)
      PROVE  Evenly(m, e, fn, args)
  <2>1. \A c \in DeepClauses : Work(m, e, c, args) = Fare(m)
    BY <1>1, <1>3 DEF DeepClauses, DeepEnters, Fare, DeepEntry
  <2>2. CASE fn \notin DeepTrying
    BY <1>4, <2>2, PlainScope
  <2>3. CASE fn \in DeepTrying
    BY <1>5, <1>6, <2>1, <2>3 DEF Evenly, Settled, DeepClauses, DeepTrying
  <2> QED
    BY <2>2, <2>3
<1> QED
  BY <1>1, <1>2, <1>3, <1>4, <1>8, <1>9

DeepLines == {"recursor_try", "tuple_try", "runOptionalTupleCase", "node_try", "container_try"}
DeepLoops == {DeepEntry, "runDeepIteration", "runNodeGraph"}
DeepCallee(fn) ==
  CASE fn = "recursor_try"         -> "DeepRecursor"
    [] fn = "tuple_try"            -> "runOptionalTupleCase"
    [] fn = "runOptionalTupleCase" -> "runNodeGraph"
    [] fn = "node_try"             -> "Node::eval"
    [] fn = "container_try"        -> "runContainerCase"

\* The deep suite keeps its contracts.
LEMMA DeepOrderly ==
  ASSUME NEW e, e = DeepEntry,
         \A fn, args, exc : Body(e, fn, args, exc) = DeepBody(fn, args, exc),
         \A fn, type : Catches(e, fn, type) = DeepCatches(fn, type)
  PROVE  Orderly(e)
<1>1. ASSUME NEW n \in Nat \ {0}
      PROVE  "none" \in Enters(e, e, << n >>) /\ Raises(e, e, << n >>) = {}
  <2>1. Counted(<< n >>)
    BY DEF Counted
  <2> QED
    BY <2>1, DeepTables DEF DeepEnters, DeepRaises, OnlyIf, DeepEntry
<1>2. ASSUME NEW fn \in STRING, NEW args \in Seq(Int), NEW exc \in MaybeException,
             exc.type \in Enters(e, fn, args)
      PROVE  Keeps(e, fn, args, exc)
  <2> DEFINE body == Body(e, fn, args, exc)
             id == args[1]
             seed == args[Len(args)]
  <2>1. exc.type \in DeepEnters(fn, args)
    BY <1>2, DeepTables
  <2>2. fn \in DeepLines \cup DeepLoops \cup DeepClauses \cup
               {"DeepRecursor", "Node::eval", "runContainerCase", "visitVariant"}
    BY <2>1 DEF DeepEnters, DeepLines, DeepLoops, DeepClauses
  <2>3. /\ Accounts(e) = {"pending"}
        /\ \A g, a : /\ Enters(e, g, a) = DeepEnters(g, a)
                     /\ Raises(e, g, a) = DeepRaises(g, a)
                     /\ Work("pending", e, g, a) = IF "none" \in DeepEnters(g, a) THEN 0 ELSE -1
                     /\ Leaks(e, g, a) = DeepLeaks(g)
                     /\ ClausesKept(e, g, a)
                     /\ \A m \in Accounts(e) : Evenly(m, e, g, a)
        /\ \A g : g \notin DeepTrying => Plain(e, g)
    BY DeepTables
  <2>4. body = DeepBody(fn, args, exc)
    OBVIOUS
  <2>5. Accounts(e) \subseteq AllAccounts \ {"traces"} /\ Accounts(e) \subseteq AllAccounts
    BY <2>3 DEF AllAccounts
  <2>6. \A g \in DeepLines \cup {"DeepRecursor", "Node::eval", "runContainerCase", "visitVariant",
                                 "runDeepIteration", "runNodeGraph"} :
          \A a : "none" \in Enters(e, g, a) /\ Work("pending", e, g, a) = 0
    BY <2>3 DEF DeepEnters, DeepLines, DeepEntry
  <2>7. fn \notin DeepClauses => Work("pending", e, fn, args) = 0
    BY <2>1, <2>2, <2>3, <2>6 DEF DeepEnters, DeepLoops, DeepEntry, OnlyIf
  <2>8. CASE fn \in DeepClauses
    <3>1. \A m \in Accounts(e) : Work(m, e, fn, args) = Fare(m)
      BY <2>3, <2>8 DEF DeepClauses, DeepEnters, Fare, DeepEntry
    <3>2. Plain(e, fn)
      BY <2>3, <2>8 DEF DeepClauses, DeepTrying
    <3>3. CASE fn # "node_catch"
      <4>1. body = Caught
        BY <2>4, <2>8, <3>3 DEF DeepBody, DeepClauses, DeepEntry
      <4> QED
        BY <2>5, <3>1, <3>2, <4>1, CatchKeeps
    <3>4. CASE fn = "node_catch"
      <4> DEFINE c == exc.code % 2 # 0
      <4>1. body = Caught \o (IF c THEN Reraise ELSE << >>)
        BY <2>4, <3>4 DEF DeepBody, NodeCatch, DeepEntry
      <4>2. exc.type \in Raises(e, fn, args)
        BY <2>1, <2>3, <3>4 DEF DeepEnters, DeepRaises, DeepEntry
      <4> HIDE DEF c
      <4> QED
        BY <2>5, <3>1, <3>2, <4>1, <4>2, ReraiseKeeps
    <3> QED
      BY <3>3, <3>4
  <2>9. CASE fn \in DeepLines
    <3> DEFINE g == DeepCallee(fn)
               first == IF fn = "runOptionalTupleCase" THEN 1 ELSE 0
    <3>1. PICK a : Wraps(body, g, a, first)
      <4>1. \E a : \E s \in {Call(g, a), Try(g, a)} :
              \/ first = 0 /\ body = << s >>
              \/ first = 1 /\ body = << Guard, Capture, s >>
        BY <2>4, <2>9 DEF DeepBody, DeepLines, DeepCallee, DeepEntry, OptionalTupleCase
      <4> HIDE DEF g, first, body
      <4> QED
        BY <4>1, WrapShapes
    <3>2. g \in {"DeepRecursor", "runOptionalTupleCase", "runNodeGraph", "Node::eval", "runContainerCase"}
      BY <2>9 DEF DeepCallee, DeepLines
    <3>3. "none" \in Enters(e, g, a) /\ Work("pending", e, g, a) = 0
      BY <2>6, <3>2 DEF DeepLines
    <3>4. Leaks(e, g, a) \subseteq Raises(e, fn, args)
      BY <2>3, <2>9 DEF DeepLeaks, DeepRaises, DeepLines, DeepCallee
    <3>5. \A m \in Accounts(e) : Passes(m, e, fn, args, g, a, first)
      BY <2>3, <2>7, <2>9, <3>3 DEF Passes, DeepLines, DeepClauses
    <3>6. first \in {0, 1}
      OBVIOUS
    <3> HIDE DEF g, first
    <3> QED
      BY <2>3, <2>5, <3>1, <3>3, <3>4, <3>5, <3>6, WrapKeeps
  <2>10. CASE fn \in DeepLoops
    <3> DEFINE due == [j \in Int |-> 0]
               k == Len(body) + 1
    <3>1. Counted(args) \/ fn # DeepEntry
      BY <2>1, <2>10 DEF DeepEnters, DeepEntry, OnlyIf
    <3>2. /\ Len(body) \in Nat
          /\ \A j \in 1 .. Len(body) :
               /\ body[j].op \in {"call", "try"}
               /\ body[j].fn \in {"recursor_try", "tuple_try", "container_try", "runDeepIteration"} \cup
                                   (IF fn = "runNodeGraph" THEN {"node_try"} ELSE {})
      <4>1. CASE fn = DeepEntry
        <5>1. body = DeepRounds(seed) /\ seed \in Nat
          BY <2>4, <3>1, <4>1 DEF DeepBody, DeepEntry, Counted
        <5> HIDE DEF body, seed
        <5> QED
          BY <5>1 DEF DeepRounds, Call
      <4>2. CASE fn = "runDeepIteration"
        BY <2>4, <4>2 DEF DeepBody, DeepEntry, DeepIteration, Try
      <4>3. CASE fn = "runNodeGraph"
        <5>1. body = RunNodeGraph(seed)
          BY <2>4, <4>3 DEF DeepBody, DeepEntry
        <5> HIDE DEF body, seed
        <5>2. Len(body) = 12 /\ \A j \in 1 .. 12 : body[j].op = "try" /\ body[j].fn = "node_try"
          BY <5>1 DEF RunNodeGraph, Sweep
        <5>3. "node_try" \in {"recursor_try", "tuple_try", "container_try", "runDeepIteration"} \cup
                               (IF fn = "runNodeGraph" THEN {"node_try"} ELSE {})
          BY <4>3
        <5>4. Len(body) \in Nat /\ \A j \in 1 .. Len(body) : j \in 1 .. 12
          BY <5>2
        <5> QED
          BY <5>2, <5>3, <5>4, Zenon
      <4> QED
        BY <2>10, <4>1, <4>2, <4>3 DEF DeepLoops
    <3>3. k \in Nat /\ k # 0 /\ k - 1 = Len(body)
      BY <3>2
    <3>4. IsEnding(body, k, Raises(e, fn, args))
      BY <3>3 DEF IsEnding
    <3>5. ASSUME NEW j \in 1 .. k - 1
          PROVE  Part(e, fn, args, body[j], 0, 0)
      <4>1. /\ body[j].op \in {"call", "try"}
            /\ body[j].fn \in {"recursor_try", "tuple_try", "container_try", "runDeepIteration"} \cup
                                   (IF fn = "runNodeGraph" THEN {"node_try"} ELSE {})
        BY <3>2, <3>3
      <4> DEFINE s == body[j]
      <4> HIDE DEF s
      <4>2. "none" \in Enters(e, s.fn, s.args) /\ Work("pending", e, s.fn, s.args) = 0
        BY <2>6, <4>1 DEF DeepLines, s
      <4>3. Leaks(e, s.fn, s.args) \subseteq Raises(e, fn, args)
        BY <2>3, <4>1 DEF DeepLeaks, DeepRaises, s
      <4>4. s.op \in {"call", "try"}
        BY <4>1 DEF s
      <4>5. Part(e, fn, args, s, 0, 0)
        BY <2>3, <4>2, <4>3, <4>4 DEF Part
      <4> QED
        BY <4>5 DEF s
    <3>6. \A j \in Int : due[j] = 0
      OBVIOUS
    <3>7. \A m \in Accounts(e) : Work(m, e, fn, args) = IF m = "guards" THEN due[1] ELSE 0
      BY <2>3, <2>7, <2>10 DEF DeepLoops, DeepClauses, DeepEntry
    <3> HIDE DEF due, k
    <3>8. Prelude(e, fn, args, body, k, due)
      <4>1. ASSUME NEW j \in 1 .. k - 1 PROVE Part(e, fn, args, body[j], due[j], due[j + 1])
        <5>1. due[j] = 0 /\ due[j + 1] = 0
          BY <3>3, <3>6
        <5> QED
          BY <3>5, <5>1
      <4> QED
        BY <3>3, <3>4, <3>6, <3>7, <4>1 DEF Prelude
    <3> QED
      BY <2>3, <2>5, <3>8, PreludeKeeps
  <2>11. CASE fn = "visitVariant"
    <3> DEFINE due == [j \in Int |-> 0]
    <3>1. body = VisitVariant
      BY <2>4, <2>11 DEF DeepBody, DeepEntry
    <3>2. /\ IsEnding(body, 3, Raises(e, fn, args))
          /\ Part(e, fn, args, body[1], 0, 0) /\ Part(e, fn, args, body[2], 0, 0)
      BY <3>1 DEF VisitVariant, IsEnding, Part, Count, Capture, Counters
    <3>3. \A j \in Int : due[j] = 0
      OBVIOUS
    <3> HIDE DEF due
    <3>4. \A j \in 1 .. 3 - 1 : Part(e, fn, args, body[j], due[j], due[j + 1])
      <4>1. \A j \in 1 .. 3 - 1 : j \in {1, 2} /\ j \in Int /\ j + 1 \in Int
        OBVIOUS
      <4> QED
        BY <3>2, <3>3, <4>1
    <3>5. \A m \in Accounts(e) : Work(m, e, fn, args) = IF m = "guards" THEN due[1] ELSE 0
      BY <2>3, <2>7, <2>11 DEF DeepClauses
    <3>6. Prelude(e, fn, args, body, 3, due)
      BY <3>2, <3>3, <3>4, <3>5 DEF Prelude
    <3> QED
      BY <2>3, <2>5, <3>6, PreludeKeeps
  <2>12. CASE fn = "runContainerCase"
    <3> DEFINE due == [j \in Int |-> IF j <= 1 THEN 1 ELSE 0]
               c == seed % 29 = 7
               code == seed + 700
    <3>1. body = << Guard >> \o [i \in 1 .. 14 |-> Call("visitVariant", << >>)] \o
                 (IF c THEN Raise("ContainerError", code) ELSE << Capture >>)
      BY <2>4, <2>12 DEF DeepBody, DeepEntry, RunContainerCase
    <3>2. Raises(e, fn, args) = {"ContainerError"}
      BY <2>3, <2>12 DEF DeepRaises
    <3> HIDE DEF c, code, due
    <3>3. /\ IsEnding(body, 16, Raises(e, fn, args))
          /\ body[1] = Guard /\ \A j \in 2 .. 15 : body[j] = Call("visitVariant", << >>)
      BY <3>1, <3>2 DEF IsEnding, Raise, Capture
    <3>4. \A j \in Int : due[j] = IF j <= 1 THEN 1 ELSE 0
      BY DEF due
    <3>5. ASSUME NEW j \in 1 .. 16 - 1 PROVE Part(e, fn, args, body[j], due[j], due[j + 1])
      <4>1. Part(e, fn, args, Guard, 1, 0)
        BY DEF Part, Guard
      <4>2. Part(e, fn, args, Call("visitVariant", << >>), 0, 0)
        BY <2>3, <2>6 DEF Part, Call, DeepLeaks
      <4>3. \/ j = 1 /\ due[j] = 1 /\ due[j + 1] = 0
            \/ j \in 2 .. 15 /\ due[j] = 0 /\ due[j + 1] = 0
        BY <3>4
      <4> QED
        BY <3>3, <4>1, <4>2, <4>3
    <3>6. \A m \in Accounts(e) : Work(m, e, fn, args) = IF m = "guards" THEN due[1] ELSE 0
      BY <2>3, <2>7, <2>12 DEF DeepClauses
    <3>7. (\A j \in Int : due[j] \in Int) /\ due[16] = 0
      BY <3>4
    <3>8. Prelude(e, fn, args, body, 16, due)
      BY <3>3, <3>5, <3>6, <3>7 DEF Prelude
    <3> QED
      BY <2>3, <2>5, <3>8, PreludeKeeps
  <2>13. CASE fn = "Node::eval"
    <3> DEFINE due == [j \in Int |-> IF j <= 1 THEN 1 ELSE 0]
               c == (seed + id) % 31 = 11
               code == seed + id * 900 + 11
               s == Call("runContainerCase", << seed + id * 3 >>)
    <3>1. body = << Guard, Capture, s >> \o (IF c THEN Raise("NodeError", code) ELSE << >>)
      BY <2>4, <2>13 DEF DeepBody, DeepEntry, NodeEval
    <3>2. Raises(e, fn, args) = {"ContainerError", "NodeError"}
      BY <2>3, <2>13 DEF DeepRaises
    <3>3. Part(e, fn, args, s, 0, 0)
      <4>1. \A a : Leaks(e, "runContainerCase", a) = {"ContainerError"}
        BY <2>3 DEF DeepLeaks
      <4> QED
        BY <2>3, <2>6, <3>2, <4>1 DEF Part, Call
    <3> HIDE DEF c, code, due, s
    <3>4. /\ IsEnding(body, 4, Raises(e, fn, args))
          /\ body[1] = Guard /\ body[2] = Capture /\ body[3] = s
      BY <3>1, <3>2 DEF IsEnding, Raise
    <3>5. \A j \in Int : due[j] = IF j <= 1 THEN 1 ELSE 0
      BY DEF due
    <3>6. ASSUME NEW j \in 1 .. 4 - 1 PROVE Part(e, fn, args, body[j], due[j], due[j + 1])
      <4>1. Part(e, fn, args, Guard, 1, 0) /\ Part(e, fn, args, Capture, 0, 0)
        BY DEF Part, Guard, Capture
      <4>2. \/ j = 1 /\ due[j] = 1 /\ due[j + 1] = 0
            \/ j \in {2, 3} /\ due[j] = 0 /\ due[j + 1] = 0
        BY <3>5
      <4> QED
        BY <3>3, <3>4, <4>1, <4>2
    <3>7. \A m \in Accounts(e) : Work(m, e, fn, args) = IF m = "guards" THEN due[1] ELSE 0
      BY <2>3, <2>7, <2>13 DEF DeepClauses
    <3>8. (\A j \in Int : due[j] \in Int) /\ due[4] = 0
      BY <3>5
    <3>9. Prelude(e, fn, args, body, 4, due)
      BY <3>4, <3>6, <3>7, <3>8 DEF Prelude
    <3> QED
      BY <2>3, <2>5, <3>9, PreludeKeeps
  <2>14. CASE fn = "DeepRecursor"
    <3> DEFINE due == [j \in Int |-> IF j <= 2 THEN 1 ELSE 0]
               c == (seed + id) % 97 = 13
               code == seed + id * 1000
               s == Call("DeepRecursor", << id - 1, seed + id >>)
               k == IF id # 0 /\ ~c THEN 5 ELSE 4
    <3>1. body = << Count("recursion_entries"), Guard, Capture >> \o
                 (IF id = 0 THEN << >> ELSE IF c THEN Raise("RecursiveError", code) ELSE << s >>)
      BY <2>4, <2>14 DEF DeepBody, DeepEntry, DeepRecursor
    <3>2. Raises(e, fn, args) = {"RecursiveError"}
      BY <2>3, <2>14 DEF DeepRaises
    <3>3. Part(e, fn, args, s, 0, 0)
      BY <2>3, <2>6, <3>2 DEF Part, Call, DeepLeaks
    <3>4. k \in {4, 5}
      OBVIOUS
    <3> HIDE DEF c, code, due, s
    <3>5. /\ IsEnding(body, k, Raises(e, fn, args))
          /\ body[1] = Count("recursion_entries") /\ body[2] = Guard /\ body[3] = Capture
          /\ k = 5 => body[4] = s
      <4>1. CASE id = 0
        BY <3>1, <4>1 DEF IsEnding
      <4>2. CASE id # 0 /\ c
        BY <3>1, <3>2, <4>2 DEF IsEnding, Raise
      <4>3. CASE id # 0 /\ ~c
        BY <3>1, <4>3 DEF IsEnding
      <4> QED
        BY <4>1, <4>2, <4>3
    <3> HIDE DEF k
    <3>6. \A j \in Int : due[j] = IF j <= 2 THEN 1 ELSE 0
      BY DEF due
    <3>7. ASSUME NEW j \in 1 .. k - 1 PROVE Part(e, fn, args, body[j], due[j], due[j + 1])
      <4>1. /\ Part(e, fn, args, Guard, 1, 0) /\ Part(e, fn, args, Capture, 0, 0)
            /\ Part(e, fn, args, Count("recursion_entries"), 1, 1)
        BY DEF Part, Guard, Capture, Count, Counters
      <4>2. \/ j = 1 /\ due[j] = 1 /\ due[j + 1] = 1
            \/ j = 2 /\ due[j] = 1 /\ due[j + 1] = 0
            \/ j = 3 /\ due[j] = 0 /\ due[j + 1] = 0
            \/ j = 4 /\ k = 5 /\ due[j] = 0 /\ due[j + 1] = 0
        BY <3>4, <3>6
      <4> QED
        BY <3>3, <3>5, <4>1, <4>2
    <3>8. \A m \in Accounts(e) : Work(m, e, fn, args) = IF m = "guards" THEN due[1] ELSE 0
      BY <2>3, <2>7, <2>14 DEF DeepClauses
    <3>9. (\A j \in Int : due[j] \in Int) /\ due[k] = 0 /\ k \in Nat /\ k # 0
      BY <3>4, <3>6
    <3>10. Prelude(e, fn, args, body, k, due)
      BY <3>5, <3>7, <3>8, <3>9 DEF Prelude
    <3> QED
      BY <2>3, <2>5, <3>10, PreludeKeeps
  <2> QED
    BY <2>2, <2>8, <2>9, <2>10, <2>11, <2>12, <2>13, <2>14
<1> QED
  BY <1>1, <1>2 DEF Orderly

-----------------------------------------------------------------------------

(* ------------------------------- CfiSuite ------------------------------ *)

\* Each turn constructs step guards.
RunWork(e, fn, args, g, turns, step) ==
  /\ step \in Nat
  /\ \A a : /\ "none" \in Enters(e, g, a) /\ Leaks(e, g, a) = {}
            /\ Work("guards", e, g, a) = step
            /\ Work("programs", e, g, a) = 0 /\ Work("pending", e, g, a) = 0
  /\ Work("guards", e, fn, args) = turns * step
  /\ Work("programs", e, fn, args) = 1 /\ Work("pending", e, fn, args) = 0

\* A program that is a run keeps its contract,
LEMMA RunKeeps ==
  ASSUME NEW e, NEW fn, NEW args, NEW exc, NEW g, NEW turns, NEW step,
         IsRun(Body(e, fn, args, exc), g, turns), RunWork(e, fn, args, g, turns, step),
         Accounts(e) = {"guards", "programs", "pending"}, ClausesKept(e, fn, args)
  PROVE  Keeps(e, fn, args, exc)
<1> DEFINE body == Body(e, fn, args, exc)
           k == turns + 1
           costs == [m \in AllAccounts |-> IF m = "guards" THEN step ELSE 0]
           rest == [m \in AllAccounts |-> IF m = "programs" THEN 1 ELSE 0]
<1>1. /\ turns \in Nat /\ Len(body) = turns + 1 /\ body[turns + 1] = Count("programs")
      /\ \A j \in 1 .. turns : body[j].op \in {"call", "try"} /\ body[j].fn = g
  BY DEF IsRun
<1>2. /\ step \in Nat
      /\ \A a : /\ "none" \in Enters(e, g, a) /\ Leaks(e, g, a) = {}
                /\ Work("guards", e, g, a) = step
                /\ Work("programs", e, g, a) = 0 /\ Work("pending", e, g, a) = 0
      /\ Work("guards", e, fn, args) = turns * step
      /\ Work("programs", e, fn, args) = 1 /\ Work("pending", e, fn, args) = 0
  BY DEF RunWork
<1>3. k \in Nat /\ k # 0 /\ k - 1 = turns /\ Len(body) = k
  BY <1>1
<1>4. body[k].op = "count" /\ body[k].event = "programs"
  BY <1>1 DEF Count
<1>5. \A j \in 1 .. k - 1 : Quiet(e, body[j]) /\ body[j].fn = g
  BY <1>1, <1>2, <1>3 DEF Quiet
<1> HIDE DEF k
<1>6. IsLoop(e, body, k)
  BY <1>3, <1>4, <1>5 DEF IsLoop
<1>7. Accounts(e) \subseteq AllAccounts
  BY DEF AllAccounts
<1>8. ASSUME NEW m \in Accounts(e)
      PROVE  LoopWork(m, e, body, k, Work(m, e, fn, args), costs[m], rest[m])
  <2>1. /\ costs[m] = IF m = "guards" THEN step ELSE 0
        /\ rest[m] = IF m = "programs" THEN 1 ELSE 0
    BY <1>7
  <2> HIDE DEF costs, rest
  <2>2. m \in {"guards", "programs", "pending"}
    OBVIOUS
  <2>3. rest[m] = CountCost(m, "programs") /\ rest[m] \in Int /\ costs[m] \in Int
    BY <1>2, <2>1, <2>2 DEF CountCost
  <2>4. \A a : Work(m, e, g, a) = costs[m]
    BY <1>2, <2>1, <2>2
  <2>5. Work(m, e, fn, args) = (k - 1) * costs[m] + rest[m]
    <3>1. CASE m = "guards"
      BY <1>1, <1>2, <1>3, <2>1, <3>1
    <3>2. CASE m = "programs"
      BY <1>1, <1>2, <1>3, <2>1, <3>2
    <3>3. CASE m = "pending"
      BY <1>1, <1>2, <1>3, <2>1, <3>3
    <3> QED
      BY <2>2, <3>1, <3>2, <3>3
  <2>6. m = "pending" => costs[m] = 0 /\ rest[m] = 0
    BY <2>1
  <2> HIDE DEF body
  <2>7. Len(body) # k - 1
    BY <1>3 DEF body
  <2>8. \A j \in 1 .. k - 1 : Work(m, e, body[j].fn, body[j].args) = costs[m]
    BY <1>5, <2>4 DEF body
  <2>9. rest[m] = IF Len(body) = k - 1 THEN 0
                  ELSE IF body[k].op = "count" THEN CountCost(m, body[k].event)
                  ELSE Work(m, e, body[k].fn, body[k].args)
    BY <1>4, <2>3, <2>7 DEF body
  <2> QED
    BY <2>3, <2>5, <2>6, <2>8, <2>9 DEF LoopWork
<1> HIDE DEF costs, rest
<1> QED
  BY <1>3, <1>6, <1>7, <1>8, LoopKeeps

\* A round: its ten programs, of which those from the j-th on construct due[j] guards.
IsRound(e, fn, args, body, due) ==
  /\ Len(body) = 10
  /\ (\A j \in 1 .. 11 : due[j] \in Int) /\ due[11] = 0
  /\ Work("guards", e, fn, args) = due[1]
  /\ Work("programs", e, fn, args) = 10 /\ Work("pending", e, fn, args) = 0
  /\ \A j \in 1 .. 10 : /\ Quiet(e, body[j])
                        /\ due[j] = Work("guards", e, body[j].fn, body[j].args) + due[j + 1]
                        /\ Work("programs", e, body[j].fn, body[j].args) = 1
                        /\ Work("pending", e, body[j].fn, body[j].args) = 0

\* and so does a round of ten programs.
LEMMA RoundKeeps ==
  ASSUME NEW e, NEW fn, NEW args, NEW exc, NEW due,
         IsRound(e, fn, args, Body(e, fn, args, exc), due),
         Accounts(e) = {"guards", "programs", "pending"}, ClausesKept(e, fn, args)
  PROVE  Keeps(e, fn, args, exc)
<1> DEFINE body == Body(e, fn, args, exc)
           n == 10
           plan == [m \in AllAccounts |->
                      [j \in 1 .. n + 1 |-> IF m = "guards" THEN due[j]
                                            ELSE IF m = "programs" THEN n + 1 - j ELSE 0]]
<1>1. /\ n \in Nat /\ Len(body) = n
      /\ (\A j \in 1 .. n + 1 : due[j] \in Int) /\ due[n + 1] = 0
      /\ Work("guards", e, fn, args) = due[1]
      /\ Work("programs", e, fn, args) = n /\ Work("pending", e, fn, args) = 0
      /\ \A j \in 1 .. n : /\ Quiet(e, body[j])
                           /\ due[j] = Work("guards", e, body[j].fn, body[j].args) + due[j + 1]
                           /\ Work("programs", e, body[j].fn, body[j].args) = 1
                           /\ Work("pending", e, body[j].fn, body[j].args) = 0
  BY DEF IsRound
<1> HIDE DEF n
<1>2. ASSUME NEW m \in Accounts(e)
      PROVE  Listed(m, e, body, n, Work(m, e, fn, args), plan[m])
  <2>1. m \in {"guards", "programs", "pending"} /\ m \in AllAccounts
    BY DEF AllAccounts
  <2>2. \A j \in 1 .. n + 1 : plan[m][j] = IF m = "guards" THEN due[j]
                                           ELSE IF m = "programs" THEN n + 1 - j ELSE 0
    BY <2>1
  <2> HIDE DEF plan
  <2>3. 1 \in 1 .. n + 1 /\ n + 1 \in 1 .. n + 1 /\ \A j \in 1 .. n : j \in 1 .. n + 1 /\ j + 1 \in 1 .. n + 1
    BY <1>1
  <2>4. CASE m = "guards"
    BY <1>1, <2>2, <2>3, <2>4 DEF Listed
  <2>5. CASE m = "programs"
    BY <1>1, <2>2, <2>3, <2>5 DEF Listed
  <2>6. CASE m = "pending"
    BY <1>1, <2>2, <2>3, <2>6 DEF Listed
  <2> QED
    BY <2>1, <2>4, <2>5, <2>6
<1> HIDE DEF plan
<1> QED
  BY <1>1, <1>2, ListKeeps

CfiTrying == {"linear_try", "tower_mid_try", "recursor_try", "template_try", "poly_try",
              "cleanup_try", "table_try", "container_try", "tower_root_try", "round_try"}
CfiClauses == {"soft_catch", "tower_mid_catch", "recursor_catch", "hard_catch", "table_catch",
               "tower_root_catch"}

\* What leaves a scope of the cfi suite.
CfiLeaks(fn) ==
  CASE fn \in {"linearCase", "towerLeaf", "tower_mid_try", "tower_mid_catch", "towerMid",
               "Recursor"} -> {"SoftCfiError"}
    [] fn \in {"templateCandidate", "PolyNode::eval", "cleanupCase"} -> {"HardCfiError"}
    [] fn \in {"tableCase", "containerCase"} -> {"TableCfiError"}
    [] OTHER -> {}

\* The clause of a try block of the suite, and what it takes.
CfiClause(fn) ==
  CASE fn = "linear_try"     -> "soft_catch"
    [] fn = "tower_mid_try"  -> "tower_mid_catch"
    [] fn = "recursor_try"   -> "recursor_catch"
    [] fn = "tower_root_try" -> "tower_root_catch"
    [] fn \in {"template_try", "poly_try", "cleanup_try"} -> "hard_catch"
    [] fn \in {"table_try", "container_try"} -> "table_catch"

CfiTaken(fn) ==
  CASE fn \in {"linear_try", "tower_mid_try", "recursor_try", "tower_root_try"} -> "SoftCfiError"
    [] fn \in {"template_try", "poly_try", "cleanup_try"} -> "HardCfiError"
    [] fn \in {"table_try", "container_try"} -> "TableCfiError"

\* The tables of the cfi suite.
LEMMA CfiTables ==
  ASSUME NEW e, e = CfiEntry, \A fn, type : Catches(e, fn, type) = CfiCatches(fn, type)
  PROVE  /\ Accounts(e) = {"guards", "programs", "pending"}
         /\ \A fn, args : /\ Enters(e, fn, args) = CfiEnters(fn, args)
                          /\ Raises(e, fn, args) = CfiRaises(fn, args)
                          /\ Work("guards", e, fn, args) = CfiGuards(fn, args)
                          /\ Work("programs", e, fn, args) = CompletedPrograms(fn, args)
                          /\ Work("pending", e, fn, args) =
                               IF "none" \in CfiEnters(fn, args) THEN 0 ELSE -1
                          /\ Leaks(e, fn, args) = CfiLeaks(fn)
                          /\ ClausesKept(e, fn, args)
                          /\ fn # "recursor_try" => \A m \in Accounts(e) : Evenly(m, e, fn, args)
         /\ \A fn : fn \notin CfiTrying => Plain(e, fn)
<1>1. Accounts(e) = {"guards", "programs", "pending"}
  BY DEF Accounts, PluginEntry, BasicEntry, CfiEntry, ExtEntry, DeepEntry, StressEntry
<1>2. \A fn, args : /\ Enters(e, fn, args) = CfiEnters(fn, args)
                    /\ Raises(e, fn, args) = CfiRaises(fn, args)
                    /\ Guards(e, fn, args) = CfiGuards(fn, args)
  BY DEF Enters, Raises, Guards, PluginEntry, BasicEntry, CfiEntry, ExtEntry, DeepEntry,
     StressEntry
<1>3. \A fn, args : /\ Work("guards", e, fn, args) = CfiGuards(fn, args)
                    /\ Work("programs", e, fn, args) = CompletedPrograms(fn, args)
                    /\ Work("pending", e, fn, args) =
                         IF "none" \in CfiEnters(fn, args) THEN 0 ELSE -1
  BY <1>2, SeedsDecide DEF Work, Fare
<1>4. \A fn : fn \notin CfiTrying => Plain(e, fn)
  BY DEF Plain, CfiTrying, CfiCatches
<1> DEFINE Blocks == CfiTrying \ {"round_try"}
<1>5. \A fn \in Blocks : Catches(e, fn, CfiTaken(fn)) = CfiClause(fn)
  BY DEF CfiCatches, CfiTrying, CfiClause, CfiTaken
<1>6. /\ \A fn \in Blocks : \A args : /\ Raises(e, fn, args) = {CfiTaken(fn)}
                                  /\ CfiClause(fn) # "none" /\ CfiClause(fn) \in CfiClauses
                                  /\ Raises(e, CfiClause(fn), args) = CfiLeaks(fn)
                                  /\ Enters(e, CfiClause(fn), args) = {CfiTaken(fn)}
                                  /\ CfiTaken(fn) # "none"
      /\ \A args : Raises(e, "round_try", args) = {} /\ CfiLeaks("round_try") = {}
  <2>1. \A fn \in Blocks : \A args : Enters(e, CfiClause(fn), args) = {CfiTaken(fn)}
    <3>1. ASSUME NEW fn \in Blocks, NEW args
          PROVE  CfiEnters(CfiClause(fn), args) = {CfiTaken(fn)}
      <4> HIDE <1>2
      <4> QED
        BY DEF CfiEnters, CfiEntry, CfiTrying, CfiClause, CfiTaken
    <3> QED
      BY <1>2, <3>1
  <2>2. /\ \A fn \in Blocks : \A args : /\ Raises(e, fn, args) = {CfiTaken(fn)}
                                    /\ CfiClause(fn) # "none" /\ CfiClause(fn) \in CfiClauses
                                    /\ Raises(e, CfiClause(fn), args) = CfiLeaks(fn)
                                    /\ CfiTaken(fn) # "none"
        /\ \A args : Raises(e, "round_try", args) = {} /\ CfiLeaks("round_try") = {}
    BY <1>2 DEF CfiRaises, CfiLeaks, CfiTrying, CfiClause, CfiClauses, CfiTaken
  <2> QED
    BY <2>1, <2>2
<1>7. \A fn, args : fn \notin CfiTrying => Raises(e, fn, args) = CfiLeaks(fn)
  BY <1>2 DEF CfiRaises, CfiLeaks, CfiTrying
<1>8. \A c \in CfiClauses : \A t : Catches(e, c, t) = "none"
  BY <1>4 DEF CfiTrying, CfiClauses, Plain
<1>9. ASSUME NEW fn, NEW args
      PROVE  Leaks(e, fn, args) = CfiLeaks(fn) /\ ClausesKept(e, fn, args)
  <2>1. CASE fn \notin CfiTrying
    BY <1>4, <1>7, <2>1, PlainScope
  <2>2. CASE fn \in Blocks
    <3>1. Leaks(e, fn, args) = CfiLeaks(fn)
      BY <1>5, <1>6, <2>2 DEF Leaks
    <3>2. ClausesKept(e, fn, args)
      BY <1>5, <1>6, <1>8, <2>2 DEF ClausesKept
    <3> QED
      BY <3>1, <3>2
  <2>3. CASE fn = "round_try"
    BY <1>6, <2>3 DEF Leaks, ClausesKept
  <2> QED
    BY <2>1, <2>2, <2>3
<1>10. ASSUME NEW fn, fn # "recursor_try", NEW args, NEW m \in Accounts(e)
       PROVE  Evenly(m, e, fn, args)
  <2>1. \A c \in CfiClauses \ {"recursor_catch"} : Work(m, e, c, args) = Fare(m)
    BY <1>1, <1>3 DEF CfiClauses, CfiGuards, CompletedPrograms, CfiEnters, Fare, CfiEntry, ExtEntry
  <2>2. CASE fn \notin CfiTrying
    BY <1>4, <2>2, PlainScope
  <2>3. CASE fn \in Blocks
    <3>1. CfiClause(fn) # "recursor_catch"
      BY <1>10, <2>3 DEF CfiClause, CfiTrying
    <3> QED
      BY <1>5, <1>6, <2>1, <2>3, <3>1 DEF Evenly, Settled
  <2>4. CASE fn = "round_try"
    BY <1>6, <2>4 DEF Evenly
  <2> QED
    BY <2>2, <2>3, <2>4
<1> QED
  BY <1>1, <1>2, <1>3, <1>4, <1>9, <1>10

\* Most cases, and the functions and blocks that are a line, with what they call.
CfiCases == {"linearCase", "templateCandidate", "towerLeaf", "PolyNode::eval", "tableCase",
             "containerCase", "variantCase", "cleanup_lambda"}
CfiLines == {"round_try", "linear_try", "template_try", "towerRoot", "tower_root_try", "towerMid",
             "tower_mid_try", "poly_try", "table_try", "container_try", "cleanup_try", "program06"}
CfiRuns == {"program01", "program02", "program03", "program04", "program05", "program07",
            "program08", "program10"}
CfiGuarded == {"towerRoot", "towerMid"}
CfiCallee(fn) ==
  CASE fn = "round_try"      -> "runAllPrograms"
    [] fn = "linear_try"     -> "linearCase"
    [] fn = "template_try"   -> "templateCandidate"
    [] fn = "towerRoot"      -> "tower_root_try"
    [] fn = "tower_root_try" -> "towerMid"
    [] fn = "towerMid"       -> "tower_mid_try"
    [] fn = "tower_mid_try"  -> "towerLeaf"
    [] fn = "poly_try"       -> "PolyNode::eval"
    [] fn = "table_try"      -> "tableCase"
    [] fn = "container_try"  -> "containerCase"
    [] fn = "cleanup_try"    -> "cleanupCase"
    [] fn = "program06"      -> "recursor_try"

\* The programs that are runs: what they run, and how often.
CfiTurn(fn) ==
  CASE fn = "program01" -> "linear_try"
    [] fn = "program02" -> "template_try"
    [] fn = "program03" -> "towerRoot"
    [] fn = "program04" -> "poly_try"
    [] fn = "program05" -> "table_try"
    [] fn = "program07" -> "container_try"
    [] fn = "program08" -> "variantCase"
    [] fn = "program10" -> "cleanup_try"

CfiTurns(fn) ==
  CASE fn \in {"program01", "program02"} -> 16
    [] fn \in {"program03", "program08"} -> 8
    [] fn \in {"program04", "program10"} -> 10
    [] fn = "program05"                  -> 24
    [] fn = "program07"                  -> 12

\* These programs are runs.
LEMMA CfiSweeps ==
  ASSUME NEW fn \in CfiRuns, NEW args, NEW exc
  PROVE  IsRun(CfiBody(fn, args, exc), CfiTurn(fn), CfiTurns(fn))
<1> DEFINE body == CfiBody(fn, args, exc)
           seed == args[Len(args)]
<1>1. ASSUME NEW op \in {"call", "try"}, NEW g, NEW n \in Nat, NEW stride,
             body = Sweep(op, g, n, seed, stride) \o Finished
      PROVE  IsRun(body, g, n)
  BY <1>1, SweepRuns
<1> HIDE DEF body, seed
<1>2. CASE fn = "program01"
  <2>1. body = Sweep("try", "linear_try", 16, seed, 13) \o Finished
    BY <1>2 DEF body, seed, CfiBody, CfiEntry, LinearBlocks
  <2>2. IsRun(body, "linear_try", 16)
    BY <1>1, <2>1
  <2> QED
    BY <1>2, <2>2 DEF body, CfiTurn, CfiTurns
<1>3. CASE fn = "program02"
  <2>1. body = Sweep("try", "template_try", 16, seed, 7) \o Finished
    BY <1>3 DEF body, seed, CfiBody, CfiEntry, TemplateClones
  <2>2. IsRun(body, "template_try", 16)
    BY <1>1, <2>1
  <2> QED
    BY <1>3, <2>2 DEF body, CfiTurn, CfiTurns
<1>4. CASE fn = "program03"
  <2>1. body = Sweep("call", "towerRoot", 8, seed, 11) \o Finished
    BY <1>4 DEF body, seed, CfiBody, CfiEntry, RethrowTowers
  <2>2. IsRun(body, "towerRoot", 8)
    BY <1>1, <2>1
  <2> QED
    BY <1>4, <2>2 DEF body, CfiTurn, CfiTurns
<1>5. CASE fn = "program04"
  <2>1. body = Sweep("try", "poly_try", 10, seed, 17) \o Finished
    BY <1>5 DEF body, seed, CfiBody, CfiEntry, VirtualDispatch
  <2>2. IsRun(body, "poly_try", 10)
    BY <1>1, <2>1
  <2> QED
    BY <1>5, <2>2 DEF body, CfiTurn, CfiTurns
<1>6. CASE fn = "program07"
  <2>1. body = Sweep("try", "container_try", 12, seed, 19) \o Finished
    BY <1>6 DEF body, seed, CfiBody, CfiEntry, ContainerAlgorithms
  <2>2. IsRun(body, "container_try", 12)
    BY <1>1, <2>1
  <2> QED
    BY <1>6, <2>2 DEF body, CfiTurn, CfiTurns
<1>7. CASE fn = "program08"
  <2>1. body = Sweep("call", "variantCase", 8, seed, 23) \o Finished
    BY <1>7 DEF body, seed, CfiBody, CfiEntry, VariantOptional
  <2>2. IsRun(body, "variantCase", 8)
    BY <1>1, <2>1
  <2> QED
    BY <1>7, <2>2 DEF body, CfiTurn, CfiTurns
<1>8. CASE fn = "program10"
  <2>1. body = Sweep("try", "cleanup_try", 10, seed, 29) \o Finished
    BY <1>8 DEF body, seed, CfiBody, CfiEntry, CleanupStorm
  <2>2. IsRun(body, "cleanup_try", 10)
    BY <1>1, <2>1
  <2> QED
    BY <1>8, <2>2 DEF body, CfiTurn, CfiTurns
<1>9. CASE fn = "program05"
  <2> DEFINE n == 24
             s == [i \in 1 .. n |-> Try("table_try", << (seed + (i - 1) * 5) % 16, seed + i - 1 >>)]
  <2>1. /\ s = [j \in 1 .. n |-> s[j]] /\ n \in Nat
        /\ \A j \in 1 .. n : s[j].op \in {"call", "try"} /\ s[j].fn = "table_try"
    BY DEF Try
  <2>2. body = s \o Finished
    BY <1>9 DEF body, seed, CfiBody, CfiEntry, FunctionPointerTable
  <2> HIDE DEF s, n
  <2>3. IsRun(body, "table_try", n)
    BY <2>1, <2>2, FinishedRuns
  <2> QED
    BY <1>9, <2>3 DEF n, body, CfiTurn, CfiTurns
<1> QED
  BY <1>2, <1>3, <1>4, <1>5, <1>6, <1>7, <1>8, <1>9 DEF CfiRuns, body

\* The cases that throw: a guard, a capture and, if c holds, a throw.
Throws(body, c, type) ==
  \E code : \E rest \in {<< >>, << Capture >>} :
    body = << Guard, Capture >> \o (IF c THEN Raise(type, code) ELSE rest)

CfiThrowing == CfiCases \ {"variantCase", "cleanup_lambda"}

\* The cases throw as CfiHits says.
LEMMA CfiCaseBody ==
  ASSUME NEW fn \in CfiThrowing, NEW args, NEW exc
  PROVE  \E type \in CfiRaises(fn, args) :
           Throws(CfiBody(fn, args, exc), CfiHits(fn, args), type)
<1> DEFINE id == args[1]
           seed == args[Len(args)]
<1>1. CASE fn = "linearCase"
  <2> DEFINE code == seed + id + 1000
             rest == << Capture >>
  <2>1. CfiBody(fn, args, exc) =
          << Guard, Capture >> \o (IF CfiHits(fn, args) THEN Raise("SoftCfiError", code) ELSE rest)
    BY <1>1 DEF CfiBody, CfiEntry, LinearCase, CfiHits
  <2>2. "SoftCfiError" \in CfiRaises(fn, args) /\ rest \in {<< >>, << Capture >>}
    BY <1>1 DEF CfiRaises
  <2> HIDE DEF code, rest
  <2> QED
    BY <2>1, <2>2 DEF Throws
<1>2. CASE fn = "templateCandidate"
  <2> DEFINE code == seed + id + 1200
             rest == << >>
  <2>1. CfiBody(fn, args, exc) =
          << Guard, Capture >> \o (IF CfiHits(fn, args) THEN Raise("HardCfiError", code) ELSE rest)
    BY <1>2 DEF CfiBody, CfiEntry, TemplateCandidate, CfiHits
  <2>2. "HardCfiError" \in CfiRaises(fn, args) /\ rest \in {<< >>, << Capture >>}
    BY <1>2 DEF CfiRaises
  <2> HIDE DEF code, rest
  <2> QED
    BY <2>1, <2>2 DEF Throws
<1>3. CASE fn = "towerLeaf"
  <2> DEFINE code == seed + id + 1400
             rest == << >>
  <2>1. CfiBody(fn, args, exc) =
          << Guard, Capture >> \o (IF CfiHits(fn, args) THEN Raise("SoftCfiError", code) ELSE rest)
    BY <1>3 DEF CfiBody, CfiEntry, TowerLeaf, CfiHits
  <2>2. "SoftCfiError" \in CfiRaises(fn, args) /\ rest \in {<< >>, << Capture >>}
    BY <1>3 DEF CfiRaises
  <2> HIDE DEF code, rest
  <2> QED
    BY <2>1, <2>2 DEF Throws
<1>4. CASE fn = "PolyNode::eval"
  <2> DEFINE code == seed + id + 1500
             rest == << >>
  <2>1. CfiBody(fn, args, exc) =
          << Guard, Capture >> \o (IF CfiHits(fn, args) THEN Raise("HardCfiError", code) ELSE rest)
    BY <1>4 DEF CfiBody, CfiEntry, PolyEval, CfiHits
  <2>2. "HardCfiError" \in CfiRaises(fn, args) /\ rest \in {<< >>, << Capture >>}
    BY <1>4 DEF CfiRaises
  <2> HIDE DEF code, rest
  <2> QED
    BY <2>1, <2>2 DEF Throws
<1>5. CASE fn = "tableCase"
  <2> DEFINE code == seed + id + 1700
             rest == << >>
  <2>1. CfiBody(fn, args, exc) =
          << Guard, Capture >> \o (IF CfiHits(fn, args) THEN Raise("TableCfiError", code) ELSE rest)
    BY <1>5 DEF CfiBody, CfiEntry, TableCase, CfiHits
  <2>2. "TableCfiError" \in CfiRaises(fn, args) /\ rest \in {<< >>, << Capture >>}
    BY <1>5 DEF CfiRaises
  <2> HIDE DEF code, rest
  <2> QED
    BY <2>1, <2>2 DEF Throws
<1>6. CASE fn = "containerCase"
  <2> DEFINE code == seed + id + 2000
             rest == << >>
  <2>1. CfiBody(fn, args, exc) =
          << Guard, Capture >> \o (IF CfiHits(fn, args) THEN Raise("TableCfiError", code) ELSE rest)
    BY <1>6 DEF CfiBody, CfiEntry, ContainerCase, CfiHits
  <2>2. "TableCfiError" \in CfiRaises(fn, args) /\ rest \in {<< >>, << Capture >>}
    BY <1>6 DEF CfiRaises
  <2> HIDE DEF code, rest
  <2> QED
    BY <2>1, <2>2 DEF Throws
<1> QED
  BY <1>1, <1>2, <1>3, <1>4, <1>5, <1>6 DEF CfiThrowing, CfiCases

\* What the lines pass on.
CfiPassed(fn, args) ==
  LET id   == args[1]
      seed == args[Len(args)]
  IN  CASE fn = "tower_root_try" -> << id, seed + 5 >>
        [] fn = "tower_mid_try"  -> << id, seed + 3 >>
        [] fn = "program06"      -> << seed >>
        [] OTHER                 -> args

\* The lines wrap what they call.
LEMMA CfiWrapped ==
  ASSUME NEW fn \in CfiLines, NEW args, NEW exc
  PROVE  Wraps(CfiBody(fn, args, exc), CfiCallee(fn), CfiPassed(fn, args),
               IF fn \in CfiGuarded THEN 1 ELSE 0)
<1> DEFINE g == CfiCallee(fn)
           a == CfiPassed(fn, args)
           first == IF fn \in CfiGuarded THEN 1 ELSE 0
           body == CfiBody(fn, args, exc)
<1>1. \E s \in {Call(g, a), Try(g, a)} :
        \/ first = 0 /\ body \in {<< s >>, << Capture, s >>}
        \/ first = 1 /\ body = << Guard, s >>
  BY DEF CfiBody, CfiLines, CfiGuarded, CfiCallee, CfiPassed, CfiEntry, TowerMidTry, TowerRootTry
<1> HIDE DEF g, a, first, body
<1>2. Wraps(body, g, a, first)
  BY <1>1, WrapShapes
<1> QED
  BY <1>2 DEF g, a, first, body

\* The switch captures a number of times.
LEMMA SwitchCount ==
  ASSUME NEW seed
  PROVE  Cardinality({i \in 0 .. 39 : (seed + i) % 16 \in {0, 1, 2, 3, 8, 9, 12, 13}}) \in Nat
<1> DEFINE last == 39
           traced == {i \in 0 .. last : (seed + i) % 16 \in {0, 1, 2, 3, 8, 9, 12, 13}}
<1>1. last \in Int /\ 0 \in Int
  OBVIOUS
<1>2. IsFiniteSet(0 .. last)
  <2> HIDE DEF last
  <2> QED
    BY <1>1, FS_Interval
<1>3. IsFiniteSet(traced)
  BY <1>2, FS_Subset
<1> QED
  BY <1>3, FS_CardinalityType

\* The cfi suite keeps its contracts.
LEMMA CfiOrderly ==
  ASSUME NEW e, e = CfiEntry,
         \A fn, args, exc : Body(e, fn, args, exc) = CfiBody(fn, args, exc),
         \A fn, type : Catches(e, fn, type) = CfiCatches(fn, type)
  PROVE  Orderly(e)
<1>1. ASSUME NEW n \in Nat \ {0}
      PROVE  "none" \in Enters(e, e, << n >>) /\ Raises(e, e, << n >>) = {}
  <2>1. Counted(<< n >>)
    BY DEF Counted
  <2> QED
    BY <2>1, CfiTables DEF CfiEnters, CfiRaises, OnlyIf, CfiEntry
<1>2. ASSUME NEW fn \in STRING, NEW args \in Seq(Int), NEW exc \in MaybeException,
             exc.type \in Enters(e, fn, args)
      PROVE  Keeps(e, fn, args, exc)
  <2> DEFINE body == Body(e, fn, args, exc)
             id == args[1]
             seed == args[Len(args)]
  <2>1. exc.type \in CfiEnters(fn, args)
    BY <1>2, CfiTables
  <2>2. fn \in CfiLines \cup CfiCases \cup CfiRuns \cup CfiClauses \cup
               {CfiEntry, "Recursor", "cleanupCase", "runAllPrograms", "recursor_try", "program09"}
    BY <2>1 DEF CfiEnters, CfiLines, CfiCases, CfiRuns, CfiClauses
  <2>3. /\ Accounts(e) = {"guards", "programs", "pending"}
        /\ \A g, a : /\ Enters(e, g, a) = CfiEnters(g, a)
                     /\ Raises(e, g, a) = CfiRaises(g, a)
                     /\ Work("guards", e, g, a) = CfiGuards(g, a)
                     /\ Work("programs", e, g, a) = CompletedPrograms(g, a)
                     /\ Work("pending", e, g, a) = IF "none" \in CfiEnters(g, a) THEN 0 ELSE -1
                     /\ Leaks(e, g, a) = CfiLeaks(g)
                     /\ ClausesKept(e, g, a)
                     /\ g # "recursor_try" => \A m \in Accounts(e) : Evenly(m, e, g, a)
        /\ \A g : g \notin CfiTrying => Plain(e, g)
    BY CfiTables
  <2>4. body = CfiBody(fn, args, exc)
    OBVIOUS
  <2>5. Accounts(e) \subseteq AllAccounts \ {"traces"} /\ Accounts(e) \subseteq AllAccounts
    BY <2>3 DEF AllAccounts
  <2>6. CASE fn \in CfiClauses \ {"recursor_catch"}
    <3>1. \A m \in Accounts(e) : Work(m, e, fn, args) = Fare(m)
      BY <2>3, <2>6 DEF CfiClauses, CfiGuards, CompletedPrograms, CfiEnters, Fare, CfiEntry, ExtEntry
    <3>2. Plain(e, fn)
      BY <2>3, <2>6 DEF CfiClauses, CfiTrying
    <3>3. CASE fn # "tower_mid_catch"
      <4>1. body = Caught
        BY <2>4, <2>6, <3>3 DEF CfiBody, CfiClauses, CfiEntry
      <4> QED
        BY <2>5, <3>1, <3>2, <4>1, CatchKeeps
    <3>4. CASE fn = "tower_mid_catch"
      <4> DEFINE c == (exc.code + id) % 4 = 0
      <4>1. body = Caught \o (IF c THEN Reraise ELSE << >>)
        BY <2>4, <3>4 DEF CfiBody, TowerMidCatch, CfiEntry
      <4>2. exc.type \in Raises(e, fn, args)
        BY <2>1, <2>3, <3>4 DEF CfiEnters, CfiRaises, CfiEntry
      <4> HIDE DEF c
      <4> QED
        BY <2>5, <3>1, <3>2, <4>1, <4>2, ReraiseKeeps
    <3> QED
      BY <3>3, <3>4
  <2>7. CASE fn = "recursor_catch"
    <3>1. body = Caught \o << Count("programs") >>
      BY <2>4, <2>7 DEF CfiBody, Finished, CfiEntry
    <3>2. Plain(e, fn)
      BY <2>3, <2>7 DEF CfiTrying
    <3>3. \A m \in Accounts(e) : Covers(m, Work(m, e, fn, args), Fare(m) + CountCost(m, "programs"))
      BY <2>3, <2>7 DEF Covers, CfiGuards, CompletedPrograms, CfiEnters, Fare, CountCost, CfiEntry, ExtEntry
    <3> QED
      BY <2>5, <3>1, <3>2, <3>3, CountingKeeps
  <2>8. CASE fn \in CfiLines
    <3> DEFINE g == CfiCallee(fn)
               a == CfiPassed(fn, args)
               first == IF fn \in CfiGuarded THEN 1 ELSE 0
    <3>1. Wraps(body, g, a, first)
      BY <2>4, <2>8, CfiWrapped
    <3>2. "none" \in Enters(e, g, a)
      BY <2>3, <2>8 DEF CfiEnters, CfiLines, CfiCallee, CfiEntry
    <3>3. Leaks(e, g, a) \subseteq Raises(e, fn, args)
      BY <2>3, <2>8 DEF CfiLeaks, CfiRaises, CfiLines, CfiCallee
    <3>4. ASSUME NEW m \in Accounts(e) PROVE Passes(m, e, fn, args, g, a, first)
      <4>1. CASE m = "guards"
        BY <2>3, <2>8, <4>1 DEF Passes, CfiGuards, CfiLines, CfiGuarded, CfiCallee, CfiEntry
      <4>2. CASE m = "programs"
        BY <2>3, <2>8, <4>2 DEF Passes, CompletedPrograms, CfiLines, CfiCallee, CfiEntry, ExtEntry
      <4>3. CASE m = "pending"
        <5>1. Work(m, e, g, a) = 0
          BY <2>3, <3>2, <4>3
        <5>2. "none" \in CfiEnters(fn, args)
          BY <2>8 DEF CfiEnters, CfiLines, CfiEntry
        <5> QED
          BY <2>3, <4>3, <5>1, <5>2 DEF Passes
      <4> QED
        BY <2>3, <4>1, <4>2, <4>3
    <3>5. first \in {0, 1} /\ fn # "recursor_try"
      BY <2>8 DEF CfiLines
    <3> HIDE DEF g, a, first
    <3> QED
      BY <2>3, <2>5, <3>1, <3>2, <3>3, <3>4, <3>5, WrapKeeps
  <2>9. CASE fn \in CfiCases
    <3>1. IsCase(body, Raises(e, fn, args))
      <4>1. CASE fn \in CfiThrowing
        <5>1. PICK type \in Raises(e, fn, args) : Throws(body, CfiHits(fn, args), type)
          BY <2>3, <2>4, <4>1, CfiCaseBody
        <5> QED
          BY <5>1, CaseShape DEF Throws
      <4>2. CASE fn \in {"variantCase", "cleanup_lambda"}
        <5>1. body = VariantCase
          BY <2>4, <4>2 DEF CfiBody, CfiEntry
        <5> QED
          BY <5>1 DEF VariantCase, IsCase, IsEnding, Guard, Capture
      <4> QED
        BY <2>9, <4>1, <4>2 DEF CfiThrowing
    <3>2. \A m \in Accounts(e) : Work(m, e, fn, args) = IF m = "guards" THEN 1 ELSE 0
      BY <2>3, <2>9 DEF CfiCases, CfiGuards, CompletedPrograms, CfiEnters, CfiEntry, ExtEntry
    <3>3. fn # "recursor_try"
      BY <2>9 DEF CfiCases
    <3> QED
      BY <2>3, <2>5, <3>1, <3>2, <3>3, CaseKeeps
  <2>10. CASE fn \in CfiRuns
    <3>1. IsRun(body, CfiTurn(fn), CfiTurns(fn))
      BY <2>4, <2>10, CfiSweeps
    <3>2. PICK step : RunWork(e, fn, args, CfiTurn(fn), CfiTurns(fn), step)
      <4> DEFINE step == CASE fn = "program03" -> 3 [] fn = "program10" -> 4 [] OTHER -> 1
      <4>1. RunWork(e, fn, args, CfiTurn(fn), CfiTurns(fn), step)
        BY <2>3, <2>10 DEF CfiRuns, CfiTurn, CfiTurns, RunWork, CfiGuards, CompletedPrograms,
           CfiEnters, CfiLeaks, CfiEntry, ExtEntry
      <4> QED
        BY <4>1
    <3> HIDE DEF body
    <3> QED
      BY <2>3, <3>1, <3>2, RunKeeps DEF body
  <2>11. CASE fn = "Recursor"
    <3>1. id \in Nat /\ Len(args) > 0
      BY <2>1, <2>11 DEF CfiEnters, CfiEntry, OnlyIf
    <3>2. body = Recursor(id, seed)
      BY <2>4, <2>11 DEF CfiBody, CfiEntry
    <3>3. /\ Work("guards", e, fn, args) = id + 1 /\ Work("programs", e, fn, args) = 0
          /\ Work("pending", e, fn, args) = 0
      BY <2>3, <2>11, <3>1 DEF CfiGuards, CompletedPrograms, CfiEnters, OnlyIf, CfiEntry, ExtEntry
    <3>4. Raises(e, fn, args) = {"SoftCfiError"}
      BY <2>3, <2>11 DEF CfiRaises
    <3>5. CASE id = 0
      <4> DEFINE c == seed % 4 = 0
                 code == seed + 1900
      <4>1. body = << Guard, Capture >> \o (IF c THEN Raise("SoftCfiError", code) ELSE << >>)
        BY <3>2, <3>5 DEF Recursor
      <4> HIDE DEF c, code
      <4>2. IsCase(body, Raises(e, fn, args))
        BY <3>4, <4>1, CaseShape
      <4>3. \A m \in Accounts(e) : Work(m, e, fn, args) = IF m = "guards" THEN 1 ELSE 0
        BY <2>3, <3>3, <3>5
      <4> QED
        BY <2>3, <2>5, <2>11, <4>2, <4>3, CaseKeeps
    <3>6. CASE id # 0
      <4> DEFINE a == << id - 1, seed + id >>
                 first == 1
      <4>1. body = << Guard, Capture >> \o << Call("Recursor", a) >>
        BY <3>1, <3>2, <3>6 DEF Recursor
      <4>2. a[1] = id - 1 /\ a[1] \in Nat /\ Len(a) > 0 /\ first = 1 /\ first \in {0, 1}
        BY <3>1, <3>6
      <4> HIDE DEF a, first
      <4>3. Wraps(body, "Recursor", a, first)
        BY <4>1, <4>2, WrapShapes
      <4>4. "none" \in Enters(e, "Recursor", a) /\ Leaks(e, "Recursor", a) \subseteq Raises(e, fn, args)
        BY <2>3, <3>4, <4>2 DEF CfiEnters, OnlyIf, CfiLeaks, CfiEntry
      <4>5. /\ Work("guards", e, "Recursor", a) = id /\ Work("programs", e, "Recursor", a) = 0
            /\ Work("pending", e, "Recursor", a) = 0
        <5>1. /\ Work("guards", e, "Recursor", a) = a[1] + 1
              /\ Work("programs", e, "Recursor", a) = 0
          BY <2>3 DEF CfiGuards, CompletedPrograms, CfiEntry, ExtEntry
        <5>2. Work("pending", e, "Recursor", a) = 0
          BY <2>3, <4>4
        <5> QED
          BY <3>1, <4>2, <5>1, <5>2
      <4>6. \A m \in Accounts(e) : Passes(m, e, fn, args, "Recursor", a, first)
        BY <2>3, <3>1, <3>3, <4>2, <4>5 DEF Passes
      <4> QED
        BY <2>3, <2>5, <2>11, <4>2, <4>3, <4>4, <4>6, WrapKeeps
    <3> QED
      BY <3>5, <3>6
  <2>12. CASE fn = "cleanupCase"
    <3> DEFINE due == [j \in Int |-> IF j <= 1 THEN 4 ELSE IF j = 2 THEN 3 ELSE IF j = 3 THEN 2
                                     ELSE IF j <= 5 THEN 1 ELSE 0]
               c == (seed + id) % 8 = 3
               code == seed + id + 2500
               s == Call("cleanup_lambda", << id, seed >>)
    <3>1. body = << Guard, Guard, Guard, Capture, s >> \o
                 (IF c THEN Raise("HardCfiError", code) ELSE << Capture >>)
      BY <2>4, <2>12 DEF CfiBody, CfiEntry, CleanupCase
    <3>2. Raises(e, fn, args) = {"HardCfiError"}
      BY <2>3, <2>12 DEF CfiRaises
    <3>3. s.op = "call" /\ s.fn = "cleanup_lambda"
      BY DEF Call
    <3> HIDE DEF c, code, due, s
    <3>4. /\ IsEnding(body, 6, Raises(e, fn, args))
          /\ body[1] = Guard /\ body[2] = Guard /\ body[3] = Guard /\ body[4] = Capture /\ body[5] = s
      BY <3>1, <3>2 DEF IsEnding, Raise, Capture
    <3>5. \A j \in Int : due[j] = IF j <= 1 THEN 4 ELSE IF j = 2 THEN 3 ELSE IF j = 3 THEN 2
                                  ELSE IF j <= 5 THEN 1 ELSE 0
      BY DEF due
    <3>6. ASSUME NEW j \in 1 .. 6 - 1 PROVE Part(e, fn, args, body[j], due[j], due[j + 1])
      <4>1. \A y \in Int : Part(e, fn, args, Guard, 1 + y, y) /\ Part(e, fn, args, Capture, y, y)
        BY DEF Part, Guard, Capture
      <4>2. Part(e, fn, args, s, 1, 0)
        <5>1. /\ "none" \in Enters(e, s.fn, s.args) /\ Leaks(e, s.fn, s.args) = {}
              /\ \A m \in Accounts(e) : Work(m, e, s.fn, s.args) = IF m = "guards" THEN 1 ELSE 0
          BY <2>3, <3>3 DEF CfiEnters, CfiLeaks, CfiGuards, CompletedPrograms, CfiEntry, ExtEntry
        <5> QED
          BY <3>3, <5>1 DEF Part
      <4>3. Part(e, fn, args, Guard, 4, 3) /\ Part(e, fn, args, Guard, 3, 2)
            /\ Part(e, fn, args, Guard, 2, 1) /\ Part(e, fn, args, Capture, 1, 1)
        BY DEF Part, Guard, Capture
      <4>4. \/ j = 1 /\ due[j] = 4 /\ due[j + 1] = 3
            \/ j = 2 /\ due[j] = 3 /\ due[j + 1] = 2
            \/ j = 3 /\ due[j] = 2 /\ due[j + 1] = 1
            \/ j = 4 /\ due[j] = 1 /\ due[j + 1] = 1
            \/ j = 5 /\ due[j] = 1 /\ due[j + 1] = 0
        BY <3>5
      <4> QED
        BY <3>4, <4>2, <4>3, <4>4
    <3>7. (\A j \in Int : due[j] \in Int) /\ due[6] = 0 /\ due[1] = 4
      BY <3>5
    <3>8. \A m \in Accounts(e) : Work(m, e, fn, args) = IF m = "guards" THEN due[1] ELSE 0
      BY <2>3, <2>12, <3>7 DEF CfiGuards, CompletedPrograms, CfiEnters, CfiEntry, ExtEntry
    <3>9. Prelude(e, fn, args, body, 6, due)
      BY <3>4, <3>6, <3>7, <3>8 DEF Prelude
    <3> QED
      BY <2>3, <2>5, <2>12, <3>9, PreludeKeeps
  <2>13. CASE fn = "runAllPrograms"
    <3> DEFINE due == << 170, 154, 138, 114, 104, 80, 61, 49, 41, 40, 0 >>
    <3>1. body = RunAllPrograms(seed)
      BY <2>4, <2>13 DEF CfiBody, CfiEntry
    <3> HIDE DEF body, seed
    <3>2. /\ Len(body) = 10
          /\ \A j \in 1 .. 10 : body[j].op = "call" /\ body[j].fn = Programs[j]
      BY <3>1 DEF RunAllPrograms, Call
    <3>3. \A j \in 1 .. 10 : Programs[j] \in CfiRuns \cup {"program06", "program09"}
      BY DEF Programs, CfiRuns
    <3>4. \A g \in CfiRuns \cup {"program06", "program09"} : \A a :
            /\ "none" \in Enters(e, g, a) /\ Leaks(e, g, a) = {}
            /\ Work("programs", e, g, a) = 1 /\ Work("pending", e, g, a) = 0
      BY <2>3 DEF CfiRuns, CfiEnters, CfiLeaks, CompletedPrograms, CfiEntry, ExtEntry
    <3>5. \A j \in 1 .. 10 : /\ Quiet(e, body[j])
                             /\ Work("programs", e, body[j].fn, body[j].args) = 1
                             /\ Work("pending", e, body[j].fn, body[j].args) = 0
      BY <3>2, <3>3, <3>4 DEF Quiet
    <3>6. /\ Work("guards", e, fn, args) = 170 /\ Work("programs", e, fn, args) = 10
          /\ Work("pending", e, fn, args) = 0
      BY <2>3, <2>13 DEF CfiGuards, CompletedPrograms, CfiEnters, CfiEntry, ExtEntry
    <3>7. ASSUME NEW j \in 1 .. 10
          PROVE  due[j] = Work("guards", e, body[j].fn, body[j].args) + due[j + 1]
      <4>1. j \in {1, 2, 3, 4, 5, 6, 7, 8, 9, 10}
        OBVIOUS
      <4>2. \A a : /\ Work("guards", e, "program01", a) = 16 /\ Work("guards", e, "program02", a) = 16
                   /\ Work("guards", e, "program03", a) = 24 /\ Work("guards", e, "program04", a) = 10
                   /\ Work("guards", e, "program05", a) = 24 /\ Work("guards", e, "program06", a) = 19
                   /\ Work("guards", e, "program07", a) = 12 /\ Work("guards", e, "program08", a) = 8
                   /\ Work("guards", e, "program09", a) = 1 /\ Work("guards", e, "program10", a) = 40
        BY <2>3 DEF CfiGuards, CfiEntry
      <4> DEFINE cost == << 16, 16, 24, 10, 24, 19, 12, 8, 1, 40 >>
                 a == body[j].args
      <4>3. Work("guards", e, body[j].fn, a) = cost[j]
        <5> HIDE DEF a
        <5>1. /\ j = 1 => Programs[j] = "program01" /\ cost[j] = 16
              /\ j = 2 => Programs[j] = "program02" /\ cost[j] = 16
              /\ j = 3 => Programs[j] = "program03" /\ cost[j] = 24
              /\ j = 4 => Programs[j] = "program04" /\ cost[j] = 10
              /\ j = 5 => Programs[j] = "program05" /\ cost[j] = 24
              /\ j = 6 => Programs[j] = "program06" /\ cost[j] = 19
              /\ j = 7 => Programs[j] = "program07" /\ cost[j] = 12
              /\ j = 8 => Programs[j] = "program08" /\ cost[j] = 8
              /\ j = 9 => Programs[j] = "program09" /\ cost[j] = 1
              /\ j = 10 => Programs[j] = "program10" /\ cost[j] = 40
          BY DEF Programs
        <5> HIDE DEF cost
        <5>2. body[j].fn = Programs[j]
          BY <3>2
        <5> QED
          BY <4>1, <4>2, <5>1, <5>2
      <4>4. due[j] = cost[j] + due[j + 1]
        BY <4>1
      <4> HIDE DEF due, cost
      <4> QED
        BY <4>3, <4>4
    <3>8. (\A j \in 1 .. 11 : due[j] \in Int) /\ due[1] = 170 /\ due[11] = 0
      OBVIOUS
    <3> HIDE DEF due
    <3>9. IsRound(e, fn, args, body, due)
      BY <3>2, <3>5, <3>6, <3>7, <3>8 DEF IsRound
    <3> QED
      BY <2>3, <3>9, RoundKeeps DEF body
  <2>14. CASE fn = CfiEntry
    <3> DEFINE turns == seed + 2
               k == turns + 1
               step == [m \in AllAccounts |-> CASE m = "guards" -> 170 [] m = "programs" -> 10 [] OTHER -> 0]
               rest == [m \in AllAccounts |-> 0]
    <3>1. Counted(args)
      BY <2>1, <2>14 DEF CfiEnters, CfiEntry, OnlyIf
    <3>2. seed \in Nat \ {0} /\ seed = id
      BY <3>1 DEF Counted
    <3>3. body = CfiRounds(seed)
      BY <2>4, <2>14 DEF CfiBody, CfiEntry
    <3>4. /\ Work("guards", e, fn, args) = 170 * (seed + 2)
          /\ Work("programs", e, fn, args) = 10 * (seed + 2)
          /\ Work("pending", e, fn, args) = 0
      BY <2>3, <2>14, <3>1, <3>2 DEF CfiGuards, CompletedPrograms, CfiEnters, OnlyIf, CfiEntry, ExtEntry
    <3>5. \A a : /\ Work("guards", e, "round_try", a) = 170
                 /\ Work("programs", e, "round_try", a) = 10
                 /\ Work("pending", e, "round_try", a) = 0
                 /\ "none" \in Enters(e, "round_try", a) /\ Leaks(e, "round_try", a) = {}
      BY <2>3 DEF CfiGuards, CompletedPrograms, CfiEnters, CfiLeaks, CfiEntry, ExtEntry
    <3> HIDE DEF body, seed
    <3>6. /\ turns \in Nat /\ Len(body) = turns
          /\ \A j \in 1 .. turns : body[j].op = "try" /\ body[j].fn = "round_try"
      BY <3>2, <3>3 DEF CfiRounds, Try
    <3> HIDE DEF turns
    <3>7. k \in Nat /\ k # 0 /\ k - 1 = turns
      BY <3>6
    <3> HIDE DEF k
    <3>8. IsLoop(e, body, k)
      BY <3>5, <3>6, <3>7 DEF IsLoop, Quiet
    <3>9. ASSUME NEW m \in Accounts(e)
          PROVE  LoopWork(m, e, body, k, Work(m, e, fn, args), step[m], rest[m])
      <4>1. /\ step[m] = CASE m = "guards" -> 170 [] m = "programs" -> 10 [] OTHER -> 0
            /\ rest[m] = 0
        BY <2>5
      <4> HIDE DEF step, rest
      <4>2. m \in {"guards", "programs", "pending"}
        BY <2>3
      <4>3. Work(m, e, fn, args) = (k - 1) * step[m] + rest[m]
        BY <3>2, <3>4, <3>7, <4>1, <4>2 DEF turns
      <4>4. \A a : Work(m, e, "round_try", a) = step[m]
        BY <3>5, <4>1, <4>2
      <4>5. step[m] \in Int /\ rest[m] \in Int /\ (m = "pending" => step[m] = 0 /\ rest[m] = 0)
        BY <4>1
      <4> QED
        BY <3>6, <3>7, <4>1, <4>3, <4>4, <4>5 DEF LoopWork
    <3> HIDE DEF step, rest
    <3> QED
      BY <2>3, <2>5, <3>7, <3>8, <3>9, LoopKeeps DEF body
  <2>15. CASE fn = "recursor_try"
    <3> DEFINE a == << 18, seed + 3 >>
    <3>1. body = << Call("Recursor", a) >> \o Finished
      BY <2>4, <2>15 DEF CfiBody, RecursiveFrames, CfiEntry
    <3>2. a[1] = 18 /\ Len(a) > 0
      OBVIOUS
    <3> HIDE DEF a
    <3>3. "none" \in Enters(e, "Recursor", a) /\ Leaks(e, "Recursor", a) \subseteq {"SoftCfiError"}
      BY <2>3, <3>2 DEF CfiEnters, CfiLeaks, OnlyIf, CfiEntry
    <3>4. /\ Work("guards", e, "Recursor", a) = 19 /\ Work("programs", e, "Recursor", a) = 0
          /\ Work("pending", e, "Recursor", a) = 0
      BY <2>3, <3>2, <3>3 DEF CfiGuards, CompletedPrograms, CfiEntry, ExtEntry
    <3>5. /\ Work("guards", e, fn, args) = 19 /\ Work("programs", e, fn, args) = 1
          /\ Work("pending", e, fn, args) = 0
      BY <2>3, <2>15 DEF CfiGuards, CompletedPrograms, CfiEnters, CfiEntry, ExtEntry
    <3>6. /\ Work("guards", e, "recursor_catch", args) = 0
          /\ Work("programs", e, "recursor_catch", args) = 1
          /\ Work("pending", e, "recursor_catch", args) = -1
      BY <2>3 DEF CfiGuards, CompletedPrograms, CfiEnters, CfiEntry, ExtEntry
    <3>7. /\ Catches(e, fn, "SoftCfiError") = "recursor_catch" /\ "recursor_catch" # "none"
          /\ "SoftCfiError" \in Raises(e, fn, args)
      BY <2>3, <2>15 DEF CfiCatches, CfiRaises
    <3>8. Work("guards", e, fn, args) \in Int /\ Work("guards", e, "Recursor", a) = Work("guards", e, fn, args)
      BY <3>4, <3>5
    <3> QED
      BY <2>3, <3>1, <3>3, <3>4, <3>5, <3>6, <3>7, <3>8, RungKeeps
  <2>16. CASE fn = "program09"
    <3> DEFINE traced == {i \in 0 .. 39 : (seed + i) % 16 \in {0, 1, 2, 3, 8, 9, 12, 13}}
               c == Cardinality(traced)
               n == c + 2
    <3>1. c \in Nat
      BY SwitchCount
    <3>2. body = << Guard >> \o [k \in 1 .. c |-> Capture] \o Finished
      BY <2>4, <2>16 DEF CfiBody, SwitchForest, CfiEntry
    <3> HIDE DEF c, body
    <3>3. IsSwitch(e, body, n)
      BY <3>1, <3>2 DEF IsSwitch, Finished, Guard, Capture
    <3>4. \A m \in Accounts(e) : Work(m, e, fn, args) = IF m \in {"guards", "programs"} THEN 1 ELSE 0
      BY <2>3, <2>16 DEF CfiGuards, CompletedPrograms, CfiEnters, CfiEntry, ExtEntry
    <3> HIDE DEF n
    <3> QED
      BY <2>3, <3>3, <3>4, SwitchKeeps DEF body
  <2> QED
    BY <2>2, <2>6, <2>7, <2>8, <2>9, <2>10, <2>11, <2>12, <2>13, <2>14, <2>15, <2>16
<1> QED
  BY <1>1, <1>2 DEF Orderly

\* No clause of the cfi suite throws or captures outside destructors more than once.
LEMMA CfiFree ==
  ASSUME NEW e, e = CfiEntry, \A fn, type : Catches(e, fn, type) = CfiCatches(fn, type),
         NEW m \in SeedAccounts(e), NEW fn, NEW args
  PROVE  Free(m, e, fn, args)
<1>1. m \in Seeded /\ Fare(m) = 0
  BY SeedWorks DEF Seeded, Fare
<1>2. ASSUME NEW clause \in CfiClauses \cup {"round_catch"}
      PROVE  Work(m, e, clause, args) = 0
  <2>1. clause \notin Rounds(e) /\ clause \notin Swept
    BY DEF Rounds, Swept, CfiClauses, CfiEntry
  <2>2. Work(m, e, clause, args) = CaseAmount(m, clause, args)
    BY <2>1, SeedWorks DEF Rounds
  <2>3. ~CfiHits(clause, args) /\ ~ExtHits(clause, args) /\ clause \notin Walked
    BY DEF CfiClauses, CfiHits, ExtHits, Walked
  <2>4. /\ Bit(CfiHits(clause, args)) = 0 /\ Bit(ExtHits(clause, args)) = 0
        /\ Bit(clause \in Walked) = 0
    BY <2>3 DEF Bit
  <2>5. CaseAmount(m, clause, args) \in {0, 0 - 0}
    BY <1>1, <2>4 DEF CaseAmount, Seeded
  <2> QED
    BY <2>2, <2>5
<1>3. \A t : CfiCatches(fn, t) \in CfiClauses \cup {"none", "round_catch"}
  BY DEF CfiCatches, CfiClauses
<1> QED
  BY <1>1, <1>2, <1>3 DEF Free, Settled

\* The amounts of the programs of the cfi suite, and of a round, are numbers.
LEMMA CfiAmounts ==
  ASSUME NEW e, e = CfiEntry, NEW m \in Seeded, NEW args
  PROVE  /\ \A fn \in CfiRuns \cup {"program06", "program09"} :
              \A a : ProgramAmount(m, e, fn, a) \in Int
         /\ RoundAmount(m, e, args) \in Int
<1>1. \A fn, a, exc : SuiteBody(e, fn, a, exc) = CfiBody(fn, a, exc)
  BY DEF SuiteBody, BasicEntry, CfiEntry, DeepEntry, ExtEntry, PluginEntry, StressEntry
<1>2. ASSUME NEW fn \in CfiRuns \cup {"program06", "program09"}, NEW a
      PROVE  ProgramAmount(m, e, fn, a) \in Int
  <2>1. CASE fn \in CfiRuns
    <3>1. IsRun(SuiteBody(e, fn, a, NoException), CfiTurn(fn), CfiTurns(fn))
      BY <1>1, <2>1, CfiSweeps
    <3> QED
      BY <3>1, SweepTyped
  <2>2. CASE fn \in {"program06", "program09"}
    <3>1. ProgramAmount(m, e, fn, a) = CaseAmount(m, fn, a)
      BY <2>2 DEF ProgramAmount, Swept
    <3> QED
      BY <3>1, AmountTyped
  <2> QED
    BY <2>1, <2>2
<1>3. RoundAmount(m, e, args) \in Int
  <2> DEFINE body == SuiteBody(e, "runAllPrograms", args, NoException)
             n == Len(body)
             f == [k \in 1 .. n |-> ProgramAmount(m, e, body[k].fn, body[k].args)]
  <2>1. body = RunAllPrograms(args[Len(args)])
    BY <1>1 DEF CfiBody, CfiEntry
  <2> HIDE DEF body
  <2>2. n = 10 /\ \A k \in 1 .. n : body[k].fn = Programs[k]
    BY <2>1 DEF RunAllPrograms, Call
  <2>3. \A k \in 1 .. 10 : Programs[k] \in CfiRuns \cup {"program06", "program09"}
    BY DEF Programs, CfiRuns
  <2>4. n \in Nat
    BY <2>2
  <2>5. RoundAmount(m, e, args) = Total(f, n)
    BY DEF RoundAmount, body
  <2>6. \A k \in 1 .. n : ProgramAmount(m, e, body[k].fn, body[k].args) \in Int
    BY <1>2, <2>2, <2>3
  <2> HIDE DEF n
  <2>7. \A k \in 1 .. n : f[k] \in Int
    BY <2>6
  <2> HIDE DEF f
  <2> QED
    BY <2>4, <2>5, <2>7, TotalStep
<1> QED
  BY <1>2, <1>3

\* The seed of the recursion, one level down.
LEMMA RecursorHits ==
  ASSUME NEW id \in Nat, id # 0, NEW seed \in Int, NEW args, NEW a,
         args[1] = id, args[Len(args)] = seed, a = << id - 1, seed + id >>
  PROVE  CfiHits("Recursor", a) = CfiHits("Recursor", args)
<1>1. \A x \in Int : (x + 2 * id) \div 2 = x \div 2 + id
  OBVIOUS
<1>2. PICK x \in Int : x = (id - 1) * id
  OBVIOUS
<1>3. (id - 1) * ((id - 1) + 1) = x /\ id * (id + 1) = x + 2 * id
  BY <1>2
<1>4. (seed + id) + (((id - 1) * ((id - 1) + 1)) \div 2) = seed + ((id * (id + 1)) \div 2)
  BY <1>1, <1>3
<1>5. a[1] = id - 1 /\ a[Len(a)] = seed + id
  OBVIOUS
<1>6. CfiHits("Recursor", a) = ((a[Len(a)] + ((a[1] * (a[1] + 1)) \div 2)) % 4 = 0)
  BY DEF CfiHits
<1>7. CfiHits("Recursor", args) = ((seed + ((id * (id + 1)) \div 2)) % 4 = 0)
  BY DEF CfiHits
<1> QED
  BY <1>4, <1>5, <1>6, <1>7

\* A line of the cfi suite throws if what it calls does.
LEMMA CfiPassedHits ==
  ASSUME NEW fn \in CfiLines \ {"round_try"}, NEW args
  PROVE  CfiHits(CfiCallee(fn), CfiPassed(fn, args)) = CfiHits(fn, args)
<1> DEFINE id == args[1]
           seed == args[Len(args)]
<1>1. CASE fn \in {"linear_try", "template_try", "poly_try"}
  <2>1. CfiPassed(fn, args) = args
    BY <1>1 DEF CfiPassed
  <2> QED
    BY <1>1, <2>1 DEF CfiHits, CfiCallee
<1>2. CASE fn \in {"table_try", "container_try", "cleanup_try"}
  <2>1. CfiPassed(fn, args) = args
    BY <1>2 DEF CfiPassed
  <2> QED
    BY <1>2, <2>1 DEF CfiHits, CfiCallee
<1>3. CASE fn \in {"towerRoot", "towerMid"}
  <2>1. CfiPassed(fn, args) = args
    BY <1>3 DEF CfiPassed
  <2> QED
    BY <1>3, <2>1 DEF CfiHits, CfiCallee
<1>4. CASE fn = "tower_root_try"
  <2> DEFINE a == << id, seed + 5 >>
  <2>1. CfiPassed(fn, args) = a /\ CfiCallee(fn) = "towerMid"
    BY <1>4 DEF CfiPassed, CfiCallee
  <2>2. a[1] = id /\ a[Len(a)] = seed + 5
    OBVIOUS
  <2> HIDE DEF a
  <2> QED
    BY <1>4, <2>1, <2>2 DEF CfiHits
<1>5. CASE fn = "tower_mid_try"
  <2> DEFINE a == << id, seed + 3 >>
  <2>1. CfiPassed(fn, args) = a /\ CfiCallee(fn) = "towerLeaf"
    BY <1>5 DEF CfiPassed, CfiCallee
  <2>2. a[1] = id /\ a[Len(a)] = seed + 3
    OBVIOUS
  <2> HIDE DEF a
  <2> QED
    BY <1>5, <2>1, <2>2 DEF CfiHits
<1>6. CASE fn = "program06"
  <2> DEFINE a == << seed >>
  <2>1. CfiPassed(fn, args) = a /\ CfiCallee(fn) = "recursor_try"
    BY <1>6 DEF CfiPassed, CfiCallee
  <2>2. a[Len(a)] = seed
    OBVIOUS
  <2> HIDE DEF a
  <2> QED
    BY <1>6, <2>1, <2>2 DEF CfiHits
<1> QED
  BY <1>1, <1>2, <1>3, <1>4, <1>5, <1>6 DEF CfiLines

\* Only a clause looks at its exception.
LEMMA CfiUncaught ==
  ASSUME NEW fn, fn # "tower_mid_catch", NEW args, NEW exc
  PROVE  CfiBody(fn, args, exc) = CfiBody(fn, args, NoException)
  BY DEF CfiBody

\* The cfi suite keeps the contracts that its seeds decide.
LEMMA CfiSeeds ==
  ASSUME NEW e, e = CfiEntry,
         \A fn, args, exc : Body(e, fn, args, exc) = CfiBody(fn, args, exc),
         \A fn, type : Catches(e, fn, type) = CfiCatches(fn, type),
         NEW fn \in STRING, NEW args \in Seq(Int), NEW exc \in MaybeException,
         exc.type \in Enters(e, fn, args), NEW m \in SeedAccounts(e)
  PROVE  \E plan : IsPlan(m, e, fn, args, exc, plan)
<1> DEFINE body == Body(e, fn, args, exc)
           id == args[1]
           seed == args[Len(args)]
<1>1. Keeps(e, fn, args, exc) /\ Free(m, e, fn, args)
  BY CfiOrderly, CfiFree DEF Orderly
<1>2. exc.type \in CfiEnters(fn, args)
  BY CfiTables
<1>3. fn \in CfiLines \cup CfiThrowing \cup (CfiRuns \ {"program08"}) \cup CfiClauses \cup
             {"variantCase", "cleanup_lambda", "program08", "program09", "Recursor", "cleanupCase",
              "recursor_try", "runAllPrograms", CfiEntry}
  BY <1>2 DEF CfiEnters, CfiLines, CfiCases, CfiThrowing, CfiRuns, CfiClauses
<1>4. /\ m \in {"hits", "walks"} /\ m \in Seeded
      /\ e \notin {"round_try", "runAllPrograms"}
      /\ Rounds(e) = {CfiEntry, "round_try", "runAllPrograms"}
  BY DEF SeedAccounts, Seeded, Rounds, BasicEntry, CfiEntry, ExtEntry
<1>5. body = CfiBody(fn, args, exc)
  OBVIOUS
<1>6. \A g, a : Leaks(e, g, a) = CfiLeaks(g)
  BY CfiTables
<1>7. fn # "tower_mid_catch" => body = SuiteBody(e, fn, args, NoException)
  BY <1>5, CfiUncaught DEF SuiteBody, BasicEntry, CfiEntry, DeepEntry, ExtEntry, PluginEntry,
     StressEntry
<1>8. /\ \A a : RoundAmount(m, e, a) \in Int
      /\ \A g \in CfiRuns \cup {"program06", "program09"} : \A a : ProgramAmount(m, e, g, a) \in Int
  BY <1>4, CfiAmounts
<1>9. \A a : Work(m, e, "round_try", a) = RoundAmount(m, e, a)
             /\ Work(m, e, "runAllPrograms", a) = RoundAmount(m, e, a)
  BY <1>4, SeedWorks
<1> HIDE DEF body
<1>10. CASE fn \in CfiClauses \cup {"variantCase", "cleanup_lambda", "program09"}
  <2>1. Work(m, e, fn, args) = 0
    <3>1. fn \notin Rounds(e) \cup Swept \cup Walked
      BY <1>4, <1>10 DEF CfiClauses, Swept, Walked, CfiEntry
    <3>2. ~CfiHits(fn, args) /\ ~ExtHits(fn, args)
      BY <1>10 DEF CfiClauses, CfiHits, ExtHits
    <3> QED
      BY <3>1, <3>2, SeedNone
  <2>2. \A j \in 1 .. Len(body) : Barren(m, e, body[j])
    <3>1. CASE fn \in {"variantCase", "cleanup_lambda"}
      <4>1. body = << Guard, Capture >>
        BY <1>5, <3>1 DEF CfiBody, VariantCase, CfiEntry
      <4> QED
        BY <4>1 DEF Barren, Guard, Capture
    <3>2. CASE fn = "program09"
      <4> DEFINE n == Cardinality({i \in 0 .. 39 : (seed + i) % 16 \in {0, 1, 2, 3, 8, 9, 12, 13}})
      <4>1. body = << Guard >> \o [k \in 1 .. n |-> Capture] \o Finished
        BY <1>5, <3>2 DEF CfiBody, SwitchForest, CfiEntry
      <4>2. n \in Nat
        BY SwitchCount
      <4> HIDE DEF n
      <4> QED
        BY <4>1, <4>2 DEF Barren, Guard, Capture, Finished, Count
    <3>3. CASE fn = "recursor_catch"
      <4>1. body = Caught \o << Count("programs") >>
        BY <1>5, <3>3 DEF CfiBody, Finished, CfiEntry
      <4> QED
        BY <4>1 DEF Barren, Caught, Capture, Count
    <3>4. CASE fn = "tower_mid_catch"
      <4> DEFINE c == (exc.code + id) % 4 = 0
      <4>1. body = Caught \o (IF c THEN Reraise ELSE << >>)
        BY <1>5, <3>4 DEF CfiBody, TowerMidCatch, CfiEntry
      <4> HIDE DEF c
      <4>2. CASE c
        BY <4>1, <4>2 DEF Barren, Caught, Capture, Count, Reraise
      <4>3. CASE ~c
        BY <4>1, <4>3 DEF Barren, Caught, Capture, Count
      <4> QED
        BY <4>2, <4>3
    <3>5. CASE fn \in CfiClauses \ {"recursor_catch", "tower_mid_catch"}
      <4>1. body = Caught
        BY <1>5, <3>5 DEF CfiBody, CfiClauses, CfiEntry
      <4> QED
        BY <4>1 DEF Barren, Caught, Capture, Count
    <3> QED
      BY <1>10, <3>1, <3>2, <3>3, <3>4, <3>5
  <2> QED
    BY <1>1, <1>4, <2>1, <2>2, SeedBarren DEF body
<1>11. CASE fn \in CfiLines
  <2> DEFINE g == CfiCallee(fn)
             a == CfiPassed(fn, args)
             first == IF fn \in CfiGuarded THEN 1 ELSE 0
  <2>1. Wraps(body, g, a, first)
    BY <1>5, <1>11, CfiWrapped
  <2>2. Work(m, e, g, a) = Work(m, e, fn, args) /\ Work(m, e, fn, args) \in Int
    <3>1. CASE fn = "round_try"
      <4>1. g = "runAllPrograms" /\ a = args
        BY <3>1 DEF CfiCallee, CfiPassed
      <4> QED
        BY <1>8, <1>9, <3>1, <4>1
    <3>2. CASE fn # "round_try"
      <4>1. fn \notin Rounds(e) \cup Swept /\ g \notin Rounds(e) \cup Swept
        BY <1>4, <1>11, <3>2 DEF CfiLines, CfiCallee, Swept, CfiEntry
      <4>2. (g \in Walked) = (fn \in Walked)
        BY <1>11, <3>2 DEF CfiLines, CfiCallee, Walked
      <4>3. ExtHits(g, a) = ExtHits(fn, args)
        BY <1>11, <3>2 DEF CfiLines, CfiCallee, ExtHits
      <4>4. CfiHits(g, a) = CfiHits(fn, args)
        BY <1>11, <3>2, CfiPassedHits DEF g, a
      <4> QED
        BY <4>1, <4>2, <4>3, <4>4, SeedSame
    <3> QED
      BY <3>1, <3>2
  <2> HIDE DEF g, a, first
  <2> QED
    BY <1>1, <1>4, <2>1, <2>2, SeedWrap DEF body
<1>12. CASE fn \in CfiThrowing
  <2>1. PICK type \in CfiRaises(fn, args) : Throws(body, CfiHits(fn, args), type)
    BY <1>5, <1>12, CfiCaseBody
  <2>2. Work(m, e, fn, args) \in Worth(m, CfiHits(fn, args))
    <3>1. fn \notin Rounds(e) \cup Swept
      BY <1>4, <1>12 DEF CfiThrowing, CfiCases, Swept, CfiEntry
    <3> QED
      BY <1>4, <3>1, SeedWorth
  <2> QED
    BY <1>1, <1>4, <2>1, <2>2, SeedCase DEF Throws, body
<1>13. CASE fn \in CfiRuns \ {"program08"}
  <2>1. IsRun(body, CfiTurn(fn), CfiTurns(fn))
    BY <1>5, <1>13, CfiSweeps
  <2>2. fn \in Swept \ Rounds(e) /\ CfiTurn(fn) \notin Swept \cup Rounds(e)
    BY <1>4, <1>13 DEF CfiRuns, CfiTurn, Swept, CfiEntry
  <2>3. \A a : Leaks(e, CfiTurn(fn), a) = {}
    BY <1>6, <1>13 DEF CfiRuns, CfiTurn, CfiLeaks
  <2>4. body = SuiteBody(e, fn, args, NoException)
    BY <1>7, <1>13 DEF CfiRuns
  <2> QED
    BY <1>1, <2>1, <2>2, <2>3, <2>4, SeedSweep DEF body
<1>14. CASE fn = "program08"
  <2>1. IsRun(body, "variantCase", 8)
    <3>1. IsRun(body, CfiTurn(fn), CfiTurns(fn))
      BY <1>5, <1>14, CfiSweeps DEF CfiRuns
    <3> QED
      BY <1>14, <3>1 DEF CfiTurn, CfiTurns
  <2>2. \A a : Work(m, e, "program08", a) = 0 /\ Work(m, e, "variantCase", a) = 0
    <3>1. {"program08", "variantCase"} \cap (Rounds(e) \cup Swept \cup Walked) = {}
      BY <1>4 DEF Swept, Walked, CfiEntry
    <3>2. \A a : /\ ~CfiHits("program08", a) /\ ~CfiHits("variantCase", a)
                 /\ ~ExtHits("program08", a) /\ ~ExtHits("variantCase", a)
      BY DEF CfiHits, ExtHits
    <3> QED
      BY <3>1, <3>2, SeedNone
  <2> QED
    BY <1>1, <1>4, <1>14, <2>1, <2>2, SeedIdle DEF body
<1>15. CASE fn = "Recursor"
  <2>1. id \in Nat /\ Len(args) > 0
    BY <1>2, <1>15 DEF CfiEnters, CfiEntry, OnlyIf
  <2>2. body = Recursor(id, seed)
    BY <1>5, <1>15 DEF CfiBody, CfiEntry
  <2>3. "Recursor" \notin Rounds(e) \cup Swept
    BY <1>4 DEF Swept, CfiEntry
  <2>4. seed \in Int
    BY <2>1
  <2>5. CASE id = 0
    <3> DEFINE c == seed % 4 = 0
               code == seed + 1900
               rest == << >>
    <3>1. body = << Guard, Capture >> \o (IF c THEN Raise("SoftCfiError", code) ELSE rest)
      BY <2>2, <2>5 DEF Recursor
    <3>2. rest \in {<< >>, << Capture >>}
      OBVIOUS
    <3>3. CfiHits(fn, args) = c
      <4>1. CfiHits("Recursor", args) = ((seed + ((id * (id + 1)) \div 2)) % 4 = 0)
        BY DEF CfiHits
      <4>2. (id * (id + 1)) \div 2 = 0
        BY <2>5
      <4>3. seed + ((id * (id + 1)) \div 2) = seed
        BY <2>4, <4>2
      <4> QED
        BY <1>15, <4>1, <4>3
    <3> HIDE DEF c, code, rest
    <3>4. Work(m, e, fn, args) \in Worth(m, c)
      BY <1>4, <1>15, <2>3, <3>3, SeedWorth
    <3> QED
      BY <1>1, <1>4, <3>1, <3>2, <3>4, SeedCase DEF body
  <2>6. CASE id # 0
    <3> DEFINE a == << id - 1, seed + id >>
               first == 1
    <3>1. body = << Guard, Capture >> \o << Call("Recursor", a) >>
      BY <2>1, <2>2, <2>6 DEF Recursor
    <3>2. CfiHits("Recursor", a) = CfiHits(fn, args)
      BY <1>15, <2>1, <2>4, <2>6, RecursorHits
    <3> HIDE DEF a, first
    <3>3. Wraps(body, "Recursor", a, first)
      BY <3>1, WrapShapes DEF first
    <3>4. ExtHits("Recursor", a) = ExtHits(fn, args)
      BY <1>15 DEF ExtHits
    <3>5. Work(m, e, "Recursor", a) = Work(m, e, fn, args) /\ Work(m, e, fn, args) \in Int
      BY <1>15, <2>3, <3>2, <3>4, SeedSame
    <3> QED
      BY <1>1, <1>4, <3>3, <3>5, SeedWrap DEF body
  <2> QED
    BY <2>5, <2>6
<1>16. CASE fn = "cleanupCase"
  <2> DEFINE c == (seed + id) % 8 = 3
             code == seed + id + 2500
             a == << id, seed >>
             s == Call("cleanup_lambda", a)
             w == Work(m, e, fn, args)
  <2>1. body = << Guard, Guard, Guard, Capture, s >> \o
               (IF c THEN Raise("HardCfiError", code) ELSE << Capture >>)
    BY <1>5, <1>16 DEF CfiBody, CfiEntry, CleanupCase
  <2>2. CfiHits(fn, args) = c
    BY <1>16 DEF CfiHits
  <2>3. s.op = "call" /\ s.fn = "cleanup_lambda" /\ s.args = a
    BY DEF Call
  <2>4. Work(m, e, "cleanup_lambda", a) = 0 /\ Leaks(e, "cleanup_lambda", a) = {}
    <3>1. "cleanup_lambda" \notin Rounds(e) \cup Swept \cup Walked
      BY <1>4 DEF Swept, Walked, CfiEntry
    <3>2. ~CfiHits("cleanup_lambda", a) /\ ~ExtHits("cleanup_lambda", a)
      BY DEF CfiHits, ExtHits
    <3>3. Leaks(e, "cleanup_lambda", a) = {}
      BY <1>6 DEF CfiLeaks
    <3> QED
      BY <3>1, <3>2, <3>3, SeedNone
  <2> HIDE DEF c, code, a, s, w
  <2>5. Barren(m, e, s) /\ Still(e, s)
    BY <2>3, <2>4 DEF Barren, Still
  <2>6. fn \notin Rounds(e) \cup Swept \cup Walked /\ ~ExtHits(fn, args)
    BY <1>4, <1>16 DEF Swept, Walked, ExtHits, CfiEntry
  <2>7. CASE c
    <3>1. /\ Len(body) = 7 /\ body[5] = s /\ body[6].op = "count" /\ body[6].event = "thrown"
          /\ body[7].op = "throw" /\ \A j \in 1 .. 4 : body[j].op \in {"guard", "capture"}
      BY <2>1, <2>7 DEF Raise, Guard, Capture, Count
    <3> DEFINE p == 6
               n == Len(body)
    <3>2. w \in Worth(m, c)
      BY <1>4, <2>2, <2>6, SeedWorth DEF w
    <3>3. (w = 1 /\ m = "hits") \/ (w \in {0, -1} /\ m = "walks")
      BY <1>4, <2>7, <3>2 DEF Worth, Bit
    <3>4. w \in Int /\ Adds(m, e, body[6], w)
      <4>1. w \in Int /\ Covers(m, w, CountCost(m, "thrown"))
        <5>1. CASE m = "hits"
          BY <3>3, <5>1 DEF CountCost, Covers
        <5>2. CASE m = "walks"
          <6>1. w = 0
            BY <1>4, <2>2, <2>6, <5>2, SeedWalks DEF w
          <6> QED
            BY <5>2, <6>1 DEF CountCost, Covers, Exact
        <5> QED
          BY <1>4, <5>1, <5>2
      <4> QED
        BY <3>1, <4>1 DEF Adds, Cost
    <3>5. \A j \in 1 .. n : j # p => Barren(m, e, body[j])
      <4>1. \A j \in 1 .. n : j \in 1 .. 4 \/ j = 5 \/ j = 6 \/ j = 7
        BY <3>1
      <4> QED
        BY <2>5, <3>1, <4>1 DEF Barren
    <3>6. \A j \in 1 .. n : j < p => Still(e, body[j])
      <4>1. \A j \in 1 .. n : j < p => j \in 1 .. 4 \/ j = 5
        BY <3>1
      <4> QED
        BY <2>5, <3>1, <4>1 DEF Still
    <3>7. p \in 1 .. n /\ body[p] = body[6]
      BY <3>1
    <3> HIDE DEF p, n
    <3> QED
      BY <1>1, <1>4, <3>4, <3>5, <3>6, <3>7, SeedPivot DEF body, n, w
  <2>8. CASE ~c
    <3>1. Work(m, e, fn, args) = 0
      BY <2>2, <2>6, <2>8, SeedNone
    <3>2. \A j \in 1 .. Len(body) : Barren(m, e, body[j])
      <4>1. /\ Len(body) = 6 /\ body[5] = s /\ body[6].op = "capture"
            /\ \A j \in 1 .. 4 : body[j].op \in {"guard", "capture"}
        BY <2>1, <2>8 DEF Guard, Capture
      <4>2. \A j \in 1 .. 6 : j \in 1 .. 4 \/ j = 5 \/ j = 6
        OBVIOUS
      <4> QED
        BY <2>5, <4>1, <4>2 DEF Barren
    <3> QED
      BY <1>1, <1>4, <3>1, <3>2, SeedBarren DEF body
  <2> QED
    BY <2>7, <2>8
<1>17. CASE fn = "recursor_try"
  <2> DEFINE a == << 18, seed + 3 >>
             p == 1
             n == 2
  <2>1. body = << Call("Recursor", a) >> \o Finished
    BY <1>5, <1>17 DEF CfiBody, RecursiveFrames, CfiEntry
  <2>2. Work(m, e, "Recursor", a) = Work(m, e, fn, args) /\ Work(m, e, fn, args) \in Int
    <3>1. {"Recursor", "recursor_try"} \cap (Rounds(e) \cup Swept \cup Walked) = {}
      BY <1>4 DEF Swept, Walked, CfiEntry
    <3>2. ExtHits("Recursor", a) = ExtHits(fn, args)
      BY <1>17 DEF ExtHits
    <3>3. CfiHits("Recursor", a) = CfiHits(fn, args)
      <4>1. a[1] = 18 /\ a[Len(a)] = seed + 3
        OBVIOUS
      <4>2. CfiHits("Recursor", a) = ((a[Len(a)] + ((a[1] * (a[1] + 1)) \div 2)) % 4 = 0)
        BY DEF CfiHits
      <4>3. (18 * (18 + 1)) \div 2 = 171
        OBVIOUS
      <4>4. CfiHits("recursor_try", args) = ((seed + 3 + 171) % 4 = 0)
        BY DEF CfiHits
      <4> QED
        BY <1>17, <4>1, <4>2, <4>3, <4>4
    <3> HIDE DEF a
    <3> QED
      BY <1>17, <3>1, <3>2, <3>3, SeedSame
  <2> HIDE DEF a
  <2>3. /\ Len(body) = 2 /\ body[1].op = "call" /\ body[1].fn = "Recursor" /\ body[1].args = a
        /\ body[2].op = "count" /\ body[2].event = "programs"
    BY <2>1 DEF Call, Finished, Count
  <2>4. Adds(m, e, body[p], Work(m, e, fn, args))
    BY <2>2, <2>3 DEF Adds, Covers
  <2>5. /\ \A j \in 1 .. n : j # p => Barren(m, e, body[j])
        /\ \A j \in 1 .. n : j < p => Still(e, body[j])
    BY <2>3 DEF Barren
  <2>6. n = Len(body) /\ p \in 1 .. n
    BY <2>3
  <2> HIDE DEF p, n
  <2> QED
    BY <1>1, <1>4, <2>2, <2>4, <2>5, <2>6, SeedPivot DEF body
<1>18. CASE fn = "runAllPrograms"
  <2>1. body = RunAllPrograms(seed) /\ body = SuiteBody(e, fn, args, NoException)
    BY <1>5, <1>7, <1>18 DEF CfiBody, CfiEntry
  <2>2. Len(body) = 10 /\ \A j \in 1 .. 10 : body[j].op = "call" /\ body[j].fn = Programs[j]
    BY <2>1 DEF RunAllPrograms, Call
  <2>3. \A j \in 1 .. 10 : Programs[j] \in CfiRuns \cup {"program06", "program09"}
    BY DEF Programs, CfiRuns
  <2>4. \A g \in CfiRuns \cup {"program06", "program09"} : \A a :
          g \notin Rounds(e) /\ Leaks(e, g, a) = {}
    BY <1>4, <1>6 DEF CfiRuns, CfiLeaks, CfiEntry
  <2>5. \A j \in 1 .. Len(body) : IsProgram(m, e, body[j])
    BY <1>8, <2>2, <2>3, <2>4 DEF IsProgram
  <2> QED
    BY <1>1, <1>4, <1>18, <2>1, <2>5, SeedRound DEF body
<1>19. CASE fn = CfiEntry
  <2>1. seed \in Nat
    <3>1. Counted(args)
      BY <1>2, <1>19 DEF CfiEnters, CfiEntry, OnlyIf
    <3> QED
      BY <3>1 DEF Counted
  <2>2. body = CfiRounds(seed) /\ body = SuiteBody(e, fn, args, NoException)
    BY <1>5, <1>7, <1>19 DEF CfiBody, CfiEntry
  <2> HIDE DEF seed
  <2>3. \A j \in 1 .. Len(body) : body[j].op = "try" /\ body[j].fn = "round_try"
    BY <2>1, <2>2 DEF CfiRounds, Try
  <2>4. \A a : Leaks(e, "round_try", a) = {}
    BY <1>6 DEF CfiLeaks
  <2>5. \A j \in 1 .. Len(body) : IsRoundTry(m, e, body[j])
    BY <1>8, <2>3, <2>4 DEF IsRoundTry
  <2> QED
    BY <1>1, <1>4, <1>19, <2>2, <2>5, SeedEntry DEF body
<1> QED
  BY <1>3, <1>10, <1>11, <1>12, <1>13, <1>14, <1>15, <1>16, <1>17, <1>18, <1>19

-----------------------------------------------------------------------------

(* ------------------------------- ExtSuite ------------------------------ *)

ExtTrying == {"wide_try", "tuple_try", "switch_try", "member_try", "scope_try", "heap_try",
              "epilogue_root_try", "deque_try", "callback_try", "ladder_root_try", "ladder_try",
              "epilogue_try", "round_try"}
ExtClauses == {"minor_catch", "major_catch", "callback_catch", "ladder_catch", "epilogue_catch"}

\* What leaves a scope of the extended suite.
ExtLeaks(fn, args) ==
  CASE fn \in {"wideCase", "tupleCase"} -> {"MinorExtError"}
    [] fn \in {"MemberCluster::op", "scope_inner", "scope_mid", "scopeCase", "optionalHeapCase",
               "epilogue_try", "epilogue_catch", "epilogueCase"} -> {"MajorExtError"}
    [] fn \in {"dequeCase", "callbackCase"} -> {"CallbackExtError"}
    [] fn = "ExtRecursor" -> OnlyIf(args[1] = 0, {"MinorExtError"})
    [] OTHER -> {}

\* The clause of a try block of the suite, and what it takes.
ExtClause(fn) ==
  CASE fn \in {"wide_try", "tuple_try", "switch_try"} -> "minor_catch"
    [] fn \in {"member_try", "scope_try", "heap_try", "epilogue_root_try"} -> "major_catch"
    [] fn \in {"deque_try", "callback_try"} -> "callback_catch"
    [] fn = "ladder_try" -> "ladder_catch"
    [] fn = "epilogue_try" -> "epilogue_catch"

ExtTaken(fn) ==
  CASE fn \in {"wide_try", "tuple_try", "switch_try", "ladder_try"} -> "MinorExtError"
    [] fn \in {"member_try", "scope_try", "heap_try", "epilogue_root_try", "epilogue_try"} ->
         "MajorExtError"
    [] fn \in {"deque_try", "callback_try"} -> "CallbackExtError"

\* A seed selects one of the eight states program 16 starts in.
LEMMA EightStates ==
  ASSUME NEW seed \in Int
  PROVE  seed % 8 \in 0 .. 7
OBVIOUS

\* The tables of the extended suite.
LEMMA ExtTables ==
  ASSUME NEW e, e = ExtEntry, \A fn, type : Catches(e, fn, type) = ExtCatches(fn, type)
  PROVE  /\ Accounts(e) = {"guards", "programs", "pending"}
         /\ \A fn, args : /\ Enters(e, fn, args) = ExtEnters(fn, args)
                          /\ Raises(e, fn, args) = ExtRaises(fn, args)
                          /\ Work("guards", e, fn, args) = ExtGuards(fn, args)
                          /\ Work("programs", e, fn, args) = CompletedPrograms(fn, args)
                          /\ Work("pending", e, fn, args) =
                               IF "none" \in ExtEnters(fn, args) THEN 0 ELSE -1
                          /\ Leaks(e, fn, args) = ExtLeaks(fn, args)
                          /\ ClausesKept(e, fn, args)
                          /\ \A m \in Accounts(e) : Evenly(m, e, fn, args)
         /\ \A fn : fn \notin ExtTrying => Plain(e, fn)
<1>1. Accounts(e) = {"guards", "programs", "pending"}
  BY DEF Accounts, PluginEntry, BasicEntry, CfiEntry, ExtEntry, DeepEntry, StressEntry
<1>2. \A fn, args : /\ Enters(e, fn, args) = ExtEnters(fn, args)
                    /\ Raises(e, fn, args) = ExtRaises(fn, args)
                    /\ Guards(e, fn, args) = ExtGuards(fn, args)
  BY DEF Enters, Raises, Guards, PluginEntry, BasicEntry, CfiEntry, ExtEntry, DeepEntry,
     StressEntry
<1>3. \A fn, args : /\ Work("guards", e, fn, args) = ExtGuards(fn, args)
                    /\ Work("programs", e, fn, args) = CompletedPrograms(fn, args)
                    /\ Work("pending", e, fn, args) =
                         IF "none" \in ExtEnters(fn, args) THEN 0 ELSE -1
  BY <1>2, SeedsDecide DEF Work, Fare
<1>4. \A fn : fn \notin ExtTrying => Plain(e, fn)
  BY DEF Plain, ExtTrying, ExtCatches
<1> DEFINE Blocks == ExtTrying \ {"round_try", "ladder_root_try", "ladder_try"}
           Silent(fn, args) == \/ fn \in {"round_try", "ladder_root_try"}
                               \/ fn = "ladder_try" /\ args[1] # 1
           Taking(fn, args) == fn \in Blocks \/ (fn = "ladder_try" /\ args[1] = 1)
<1>5. \A fn \in Blocks \cup {"ladder_try"} : Catches(e, fn, ExtTaken(fn)) = ExtClause(fn)
  BY DEF ExtCatches, ExtTrying, ExtClause, ExtTaken
<1>6. ASSUME NEW fn, NEW args, Taking(fn, args)
      PROVE  /\ Raises(e, fn, args) = {ExtTaken(fn)}
             /\ ExtClause(fn) # "none" /\ ExtClause(fn) \in ExtClauses
             /\ Raises(e, ExtClause(fn), args) = ExtLeaks(fn, args)
             /\ Enters(e, ExtClause(fn), args) = {ExtTaken(fn)}
             /\ ExtTaken(fn) # "none"
  <2>1. fn \in Blocks \cup {"ladder_try"} /\ (fn = "ladder_try" => args[1] = 1)
    BY <1>6
  <2>2. ExtRaises(fn, args) = {ExtTaken(fn)} /\ ExtTaken(fn) # "none"
    BY <2>1 DEF ExtRaises, ExtTaken, ExtTrying, OnlyIf
  <2>3. ExtClause(fn) # "none" /\ ExtClause(fn) \in ExtClauses
    BY <2>1 DEF ExtClause, ExtClauses, ExtTrying
  <2>4. ExtRaises(ExtClause(fn), args) = IF fn = "epilogue_try" THEN {"MajorExtError"} ELSE {}
    BY <2>1 DEF ExtClause, ExtRaises, ExtTrying
  <2>5. ExtLeaks(fn, args) = IF fn = "epilogue_try" THEN {"MajorExtError"} ELSE {}
    BY <2>1 DEF ExtLeaks, ExtTrying
  <2>6. ExtEnters(ExtClause(fn), args) = {ExtTaken(fn)}
    BY <2>1 DEF ExtClause, ExtEnters, ExtTaken, ExtTrying, OnlyIf, ExtEntry
  <2> QED
    BY <1>2, <2>2, <2>3, <2>4, <2>5, <2>6
<1>7. \A fn, args : Silent(fn, args) => Raises(e, fn, args) = {} /\ ExtLeaks(fn, args) = {}
  BY <1>2 DEF ExtRaises, ExtLeaks, OnlyIf
<1>8. \A fn, args : fn \notin ExtTrying => Raises(e, fn, args) = ExtLeaks(fn, args)
  BY <1>2 DEF ExtRaises, ExtLeaks, ExtTrying
<1>9. \A c \in ExtClauses : \A t : Catches(e, c, t) = "none"
  BY <1>4 DEF ExtTrying, ExtClauses, Plain
<1>10. \A fn \in ExtTrying : \A args : Taking(fn, args) \/ Silent(fn, args)
  BY DEF ExtTrying
<1>11. ASSUME NEW fn, NEW args
       PROVE  Leaks(e, fn, args) = ExtLeaks(fn, args) /\ ClausesKept(e, fn, args)
  <2>1. CASE fn \notin ExtTrying
    BY <1>4, <1>8, <2>1, PlainScope
  <2>2. CASE Taking(fn, args)
    <3>0. Catches(e, fn, ExtTaken(fn)) = ExtClause(fn)
      BY <1>5, <2>2
    <3> HIDE DEF Taking
    <3>1. Leaks(e, fn, args) = ExtLeaks(fn, args)
      BY <1>6, <2>2, <3>0 DEF Leaks
    <3>2. ClausesKept(e, fn, args)
      BY <1>6, <1>9, <2>2, <3>0 DEF ClausesKept
    <3> QED
      BY <3>1, <3>2
  <2>3. CASE Silent(fn, args)
    BY <1>7, <2>3 DEF Leaks, ClausesKept
  <2> QED
    BY <1>10, <2>1, <2>2, <2>3
<1>12. ASSUME NEW fn, NEW args, NEW m \in Accounts(e)
       PROVE  Evenly(m, e, fn, args)
  <2>1. \A c \in ExtClauses : Work(m, e, c, args) = Fare(m)
    BY <1>1, <1>3 DEF ExtClauses, ExtGuards, CompletedPrograms, ExtEnters, Fare, CfiEntry, ExtEntry, OnlyIf
  <2>2. CASE fn \notin ExtTrying
    BY <1>4, <2>2, PlainScope
  <2>3. CASE Taking(fn, args)
    <3>1. Catches(e, fn, ExtTaken(fn)) = ExtClause(fn)
      BY <1>5, <2>3
    <3> HIDE DEF Taking
    <3> QED
      BY <1>6, <2>1, <2>3, <3>1 DEF Evenly, Settled
  <2>4. CASE Silent(fn, args)
    BY <1>7, <2>4 DEF Evenly
  <2> QED
    BY <1>10, <2>2, <2>3, <2>4
<1> QED
  BY <1>1, <1>2, <1>3, <1>4, <1>11, <1>12

\* Most cases, and the functions and blocks that are a line, with what they call.
ExtCases == {"wideCase", "MemberCluster::op", "tupleCase", "dequeCase", "optionalHeapCase",
             "callbackCase", "epilogue_try", "nested"}
ExtLines == {"wide_try", "member_try", "scope_try", "tuple_try", "deque_try", "heap_try",
             "callback_try", "epilogue_root_try", "program17", "scopeCase", "scope_mid",
             "epilogueCase"}
ExtRuns == {"program11", "program12", "program13", "program14", "program15", "program18",
            "program19", "program20"}
ExtGuarded == {"scopeCase", "scope_mid", "epilogueCase"}
ExtCallee(fn) ==
  CASE fn = "wide_try"          -> "wideCase"
    [] fn = "member_try"        -> "MemberCluster::op"
    [] fn = "scope_try"         -> "scopeCase"
    [] fn = "scopeCase"         -> "scope_mid"
    [] fn = "scope_mid"         -> "scope_inner"
    [] fn = "tuple_try"         -> "tupleCase"
    [] fn = "deque_try"         -> "dequeCase"
    [] fn = "heap_try"          -> "optionalHeapCase"
    [] fn = "callback_try"      -> "callbackCase"
    [] fn = "epilogue_root_try" -> "epilogueCase"
    [] fn = "epilogueCase"      -> "epilogue_try"
    [] fn = "program17"         -> "ladder_root_try"

\* The programs that are runs: what they run, and how often.
ExtTurn(fn) ==
  CASE fn = "program11" -> "wide_try"
    [] fn = "program12" -> "member_try"
    [] fn = "program13" -> "scope_try"
    [] fn = "program14" -> "tuple_try"
    [] fn = "program15" -> "deque_try"
    [] fn = "program18" -> "heap_try"
    [] fn = "program19" -> "callback_try"
    [] fn = "program20" -> "epilogue_root_try"

ExtTurns(fn) ==
  CASE fn = "program11"                  -> 20
    [] fn \in {"program12", "program13"} -> 12
    [] fn \in {"program14", "program20"} -> 10
    [] fn \in {"program15", "program18"} -> 8
    [] fn = "program19"                  -> 32

\* These programs are runs.
LEMMA ExtSweeps ==
  ASSUME NEW fn \in ExtRuns, NEW args, NEW exc
  PROVE  IsRun(ExtBody(fn, args, exc), ExtTurn(fn), ExtTurns(fn))
<1> DEFINE body == ExtBody(fn, args, exc)
           seed == args[Len(args)]
<1>1. ASSUME NEW op \in {"call", "try"}, NEW g, NEW n \in Nat, NEW stride,
             body = Sweep(op, g, n, seed, stride) \o Finished
      PROVE  IsRun(body, g, n)
  BY <1>1, SweepRuns
<1> HIDE DEF body, seed
<1>2. CASE fn = "program11"
  <2>1. body = Sweep("try", "wide_try", 20, seed, 13) \o Finished
    BY <1>2 DEF body, seed, ExtBody, ExtEntry, WideRegisterPressure
  <2>2. IsRun(body, "wide_try", 20)
    BY <1>1, <2>1
  <2> QED
    BY <1>2, <2>2 DEF body, ExtTurn, ExtTurns
<1>3. CASE fn = "program12"
  <2>1. body = Sweep("try", "member_try", 12, seed, 17) \o Finished
    BY <1>3 DEF body, seed, ExtBody, ExtEntry, MemberPointers
  <2>2. IsRun(body, "member_try", 12)
    BY <1>1, <2>1
  <2> QED
    BY <1>3, <2>2 DEF body, ExtTurn, ExtTurns
<1>4. CASE fn = "program13"
  <2>1. body = Sweep("try", "scope_try", 12, seed, 19) \o Finished
    BY <1>4 DEF body, seed, ExtBody, ExtEntry, NestedCleanupScopes
  <2>2. IsRun(body, "scope_try", 12)
    BY <1>1, <2>1
  <2> QED
    BY <1>4, <2>2 DEF body, ExtTurn, ExtTurns
<1>5. CASE fn = "program14"
  <2>1. body = Sweep("try", "tuple_try", 10, seed, 23) \o Finished
    BY <1>5 DEF body, seed, ExtBody, ExtEntry, TupleApply
  <2>2. IsRun(body, "tuple_try", 10)
    BY <1>1, <2>1
  <2> QED
    BY <1>5, <2>2 DEF body, ExtTurn, ExtTurns
<1>6. CASE fn = "program15"
  <2>1. body = Sweep("try", "deque_try", 8, seed, 29) \o Finished
    BY <1>6 DEF body, seed, ExtBody, ExtEntry, DequeVectorChurn
  <2>2. IsRun(body, "deque_try", 8)
    BY <1>1, <2>1
  <2> QED
    BY <1>6, <2>2 DEF body, ExtTurn, ExtTurns
<1>7. CASE fn = "program18"
  <2>1. body = Sweep("try", "heap_try", 8, seed, 31) \o Finished
    BY <1>7 DEF body, seed, ExtBody, ExtEntry, OptionalHeapPaths
  <2>2. IsRun(body, "heap_try", 8)
    BY <1>1, <2>1
  <2> QED
    BY <1>7, <2>2 DEF body, ExtTurn, ExtTurns
<1>8. CASE fn = "program20"
  <2>1. body = Sweep("try", "epilogue_root_try", 10, seed, 37) \o Finished
    BY <1>8 DEF body, seed, ExtBody, ExtEntry, SharedEpilogueCleanup
  <2>2. IsRun(body, "epilogue_root_try", 10)
    BY <1>1, <2>1
  <2> QED
    BY <1>8, <2>2 DEF body, ExtTurn, ExtTurns
<1>9. CASE fn = "program19"
  <2> DEFINE n == 32
             s == [i \in 1 .. n |-> Try("callback_try", << (seed + (i - 1) * 7) % 12, seed + i - 1 >>)]
  <2>1. /\ s = [j \in 1 .. n |-> s[j]] /\ n \in Nat
        /\ \A j \in 1 .. n : s[j].op \in {"call", "try"} /\ s[j].fn = "callback_try"
    BY DEF Try
  <2>2. body = s \o Finished
    BY <1>9 DEF body, seed, ExtBody, ExtEntry, CallbackMesh
  <2> HIDE DEF s, n
  <2>3. IsRun(body, "callback_try", n)
    BY <2>1, <2>2, FinishedRuns
  <2> QED
    BY <1>9, <2>3 DEF n, body, ExtTurn, ExtTurns
<1> QED
  BY <1>2, <1>3, <1>4, <1>5, <1>6, <1>7, <1>8, <1>9 DEF ExtRuns, body

ExtPlain == {"wideCase", "MemberCluster::op", "tupleCase", "dequeCase", "optionalHeapCase",
             "callbackCase"}

\* The plain cases throw as ExtHits says.
LEMMA ExtCaseBody ==
  ASSUME NEW fn \in ExtPlain, NEW args, NEW exc
  PROVE  \E type \in ExtRaises(fn, args) :
           Throws(ExtBody(fn, args, exc), ExtHits(fn, args), type)
<1> DEFINE id == args[1]
           seed == args[Len(args)]
           rest == << >>
<1>1. rest \in {<< >>, << Capture >>}
  OBVIOUS
<1>2. CASE fn = "wideCase"
  <2> DEFINE code == (seed + id) + 3000
  <2>1. ExtBody(fn, args, exc) =
          << Guard, Capture >> \o (IF ExtHits(fn, args) THEN Raise("MinorExtError", code) ELSE rest)
    BY <1>2 DEF ExtBody, ExtEntry, WideCase, PlainCase, ExtHits
  <2>2. "MinorExtError" \in ExtRaises(fn, args)
    BY <1>2 DEF ExtRaises
  <2> HIDE DEF code, rest
  <2> QED
    BY <1>1, <2>1, <2>2 DEF Throws
<1>3. CASE fn = "MemberCluster::op"
  <2> DEFINE code == (seed + id) + 3200
  <2>1. ExtBody(fn, args, exc) =
          << Guard, Capture >> \o (IF ExtHits(fn, args) THEN Raise("MajorExtError", code) ELSE rest)
    BY <1>3 DEF ExtBody, ExtEntry, MemberOp, PlainCase, ExtHits
  <2>2. "MajorExtError" \in ExtRaises(fn, args)
    BY <1>3 DEF ExtRaises
  <2> HIDE DEF code, rest
  <2> QED
    BY <1>1, <2>1, <2>2 DEF Throws
<1>4. CASE fn = "tupleCase"
  <2> DEFINE code == (seed + id) + 3600
  <2>1. ExtBody(fn, args, exc) =
          << Guard, Capture >> \o (IF ExtHits(fn, args) THEN Raise("MinorExtError", code) ELSE rest)
    BY <1>4 DEF ExtBody, ExtEntry, TupleCase, PlainCase, ExtHits
  <2>2. "MinorExtError" \in ExtRaises(fn, args)
    BY <1>4 DEF ExtRaises
  <2> HIDE DEF code, rest
  <2> QED
    BY <1>1, <2>1, <2>2 DEF Throws
<1>5. CASE fn = "dequeCase"
  <2> DEFINE code == (seed + id) + 3800
  <2>1. ExtBody(fn, args, exc) =
          << Guard, Capture >> \o (IF ExtHits(fn, args) THEN Raise("CallbackExtError", code) ELSE rest)
    BY <1>5 DEF ExtBody, ExtEntry, DequeCase, PlainCase, ExtHits
  <2>2. "CallbackExtError" \in ExtRaises(fn, args)
    BY <1>5 DEF ExtRaises
  <2> HIDE DEF code, rest
  <2> QED
    BY <1>1, <2>1, <2>2 DEF Throws
<1>6. CASE fn = "optionalHeapCase"
  <2> DEFINE code == (seed + id) + 4200
  <2>1. ExtBody(fn, args, exc) =
          << Guard, Capture >> \o (IF ExtHits(fn, args) THEN Raise("MajorExtError", code) ELSE rest)
    BY <1>6 DEF ExtBody, ExtEntry, OptionalHeapCase, PlainCase, ExtHits
  <2>2. "MajorExtError" \in ExtRaises(fn, args)
    BY <1>6 DEF ExtRaises
  <2> HIDE DEF code, rest
  <2> QED
    BY <1>1, <2>1, <2>2 DEF Throws
<1>7. CASE fn = "callbackCase"
  <2> DEFINE code == (seed + id) + 4400
  <2>1. ExtBody(fn, args, exc) =
          << Guard, Capture >> \o (IF ExtHits(fn, args) THEN Raise("CallbackExtError", code) ELSE rest)
    BY <1>7 DEF ExtBody, ExtEntry, CallbackCase, PlainCase, ExtHits
  <2>2. "CallbackExtError" \in ExtRaises(fn, args)
    BY <1>7 DEF ExtRaises
  <2> HIDE DEF code, rest
  <2> QED
    BY <1>1, <2>1, <2>2 DEF Throws
<1> QED
  BY <1>2, <1>3, <1>4, <1>5, <1>6, <1>7 DEF ExtPlain

\* program16: a guard, captures and switch_try blocks, and its count.
IsStates(body, c) ==
  /\ c \in Nat /\ Len(body) = c + 2 /\ body[1] = Guard /\ body[c + 2] = Count("programs")
  /\ \A j \in 2 .. c + 1 : \/ body[j].op = "capture"
                           \/ body[j].op = "try" /\ body[j].fn = "switch_try"

\* It is one, from each of its states.
LEMMA SwitchStarts ==
  ASSUME NEW seed \in Int
  PROVE  \E c : IsStates(StateMachineSwitch(seed), c)
<1> DEFINE state == SwitchStates[seed % 8]
           turns == SwitchTurns[seed % 8]
           c == Len(turns)
           mid == [k \in 1 .. c |-> IF state[turns[k]] = 6 THEN Try("switch_try", << seed + turns[k] >>)
                                    ELSE Capture]
           T == {mid[k] : k \in 1 .. c}
           body == StateMachineSwitch(seed)
<1>1. c \in Nat
  <2>1. seed % 8 \in 0 .. 7
    BY EightStates
  <2> DEFINE busy == {i \in 0 .. 55 : state[i] \notin {1, 3, 5}}
             size == Cardinality(busy)
             last == 55
  <2>2. IsFiniteSet(0 .. last)
    <3>1. last \in Int /\ 0 \in Int
      OBVIOUS
    <3> HIDE DEF last
    <3> QED
      BY <3>1, FS_Interval
  <2>3. IsFiniteSet(busy)
    BY <2>2, FS_Subset
  <2>4. size \in Nat
    BY <2>3, FS_CardinalityType
  <2>5. turns = [k \in 1 .. size |-> NthOf(busy, k)]
    BY <2>1 DEF SwitchTurns
  <2> HIDE DEF busy
  <2>6. size \in Nat
    BY <2>4 DEF size
  <2> HIDE DEF size, turns
  <2> QED
    BY <2>5, <2>6
<1>2. body = << Guard >> \o mid \o Finished
  BY DEF StateMachineSwitch
<1> HIDE DEF c, state, turns, body
<1>3. /\ mid = [k \in 1 .. c |-> mid[k]]
      /\ \A k \in 1 .. c : \/ mid[k].op = "capture"
                           \/ mid[k].op = "try" /\ mid[k].fn = "switch_try"
  BY DEF Try, Capture
<1> HIDE DEF mid
<1>4. mid \in [1 .. c -> T]
  BY <1>3
<1> HIDE DEF T
<1>5. mid \in Seq(T) /\ Len(mid) = c
  BY <1>1, <1>4
<1>6. /\ Len(body) = c + 2 /\ body[1] = Guard /\ body[c + 2] = Count("programs")
      /\ \A j \in 2 .. c + 1 : body[j] = mid[j - 1] /\ j - 1 \in 1 .. c
  BY <1>1, <1>2, <1>5 DEF Finished
<1>7. IsStates(body, c)
  BY <1>1, <1>3, <1>6 DEF IsStates
<1> QED
  BY <1>7 DEF body

\* The extended suite keeps its contracts.
LEMMA ExtOrderly ==
  ASSUME NEW e, e = ExtEntry,
         \A fn, args, exc : Body(e, fn, args, exc) = ExtBody(fn, args, exc),
         \A fn, type : Catches(e, fn, type) = ExtCatches(fn, type)
  PROVE  Orderly(e)
<1>1. ASSUME NEW n \in Nat \ {0}
      PROVE  "none" \in Enters(e, e, << n >>) /\ Raises(e, e, << n >>) = {}
  <2>1. Counted(<< n >>)
    BY DEF Counted
  <2> QED
    BY <2>1, ExtTables DEF ExtEnters, ExtRaises, OnlyIf, ExtEntry
<1>2. ASSUME NEW fn \in STRING, NEW args \in Seq(Int), NEW exc \in MaybeException,
             exc.type \in Enters(e, fn, args)
      PROVE  Keeps(e, fn, args, exc)
  <2> DEFINE body == Body(e, fn, args, exc)
             id == args[1]
             seed == args[Len(args)]
  <2>1. exc.type \in ExtEnters(fn, args)
    BY <1>2, ExtTables
  <2>2. fn \in ExtLines \cup ExtCases \cup ExtRuns \cup ExtClauses \cup
               {ExtEntry, "round_try", "runAllPrograms", "scope_inner", "switch_try", "program16",
                "ladder_root_try", "ExtRecursor", "ladder_try"}
    BY <2>1 DEF ExtEnters, ExtLines, ExtCases, ExtRuns, ExtClauses
  <2>3. /\ Accounts(e) = {"guards", "programs", "pending"}
        /\ \A g, a : /\ Enters(e, g, a) = ExtEnters(g, a)
                     /\ Raises(e, g, a) = ExtRaises(g, a)
                     /\ Work("guards", e, g, a) = ExtGuards(g, a)
                     /\ Work("programs", e, g, a) = CompletedPrograms(g, a)
                     /\ Work("pending", e, g, a) = IF "none" \in ExtEnters(g, a) THEN 0 ELSE -1
                     /\ Leaks(e, g, a) = ExtLeaks(g, a)
                     /\ ClausesKept(e, g, a)
                     /\ \A m \in Accounts(e) : Evenly(m, e, g, a)
        /\ \A g : g \notin ExtTrying => Plain(e, g)
    BY ExtTables
  <2>4. body = ExtBody(fn, args, exc)
    OBVIOUS
  <2>5. Accounts(e) \subseteq AllAccounts \ {"traces"} /\ Accounts(e) \subseteq AllAccounts
    BY <2>3 DEF AllAccounts
  <2>6. CASE fn \in ExtClauses
    <3>1. \A m \in Accounts(e) : Work(m, e, fn, args) = Fare(m)
      BY <2>3, <2>6 DEF ExtClauses, ExtGuards, CompletedPrograms, ExtEnters, Fare, CfiEntry, ExtEntry, OnlyIf
    <3>2. Plain(e, fn)
      BY <2>3, <2>6 DEF ExtClauses, ExtTrying
    <3>3. CASE fn # "epilogue_catch"
      <4>1. body = Caught
        <5>1. CASE fn = "ladder_catch"
          <6>1. id = 1
            BY <2>1, <5>1 DEF ExtEnters, OnlyIf, ExtEntry
          <6>2. body = LadderCatch(id)
            BY <2>4, <5>1 DEF ExtBody, ExtEntry
          <6> QED
            BY <6>1, <6>2 DEF LadderCatch, Caught
        <5>2. CASE fn # "ladder_catch"
          BY <2>4, <2>6, <3>3, <5>2 DEF ExtBody, ExtClauses, ExtEntry
        <5> QED
          BY <5>1, <5>2
      <4> QED
        BY <2>5, <3>1, <3>2, <4>1, CatchKeeps
    <3>4. CASE fn = "epilogue_catch"
      <4> DEFINE c == (exc.code + id) % 8 = 1
      <4>1. body = Caught \o (IF c THEN Reraise ELSE << >>)
        BY <2>4, <3>4 DEF ExtBody, EpilogueCatch, ExtEntry
      <4>2. exc.type \in Raises(e, fn, args)
        BY <2>1, <2>3, <3>4 DEF ExtEnters, ExtRaises, ExtEntry
      <4> HIDE DEF c
      <4> QED
        BY <2>5, <3>1, <3>2, <4>1, <4>2, ReraiseKeeps
    <3> QED
      BY <3>3, <3>4
  <2>7. CASE fn \in ExtLines
    <3> DEFINE g == ExtCallee(fn)
               first == IF fn \in ExtGuarded THEN 1 ELSE 0
    <3>1. PICK a : Wraps(body, g, a, first)
      <4>1. \E a : \E s \in {Call(g, a), Try(g, a)} :
              \/ first = 0 /\ body = << s >>
              \/ first = 1 /\ body = << Guard, s, Capture >>
        BY <2>4, <2>7 DEF ExtBody, ExtLines, ExtGuarded, ExtCallee, ExtEntry, ScopeCase, ScopeMid,
           EpilogueCase
      <4> HIDE DEF g, first, body
      <4> QED
        BY <4>1, WrapShapes
    <3>2. "none" \in Enters(e, g, a)
      BY <2>3, <2>7 DEF ExtEnters, ExtLines, ExtCallee, ExtEntry
    <3>3. Leaks(e, g, a) \subseteq Raises(e, fn, args)
      BY <2>3, <2>7 DEF ExtLeaks, ExtRaises, ExtLines, ExtCallee
    <3>4. ASSUME NEW m \in Accounts(e) PROVE Passes(m, e, fn, args, g, a, first)
      <4>1. CASE m = "guards"
        BY <2>3, <2>7, <4>1 DEF Passes, ExtGuards, ExtLines, ExtGuarded, ExtCallee, ExtEntry
      <4>2. CASE m = "programs"
        BY <2>3, <2>7, <4>2 DEF Passes, CompletedPrograms, ExtLines, ExtCallee, CfiEntry, ExtEntry
      <4>3. CASE m = "pending"
        <5>1. Work(m, e, g, a) = 0
          BY <2>3, <3>2, <4>3
        <5>2. "none" \in ExtEnters(fn, args)
          BY <2>7 DEF ExtEnters, ExtLines, ExtEntry
        <5> QED
          BY <2>3, <4>3, <5>1, <5>2 DEF Passes
      <4> QED
        BY <2>3, <4>1, <4>2, <4>3
    <3>5. first \in {0, 1}
      OBVIOUS
    <3> HIDE DEF g, first
    <3> QED
      BY <2>3, <2>5, <3>1, <3>2, <3>3, <3>4, <3>5, WrapKeeps
  <2>8. CASE fn = "round_try"
    <3> DEFINE first == 0
    <3>1. Wraps(body, "runAllPrograms", args, first) /\ first \in {0, 1} /\ first = 0
      <4>1. body = << Call("runAllPrograms", args) >>
        BY <2>4, <2>8 DEF ExtBody, ExtEntry
      <4> QED
        BY <4>1, WrapShapes
    <3> HIDE DEF first
    <3>2. "none" \in Enters(e, "runAllPrograms", args)
      BY <2>1, <2>3, <2>8 DEF ExtEnters, ExtEntry, OnlyIf
    <3>3. Leaks(e, "runAllPrograms", args) \subseteq Raises(e, fn, args)
      BY <2>3 DEF ExtLeaks
    <3>4. /\ Work("guards", e, fn, args) = 176 /\ Work("guards", e, "runAllPrograms", args) = 176
          /\ Work("programs", e, fn, args) = 10 /\ Work("programs", e, "runAllPrograms", args) = 10
          /\ Work("pending", e, fn, args) = 0 /\ Work("pending", e, "runAllPrograms", args) = 0
      BY <2>1, <2>3, <2>8 DEF ExtGuards, CompletedPrograms, ExtEnters, OnlyIf, CfiEntry, ExtEntry
    <3>5. \A m \in Accounts(e) : Passes(m, e, fn, args, "runAllPrograms", args, first)
      BY <2>3, <3>1, <3>4 DEF Passes
    <3> QED
      BY <2>3, <2>5, <3>1, <3>2, <3>3, <3>5, WrapKeeps
  <2>9. CASE fn \in ExtCases
    <3>1. IsCase(body, Raises(e, fn, args))
      <4>1. CASE fn \in ExtPlain
        <5>1. PICK type \in Raises(e, fn, args) : Throws(body, ExtHits(fn, args), type)
          BY <2>3, <2>4, <4>1, ExtCaseBody
        <5> QED
          BY <5>1, CaseShape DEF Throws
      <4>2. CASE fn = "epilogue_try"
        <5> DEFINE c == (seed + id) % 16 = 9
                   code == seed + id + 4600
        <5>1. body = << Guard, Capture >> \o (IF c THEN Raise("MajorExtError", code) ELSE << Capture >>)
          BY <2>4, <4>2 DEF ExtBody, ExtEntry, EpilogueTry
        <5>2. "MajorExtError" \in Raises(e, fn, args) /\ << Capture >> \in {<< >>, << Capture >>}
          BY <2>3, <4>2 DEF ExtRaises
        <5> HIDE DEF c, code
        <5> QED
          BY <5>1, <5>2, CaseShape
      <4>3. CASE fn = "nested"
        <5>1. body = << Guard, Capture >>
          BY <2>4, <4>3 DEF ExtBody, ExtEntry
        <5> QED
          BY <5>1 DEF IsCase, IsEnding, Guard, Capture
      <4> QED
        BY <2>9, <4>1, <4>2, <4>3 DEF ExtCases, ExtPlain
    <3>2. \A m \in Accounts(e) : Work(m, e, fn, args) = IF m = "guards" THEN 1 ELSE 0
      BY <2>3, <2>9 DEF ExtCases, ExtGuards, CompletedPrograms, ExtEnters, CfiEntry, ExtEntry
    <3> QED
      BY <2>3, <2>5, <3>1, <3>2, CaseKeeps
  <2>10. CASE fn \in ExtRuns
    <3>1. IsRun(body, ExtTurn(fn), ExtTurns(fn))
      BY <2>4, <2>10, ExtSweeps
    <3>2. PICK step : RunWork(e, fn, args, ExtTurn(fn), ExtTurns(fn), step)
      <4> DEFINE step == CASE fn = "program13" -> 4 [] fn = "program20" -> 2 [] OTHER -> 1
      <4>1. RunWork(e, fn, args, ExtTurn(fn), ExtTurns(fn), step)
        BY <2>3, <2>10 DEF ExtRuns, ExtTurn, ExtTurns, RunWork, ExtGuards, CompletedPrograms,
           ExtEnters, ExtLeaks, CfiEntry, ExtEntry
      <4> QED
        BY <4>1
    <3> HIDE DEF body
    <3> QED
      BY <2>3, <3>1, <3>2, RunKeeps DEF body
  <2>11. CASE fn = "ExtRecursor"
    <3>1. id \in Nat
      BY <2>1, <2>11 DEF ExtEnters, ExtEntry, OnlyIf
    <3>2. body = ExtRecursor(id, seed)
      BY <2>4, <2>11 DEF ExtBody, ExtEntry
    <3>3. /\ Work("guards", e, fn, args) = id + 1 /\ Work("programs", e, fn, args) = 0
          /\ Work("pending", e, fn, args) = 0
      BY <2>3, <2>11, <3>1 DEF ExtGuards, CompletedPrograms, ExtEnters, OnlyIf, CfiEntry, ExtEntry
    <3>4. Raises(e, fn, args) = OnlyIf(id = 0, {"MinorExtError"})
      BY <2>3, <2>11 DEF ExtRaises
    <3>5. CASE id = 0
      <4> DEFINE c == seed % 8 = 2
                 code == seed + 4100
      <4>1. body = << Guard, Capture >> \o (IF c THEN Raise("MinorExtError", code) ELSE << >>)
        BY <3>2, <3>5 DEF ExtRecursor
      <4> HIDE DEF c, code
      <4>2. IsCase(body, Raises(e, fn, args))
        BY <3>4, <3>5, <4>1, CaseShape DEF OnlyIf
      <4>3. \A m \in Accounts(e) : Work(m, e, fn, args) = IF m = "guards" THEN 1 ELSE 0
        BY <2>3, <3>3, <3>5
      <4> QED
        BY <2>3, <2>5, <4>2, <4>3, CaseKeeps
    <3>6. CASE id # 0
      <4> DEFINE a == << id, seed >>
                 first == 1
      <4>1. body = << Guard, Capture >> \o << Try("ladder_try", a) >>
        BY <3>1, <3>2, <3>6 DEF ExtRecursor
      <4>2. a[1] = id /\ a[1] \in Nat \ {0} /\ first = 1 /\ first \in {0, 1}
        BY <3>1, <3>6
      <4> HIDE DEF a, first
      <4>3. Wraps(body, "ladder_try", a, first)
        BY <4>1, <4>2, WrapShapes
      <4>4. "none" \in Enters(e, "ladder_try", a) /\ Leaks(e, "ladder_try", a) \subseteq Raises(e, fn, args)
        BY <2>3, <4>2 DEF ExtEnters, OnlyIf, ExtLeaks, ExtEntry
      <4>5. /\ Work("guards", e, "ladder_try", a) = id /\ Work("programs", e, "ladder_try", a) = 0
            /\ Work("pending", e, "ladder_try", a) = 0
        BY <2>3, <3>1, <4>2, <4>4 DEF ExtGuards, CompletedPrograms, CfiEntry, ExtEntry
      <4>6. \A m \in Accounts(e) : Passes(m, e, fn, args, "ladder_try", a, first)
        BY <2>3, <3>1, <3>3, <4>2, <4>5 DEF Passes
      <4> QED
        BY <2>3, <2>5, <4>2, <4>3, <4>4, <4>6, WrapKeeps
    <3> QED
      BY <3>5, <3>6
  <2>12. CASE fn = "ladder_try"
    <3> DEFINE a == << id - 1, seed + id >>
               first == 0
    <3>1. id \in Nat /\ id # 0
      BY <2>1, <2>12 DEF ExtEnters, ExtEntry, OnlyIf
    <3>2. body = << Call("ExtRecursor", a) >>
      BY <2>4, <2>12 DEF ExtBody, ExtEntry
    <3>3. a[1] = id - 1 /\ a[1] \in Nat /\ first = 0 /\ first \in {0, 1}
      BY <3>1
    <3> HIDE DEF a, first
    <3>4. Wraps(body, "ExtRecursor", a, first)
      BY <3>2, <3>3, WrapShapes
    <3>5. "none" \in Enters(e, "ExtRecursor", a)
      BY <2>3, <3>3 DEF ExtEnters, OnlyIf, ExtEntry
    <3>6. Leaks(e, "ExtRecursor", a) \subseteq Raises(e, fn, args)
      <4>1. a[1] = 0 => id = 1
        BY <3>1, <3>3
      <4>2. Leaks(e, "ExtRecursor", a) = OnlyIf(a[1] = 0, {"MinorExtError"})
        BY <2>3 DEF ExtLeaks
      <4>3. Raises(e, fn, args) = OnlyIf(id = 1, {"MinorExtError"})
        BY <2>3, <2>12 DEF ExtRaises
      <4> QED
        BY <4>1, <4>2, <4>3 DEF OnlyIf
    <3>7. /\ Work("guards", e, "ExtRecursor", a) = id /\ Work("programs", e, "ExtRecursor", a) = 0
          /\ Work("pending", e, "ExtRecursor", a) = 0
      BY <2>3, <3>1, <3>3, <3>5 DEF ExtGuards, CompletedPrograms, CfiEntry, ExtEntry
    <3>8. /\ Work("guards", e, fn, args) = id /\ Work("programs", e, fn, args) = 0
          /\ Work("pending", e, fn, args) = 0
      BY <2>1, <2>3, <2>12, <3>1 DEF ExtGuards, CompletedPrograms, ExtEnters, OnlyIf, CfiEntry, ExtEntry
    <3>9. \A m \in Accounts(e) : Passes(m, e, fn, args, "ExtRecursor", a, first)
      BY <2>3, <3>1, <3>3, <3>7, <3>8 DEF Passes
    <3> QED
      BY <2>3, <2>5, <3>3, <3>4, <3>5, <3>6, <3>9, WrapKeeps
  <2>13. CASE fn = "runAllPrograms"
    <3> DEFINE due == << 176, 156, 144, 96, 86, 78, 77, 60, 52, 20, 0 >>
    <3>0. seed \in Int
      BY <2>1, <2>13 DEF ExtEnters, ExtEntry, OnlyIf
    <3>1. body = RunAllExtPrograms(seed)
      BY <2>4, <2>13 DEF ExtBody, ExtEntry
    <3> HIDE DEF body, seed
    <3>2. /\ Len(body) = 10
          /\ \A j \in 1 .. 10 : body[j].op = "call" /\ body[j].fn = ExtPrograms[j]
                                /\ Len(body[j].args) = 1 /\ body[j].args[1] \in Int
      BY <3>0, <3>1 DEF RunAllExtPrograms, Call
    <3>3. \A j \in 1 .. 10 : ExtPrograms[j] \in ExtRuns \cup {"program16", "program17"}
      BY DEF ExtPrograms, ExtRuns
    <3>4. ASSUME NEW g \in ExtRuns \cup {"program16", "program17"}, NEW a, Len(a) = 1, a[1] \in Int
          PROVE  /\ "none" \in Enters(e, g, a) /\ Leaks(e, g, a) = {}
                 /\ Work("programs", e, g, a) = 1 /\ Work("pending", e, g, a) = 0
      <4>1. a[Len(a)] \in Int
        BY <3>4
      <4> QED
        BY <2>3, <4>1 DEF ExtRuns, ExtEnters, ExtLeaks, CompletedPrograms, OnlyIf, CfiEntry, ExtEntry
    <3>5. \A j \in 1 .. 10 : /\ Quiet(e, body[j])
                             /\ Work("programs", e, body[j].fn, body[j].args) = 1
                             /\ Work("pending", e, body[j].fn, body[j].args) = 0
      BY <3>2, <3>3, <3>4 DEF Quiet
    <3>6. /\ Work("guards", e, fn, args) = 176 /\ Work("programs", e, fn, args) = 10
          /\ Work("pending", e, fn, args) = 0
      BY <2>1, <2>3, <2>13 DEF ExtGuards, CompletedPrograms, ExtEnters, OnlyIf, CfiEntry, ExtEntry
    <3>7. ASSUME NEW j \in 1 .. 10
          PROVE  due[j] = Work("guards", e, body[j].fn, body[j].args) + due[j + 1]
      <4>1. j \in {1, 2, 3, 4, 5, 6, 7, 8, 9, 10}
        OBVIOUS
      <4>2. \A a : /\ Work("guards", e, "program11", a) = 20 /\ Work("guards", e, "program12", a) = 12
                   /\ Work("guards", e, "program13", a) = 48 /\ Work("guards", e, "program14", a) = 10
                   /\ Work("guards", e, "program15", a) = 8 /\ Work("guards", e, "program16", a) = 1
                   /\ Work("guards", e, "program17", a) = 17 /\ Work("guards", e, "program18", a) = 8
                   /\ Work("guards", e, "program19", a) = 32 /\ Work("guards", e, "program20", a) = 20
        BY <2>3 DEF ExtGuards, ExtEntry
      <4> DEFINE cost == << 20, 12, 48, 10, 8, 1, 17, 8, 32, 20 >>
                 a == body[j].args
      <4>3. Work("guards", e, body[j].fn, a) = cost[j]
        <5> HIDE DEF a
        <5>1. /\ j = 1 => ExtPrograms[j] = "program11" /\ cost[j] = 20
              /\ j = 2 => ExtPrograms[j] = "program12" /\ cost[j] = 12
              /\ j = 3 => ExtPrograms[j] = "program13" /\ cost[j] = 48
              /\ j = 4 => ExtPrograms[j] = "program14" /\ cost[j] = 10
              /\ j = 5 => ExtPrograms[j] = "program15" /\ cost[j] = 8
              /\ j = 6 => ExtPrograms[j] = "program16" /\ cost[j] = 1
              /\ j = 7 => ExtPrograms[j] = "program17" /\ cost[j] = 17
              /\ j = 8 => ExtPrograms[j] = "program18" /\ cost[j] = 8
              /\ j = 9 => ExtPrograms[j] = "program19" /\ cost[j] = 32
              /\ j = 10 => ExtPrograms[j] = "program20" /\ cost[j] = 20
          BY DEF ExtPrograms
        <5>2. body[j].fn = ExtPrograms[j]
          BY <3>2
        <5> HIDE DEF cost
        <5> QED
          BY <4>1, <4>2, <5>1, <5>2
      <4>4. due[j] = cost[j] + due[j + 1]
        BY <4>1
      <4> HIDE DEF due, cost
      <4> QED
        BY <4>3, <4>4
    <3>8. (\A j \in 1 .. 11 : due[j] \in Int) /\ due[1] = 176 /\ due[11] = 0
      OBVIOUS
    <3> HIDE DEF due
    <3>9. IsRound(e, fn, args, body, due)
      BY <3>2, <3>5, <3>6, <3>7, <3>8 DEF IsRound
    <3> QED
      BY <2>3, <3>9, RoundKeeps DEF body
  <2>14. CASE fn = ExtEntry
    <3> DEFINE turns == seed + 2
               k == turns + 1
               step == [m \in AllAccounts |-> CASE m = "guards" -> 176 [] m = "programs" -> 10 [] OTHER -> 0]
               rest == [m \in AllAccounts |-> 0]
    <3>1. Counted(args)
      BY <2>1, <2>14 DEF ExtEnters, ExtEntry, OnlyIf
    <3>2. seed \in Nat \ {0} /\ seed = id
      BY <3>1 DEF Counted
    <3>3. body = ExtRounds(seed)
      BY <2>4, <2>14 DEF ExtBody, ExtEntry
    <3>4. /\ Work("guards", e, fn, args) = 176 * (seed + 2)
          /\ Work("programs", e, fn, args) = 10 * (seed + 2)
          /\ Work("pending", e, fn, args) = 0
      BY <2>3, <2>14, <3>1, <3>2 DEF ExtGuards, CompletedPrograms, ExtEnters, OnlyIf, CfiEntry, ExtEntry
    <3>5. \A a : Len(a) = 1 /\ a[1] \in Int =>
            /\ Work("guards", e, "round_try", a) = 176
            /\ Work("programs", e, "round_try", a) = 10
            /\ Work("pending", e, "round_try", a) = 0
            /\ "none" \in Enters(e, "round_try", a) /\ Leaks(e, "round_try", a) = {}
      <4> SUFFICES ASSUME NEW a, Len(a) = 1, a[1] \in Int
                   PROVE  /\ Work("guards", e, "round_try", a) = 176
                          /\ Work("programs", e, "round_try", a) = 10
                          /\ Work("pending", e, "round_try", a) = 0
                          /\ "none" \in Enters(e, "round_try", a) /\ Leaks(e, "round_try", a) = {}
        OBVIOUS
      <4>1. a[Len(a)] \in Int
        OBVIOUS
      <4>2. "none" \in ExtEnters("round_try", a)
        BY <4>1 DEF ExtEnters, OnlyIf, ExtEntry
      <4> QED
        BY <2>3, <4>2 DEF ExtGuards, CompletedPrograms, ExtLeaks, CfiEntry, ExtEntry
    <3> HIDE DEF body, seed
    <3>6. /\ turns \in Nat /\ Len(body) = turns
          /\ \A j \in 1 .. turns : /\ body[j].op = "try" /\ body[j].fn = "round_try"
                                   /\ Len(body[j].args) = 1 /\ body[j].args[1] \in Int
      BY <3>2, <3>3 DEF ExtRounds, Try
    <3> HIDE DEF turns
    <3>7. k \in Nat /\ k # 0 /\ k - 1 = turns
      BY <3>6
    <3> HIDE DEF k
    <3>8. IsLoop(e, body, k)
      BY <3>5, <3>6, <3>7 DEF IsLoop, Quiet
    <3>9. ASSUME NEW m \in Accounts(e)
          PROVE  LoopWork(m, e, body, k, Work(m, e, fn, args), step[m], rest[m])
      <4>1. /\ step[m] = CASE m = "guards" -> 176 [] m = "programs" -> 10 [] OTHER -> 0
            /\ rest[m] = 0
        BY <2>5
      <4> HIDE DEF step, rest
      <4>2. m \in {"guards", "programs", "pending"}
        BY <2>3
      <4>3. Work(m, e, fn, args) = (k - 1) * step[m] + rest[m]
        BY <3>2, <3>4, <3>7, <4>1, <4>2 DEF turns
      <4>4. \A a : Len(a) = 1 /\ a[1] \in Int => Work(m, e, "round_try", a) = step[m]
        BY <3>5, <4>1, <4>2
      <4>5. step[m] \in Int /\ rest[m] \in Int /\ (m = "pending" => step[m] = 0 /\ rest[m] = 0)
        BY <4>1
      <4> QED
        BY <3>6, <3>7, <4>1, <4>3, <4>4, <4>5 DEF LoopWork
    <3> HIDE DEF step, rest
    <3> QED
      BY <2>3, <2>5, <3>7, <3>8, <3>9, LoopKeeps DEF body
  <2>15. CASE fn = "ladder_root_try"
    <3> DEFINE a == << 16, seed + 5 >>
               k == 2
               step == [m \in AllAccounts |-> IF m = "guards" THEN 17 ELSE 0]
               rest == [m \in AllAccounts |-> IF m = "programs" THEN 1 ELSE 0]
    <3>1. body = << Call("ExtRecursor", a) >> \o Finished
      BY <2>4, <2>15 DEF ExtBody, LadderRoot, ExtEntry
    <3>2. a[1] = 16
      OBVIOUS
    <3> HIDE DEF a, body
    <3>3. "none" \in Enters(e, "ExtRecursor", a) /\ Leaks(e, "ExtRecursor", a) = {}
      BY <2>3, <3>2 DEF ExtEnters, ExtLeaks, OnlyIf, ExtEntry
    <3>4. /\ Work("guards", e, "ExtRecursor", a) = 17 /\ Work("programs", e, "ExtRecursor", a) = 0
          /\ Work("pending", e, "ExtRecursor", a) = 0
      BY <2>3, <3>2, <3>3 DEF ExtGuards, CompletedPrograms, CfiEntry, ExtEntry
    <3>5. /\ Work("guards", e, fn, args) = 17 /\ Work("programs", e, fn, args) = 1
          /\ Work("pending", e, fn, args) = 0
      BY <2>3, <2>15 DEF ExtGuards, CompletedPrograms, ExtEnters, CfiEntry, ExtEntry
    <3>6. /\ Len(body) = 2 /\ body[1].op = "call" /\ body[1].fn = "ExtRecursor" /\ body[1].args = a
          /\ body[2].op = "count" /\ body[2].event = "programs"
      BY <3>1 DEF Call, Finished, Count
    <3>7. /\ k \in Nat /\ k # 0 /\ k - 1 = 1 /\ Len(body) = k /\ Len(body) # k - 1
          /\ \A j \in 1 .. k - 1 : j = 1
      BY <3>6
    <3>8. IsLoop(e, body, k)
      BY <3>3, <3>6, <3>7 DEF IsLoop, Quiet
    <3>9. ASSUME NEW m \in Accounts(e)
          PROVE  LoopWork(m, e, body, k, Work(m, e, fn, args), step[m], rest[m])
      <4>1. /\ step[m] = (IF m = "guards" THEN 17 ELSE 0)
            /\ rest[m] = (IF m = "programs" THEN 1 ELSE 0)
        BY <2>5
      <4> HIDE DEF step, rest
      <4>2. m \in {"guards", "programs", "pending"}
        BY <2>3
      <4>3. /\ Work(m, e, "ExtRecursor", a) = step[m]
            /\ Work(m, e, fn, args) = (k - 1) * step[m] + rest[m]
        BY <3>4, <3>5, <3>7, <4>1, <4>2
      <4>4. /\ step[m] \in Int /\ rest[m] \in Int /\ (m = "pending" => step[m] = 0 /\ rest[m] = 0)
            /\ rest[m] = CountCost(m, "programs")
        BY <4>1, <4>2 DEF CountCost
      <4> QED
        BY <3>6, <3>7, <4>3, <4>4 DEF LoopWork
    <3> HIDE DEF k, step, rest
    <3> QED
      BY <2>3, <2>5, <3>7, <3>8, <3>9, LoopKeeps DEF body
  <2>16. CASE fn = "program16"
    <3>1. PICK c : IsStates(body, c)
      <4>1. seed \in Int
        BY <2>1, <2>16 DEF ExtEnters, ExtEntry, OnlyIf
      <4>2. body = StateMachineSwitch(seed)
        BY <2>4, <2>16 DEF ExtBody, ExtEntry
      <4> QED
        BY <4>1, <4>2, SwitchStarts
    <3> DEFINE n == c + 2
    <3>2. \A a : /\ "none" \in Enters(e, "switch_try", a) /\ Leaks(e, "switch_try", a) = {}
                 /\ \A m \in Accounts(e) : Work(m, e, "switch_try", a) = 0
      BY <2>3 DEF ExtEnters, ExtLeaks, ExtGuards, CompletedPrograms, CfiEntry, ExtEntry
    <3>3. \A j \in 2 .. n - 1 :
            \/ body[j].op = "capture"
            \/ Quiet(e, body[j]) /\ \A m \in Accounts(e) : Work(m, e, body[j].fn, body[j].args) = 0
      <4> HIDE DEF body
      <4>1. \A j \in 2 .. n - 1 : j \in 2 .. c + 1
        BY <3>1 DEF IsStates
      <4> QED
        BY <3>1, <3>2, <4>1 DEF IsStates, Quiet
    <3>4. IsSwitch(e, body, n)
      <4>1. n \in Nat /\ n > 1
        BY <3>1 DEF IsStates
      <4> QED
        BY <3>1, <3>3, <4>1 DEF IsStates, IsSwitch, Guard
    <3>5. \A m \in Accounts(e) : Work(m, e, fn, args) = IF m \in {"guards", "programs"} THEN 1 ELSE 0
      BY <2>1, <2>3, <2>16 DEF ExtGuards, CompletedPrograms, ExtEnters, OnlyIf, CfiEntry, ExtEntry
    <3> HIDE DEF n, body
    <3> QED
      BY <2>3, <3>4, <3>5, SwitchKeeps DEF body
  <2>17. CASE fn = "scope_inner"
    <3> DEFINE due == [j \in Int |-> IF j <= 1 THEN 2 ELSE IF j <= 3 THEN 1 ELSE 0]
               c == (seed + id) % 16 = 5
               code == seed + id + 3400
               s == Call("nested", << seed >>)
    <3>1. body = << Guard, Capture, s >> \o (IF c THEN Raise("MajorExtError", code) ELSE << >>)
      BY <2>4, <2>17 DEF ExtBody, ExtEntry, ScopeInner
    <3>2. Raises(e, fn, args) = {"MajorExtError"}
      BY <2>3, <2>17 DEF ExtRaises
    <3>3. s.op = "call" /\ s.fn = "nested"
      BY DEF Call
    <3> HIDE DEF c, code, due, s
    <3>4. /\ IsEnding(body, 4, Raises(e, fn, args))
          /\ body[1] = Guard /\ body[2] = Capture /\ body[3] = s
      BY <3>1, <3>2 DEF IsEnding, Raise, Capture
    <3>5. \A j \in Int : due[j] = IF j <= 1 THEN 2 ELSE IF j <= 3 THEN 1 ELSE 0
      BY DEF due
    <3>6. ASSUME NEW j \in 1 .. 4 - 1 PROVE Part(e, fn, args, body[j], due[j], due[j + 1])
      <4>1. Part(e, fn, args, Guard, 2, 1) /\ Part(e, fn, args, Capture, 1, 1)
        BY DEF Part, Guard, Capture
      <4>2. Part(e, fn, args, s, 1, 0)
        <5>1. /\ "none" \in Enters(e, s.fn, s.args) /\ Leaks(e, s.fn, s.args) = {}
              /\ \A m \in Accounts(e) : Work(m, e, s.fn, s.args) = IF m = "guards" THEN 1 ELSE 0
          BY <2>3, <3>3 DEF ExtEnters, ExtLeaks, ExtGuards, CompletedPrograms, CfiEntry, ExtEntry
        <5> QED
          BY <3>3, <5>1 DEF Part
      <4>3. \/ j = 1 /\ due[j] = 2 /\ due[j + 1] = 1
            \/ j = 2 /\ due[j] = 1 /\ due[j + 1] = 1
            \/ j = 3 /\ due[j] = 1 /\ due[j + 1] = 0
        BY <3>5
      <4> QED
        BY <3>4, <4>1, <4>2, <4>3
    <3>7. (\A j \in Int : due[j] \in Int) /\ due[4] = 0 /\ due[1] = 2
      BY <3>5
    <3>8. \A m \in Accounts(e) : Work(m, e, fn, args) = IF m = "guards" THEN due[1] ELSE 0
      BY <2>3, <2>17, <3>7 DEF ExtGuards, CompletedPrograms, ExtEnters, CfiEntry, ExtEntry
    <3>9. Prelude(e, fn, args, body, 4, due)
      BY <3>4, <3>6, <3>7, <3>8 DEF Prelude
    <3> QED
      BY <2>3, <2>5, <3>9, PreludeKeeps
  <2>18. CASE fn = "switch_try"
    <3> DEFINE due == [j \in Int |-> 0]
               c == seed % 31 = 3
               code == seed + 4060
    <3>1. body = IF c THEN Raise("MinorExtError", code) ELSE << Capture >>
      BY <2>4, <2>18 DEF ExtBody, ExtEntry, SwitchTry
    <3>2. Raises(e, fn, args) = {"MinorExtError"}
      BY <2>3, <2>18 DEF ExtRaises
    <3> HIDE DEF c, code, due
    <3>3. IsEnding(body, 1, Raises(e, fn, args))
      BY <3>1, <3>2 DEF IsEnding, Raise, Capture
    <3>4. \A j \in Int : due[j] = 0
      BY DEF due
    <3>5. \A j \in 1 .. 1 - 1 : Part(e, fn, args, body[j], due[j], due[j + 1])
      OBVIOUS
    <3>6. \A m \in Accounts(e) : Work(m, e, fn, args) = IF m = "guards" THEN due[1] ELSE 0
      BY <2>3, <2>18, <3>4 DEF ExtGuards, CompletedPrograms, ExtEnters, CfiEntry, ExtEntry
    <3>7. Prelude(e, fn, args, body, 1, due)
      BY <3>3, <3>4, <3>5, <3>6 DEF Prelude
    <3> QED
      BY <2>3, <2>5, <3>7, PreludeKeeps
  <2> QED
    BY <2>2, <2>6, <2>7, <2>8, <2>9, <2>10, <2>11, <2>12, <2>13, <2>14, <2>15, <2>16, <2>17, <2>18
<1> QED
  BY <1>1, <1>2 DEF Orderly

\* No clause of the extended suite throws or captures outside destructors more than once.
LEMMA ExtFree ==
  ASSUME NEW e, e = ExtEntry, \A fn, type : Catches(e, fn, type) = ExtCatches(fn, type),
         NEW m \in SeedAccounts(e), NEW fn, NEW args
  PROVE  Free(m, e, fn, args)
<1> DEFINE clauses == ExtClauses \cup {"ladder_root_catch", "round_catch"}
<1>1. m \in {"throws", "walks"} /\ Fare(m) = 0
  BY DEF SeedAccounts, Fare, BasicEntry, CfiEntry, ExtEntry
<1>2. ASSUME NEW clause \in clauses
      PROVE  Work(m, e, clause, args) = 0
  <2>1. clause \notin Rounds(e) \cup Swept \cup Walked
    BY DEF Rounds, Swept, Walked, ExtClauses, ExtEntry
  <2>2. ~CfiHits(clause, args) /\ ~ExtHits(clause, args)
    BY DEF ExtClauses, CfiHits, ExtHits
  <2> QED
    BY <2>1, <2>2, SeedNone
<1>3. \A t : ExtCatches(fn, t) \in clauses \cup {"none"}
  BY DEF ExtCatches, ExtClauses
<1> QED
  BY <1>1, <1>2, <1>3 DEF Free, Settled

\* The amounts of the programs of the extended suite, and of a round, are numbers.
LEMMA ExtAmounts ==
  ASSUME NEW e, e = ExtEntry, NEW m \in Seeded, NEW args
  PROVE  /\ \A fn \in ExtRuns \cup {"program16", "program17"} :
              \A a : ProgramAmount(m, e, fn, a) \in Int
         /\ RoundAmount(m, e, args) \in Int
<1>1. \A fn, a, exc : SuiteBody(e, fn, a, exc) = ExtBody(fn, a, exc)
  BY DEF SuiteBody, BasicEntry, CfiEntry, DeepEntry, ExtEntry, PluginEntry, StressEntry
<1>2. ASSUME NEW fn \in ExtRuns \cup {"program16", "program17"}, NEW a
      PROVE  ProgramAmount(m, e, fn, a) \in Int
  <2>1. CASE fn \in ExtRuns
    <3>1. IsRun(SuiteBody(e, fn, a, NoException), ExtTurn(fn), ExtTurns(fn))
      BY <1>1, <2>1, ExtSweeps
    <3> QED
      BY <3>1, SweepTyped
  <2>2. CASE fn \in {"program16", "program17"}
    <3>1. ProgramAmount(m, e, fn, a) = CaseAmount(m, fn, a)
      BY <2>2 DEF ProgramAmount, Swept
    <3> QED
      BY <3>1, AmountTyped
  <2> QED
    BY <2>1, <2>2
<1>3. RoundAmount(m, e, args) \in Int
  <2> DEFINE body == SuiteBody(e, "runAllPrograms", args, NoException)
             n == Len(body)
             f == [k \in 1 .. n |-> ProgramAmount(m, e, body[k].fn, body[k].args)]
  <2>1. body = RunAllExtPrograms(args[Len(args)])
    BY <1>1 DEF ExtBody, ExtEntry
  <2> HIDE DEF body
  <2>2. n = 10 /\ \A k \in 1 .. n : body[k].fn = ExtPrograms[k]
    BY <2>1 DEF RunAllExtPrograms, Call
  <2>3. \A k \in 1 .. 10 : ExtPrograms[k] \in ExtRuns \cup {"program16", "program17"}
    BY DEF ExtPrograms, ExtRuns
  <2>4. n \in Nat
    BY <2>2
  <2>5. RoundAmount(m, e, args) = Total(f, n)
    BY DEF RoundAmount, body
  <2>6. \A k \in 1 .. n : ProgramAmount(m, e, body[k].fn, body[k].args) \in Int
    BY <1>2, <2>2, <2>3
  <2> HIDE DEF n
  <2>7. \A k \in 1 .. n : f[k] \in Int
    BY <2>6
  <2> HIDE DEF f
  <2> QED
    BY <2>4, <2>5, <2>7, TotalStep
<1> QED
  BY <1>2, <1>3

\* The scopes of the extended suite that its seeds decide nothing of.
ExtNull == ExtClauses \cup
  {"nested", "scope_inner", "scope_mid", "scopeCase", "scope_try", "switch_try", "program16",
   "program17", "ladder_root_try", "ExtRecursor", "ladder_try", "epilogue_try", "epilogueCase",
   "epilogue_root_try"}

\* They call each other only.
Inner(s) ==
  \/ s.op \in {"guard", "capture", "count", "throw", "rethrow"}
  \/ s.op \in {"call", "try"} /\ s.fn \in ExtNull

\* They call each other only.
LEMMA ExtInner ==
  ASSUME NEW fn \in ExtNull, NEW args, NEW exc, exc.type \in ExtEnters(fn, args)
  PROVE  \A j \in 1 .. Len(ExtBody(fn, args, exc)) : Inner(ExtBody(fn, args, exc)[j])
<1> DEFINE body == ExtBody(fn, args, exc)
           id == args[1]
           seed == args[Len(args)]
<1> SUFFICES \A j \in 1 .. Len(body) : Inner(body[j])
  OBVIOUS
<1> HIDE DEF body
<1>1. Inner(Guard) /\ Inner(Capture) /\ \A event : Inner(Count(event))
  BY DEF Inner, Guard, Capture, Count
<1>2. \A g \in ExtNull : \A a : Inner(Call(g, a)) /\ Inner(Try(g, a))
  BY DEF Inner, Call, Try
<1>3. \A t, code : \A j \in 1 .. 2 : Len(Raise(t, code)) = 2 /\ Inner(Raise(t, code)[j])
  BY DEF Inner, Raise, Count
<1>4. Len(Reraise) = 2 /\ \A j \in 1 .. 2 : Inner(Reraise[j])
  BY DEF Inner, Reraise, Count
<1>5. Caught = << Count("caught"), Capture >>
  BY DEF Caught
<1> HIDE DEF Inner
<1>6. CASE fn \in ExtClauses
  <2>1. ASSUME NEW c, body = Caught \o (IF c THEN Reraise ELSE << >>)
        PROVE  \A j \in 1 .. Len(body) : Inner(body[j])
    <3>1. CASE c
      BY <1>1, <2>1, <3>1 DEF Caught, Reraise, Inner
    <3>2. CASE ~c
      BY <1>1, <2>1, <3>2 DEF Caught
    <3> QED
      BY <3>1, <3>2
  <2>2. CASE fn = "ladder_catch"
    <3>1. body = Caught \o (IF id % 4 = 0 THEN Reraise ELSE << >>)
      BY <2>2 DEF body, ExtBody, LadderCatch, ExtEntry
    <3> QED
      BY <2>1, <3>1
  <2>3. CASE fn = "epilogue_catch"
    <3>1. body = Caught \o (IF (exc.code + id) % 8 = 1 THEN Reraise ELSE << >>)
      BY <2>3 DEF body, ExtBody, EpilogueCatch, ExtEntry
    <3> QED
      BY <2>1, <3>1
  <2>4. CASE fn \in ExtClauses \ {"ladder_catch", "epilogue_catch"}
    <3>1. body = Caught
      BY <2>4 DEF body, ExtBody, ExtClauses, ExtEntry
    <3> QED
      BY <1>1, <3>1 DEF Caught
  <2> QED
    BY <1>6, <2>2, <2>3, <2>4
<1>7. CASE fn = "program16"
  <2>1. seed \in Int
    BY <1>7 DEF ExtEnters, ExtEntry, OnlyIf
  <2>2. PICK c : IsStates(body, c)
    BY <1>7, <2>1, SwitchStarts DEF body, ExtBody, ExtEntry
  <2>3. \A j \in 1 .. Len(body) : j = 1 \/ j = c + 2 \/ j \in 2 .. c + 1
    BY <2>2 DEF IsStates
  <2>4. \A j \in 2 .. c + 1 : Inner(body[j])
    BY <2>2 DEF IsStates, Inner, ExtNull
  <2> QED
    BY <1>1, <2>2, <2>3, <2>4 DEF IsStates
<1>8. ASSUME NEW s, Inner(s),
             body \in {<< s >>, << Guard, s, Capture >>, << Guard, Capture >> \o << s >>, << s >> \o Finished}
      PROVE  \A j \in 1 .. Len(body) : Inner(body[j])
  <2>1. CASE body = << s >>
    BY <1>8, <2>1
  <2>2. CASE body = << Guard, s, Capture >>
    BY <1>1, <1>8, <2>2
  <2>3. CASE body = << Guard, Capture >> \o << s >>
    BY <1>1, <1>8, <2>3
  <2>4. CASE body = << s >> \o Finished
    BY <1>1, <1>8, <2>4 DEF Finished
  <2> QED
    BY <1>8, <2>1, <2>2, <2>3, <2>4
<1>9. CASE fn \in {"scope_try", "scopeCase", "scope_mid", "epilogue_root_try", "epilogueCase",
                   "program17", "ladder_root_try", "ladder_try"}
  <2>1. \E g \in ExtNull : \E a : \E s \in {Call(g, a), Try(g, a)} :
          body \in {<< s >>, << Guard, s, Capture >>, << s >> \o Finished}
    <3>1. CASE fn = "scope_try"
      BY <3>1 DEF body, ExtBody, ExtEntry, ExtNull
    <3>2. CASE fn = "scopeCase"
      BY <3>2 DEF body, ExtBody, ExtEntry, ExtNull, ScopeCase
    <3>3. CASE fn = "scope_mid"
      BY <3>3 DEF body, ExtBody, ExtEntry, ExtNull, ScopeMid
    <3>4. CASE fn = "epilogue_root_try"
      BY <3>4 DEF body, ExtBody, ExtEntry, ExtNull
    <3>5. CASE fn = "epilogueCase"
      BY <3>5 DEF body, ExtBody, ExtEntry, ExtNull, EpilogueCase
    <3>6. CASE fn = "program17"
      BY <3>6 DEF body, ExtBody, ExtEntry, ExtNull
    <3>7. CASE fn = "ladder_root_try"
      BY <3>7 DEF body, ExtBody, ExtEntry, ExtNull, LadderRoot
    <3>8. CASE fn = "ladder_try"
      BY <3>8 DEF body, ExtBody, ExtEntry, ExtNull
    <3> QED
      BY <1>9, <3>1, <3>2, <3>3, <3>4, <3>5, <3>6, <3>7, <3>8
  <2> QED
    BY <1>2, <1>8, <2>1
<1>10. ASSUME NEW c, NEW type, NEW code, NEW s, Inner(s), NEW head, NEW rest,
              body = head \o (IF c THEN Raise(type, code) ELSE rest),
              \/ head = << Guard, Capture >> /\ rest \in {<< >>, << Capture >>, << s >>}
              \/ head = << Guard, Capture, s >> /\ rest = << >>
       PROVE  \A j \in 1 .. Len(body) : Inner(body[j])
  <2> DEFINE throw == [op |-> "throw", exc |-> [type |-> type, code |-> code]]
             count == Count("thrown")
  <2>1. Raise(type, code) = << count, throw >> /\ Inner(count) /\ Inner(throw)
    BY <1>1 DEF Raise, Inner
  <2> HIDE DEF throw, count
  <2>2. CASE c
    <3>1. body = head \o << count, throw >>
      BY <1>10, <2>1, <2>2
    <3>2. CASE head = << Guard, Capture >>
      BY <1>1, <2>1, <3>1, <3>2
    <3>3. CASE head = << Guard, Capture, s >>
      BY <1>1, <1>10, <2>1, <3>1, <3>3
    <3> QED
      BY <1>10, <3>2, <3>3
  <2>3. CASE ~c
    BY <1>1, <1>10, <2>3
  <2> QED
    BY <2>2, <2>3
<1>11. CASE fn \in {"nested", "scope_inner", "epilogue_try", "ExtRecursor"}
  <2>1. CASE fn = "nested"
    <3>1. body = << Guard, Capture >>
      BY <2>1 DEF body, ExtBody, ExtEntry
    <3> QED
      BY <1>1, <3>1
  <2>2. CASE fn = "scope_inner"
    <3> DEFINE c == (seed + id) % 16 = 5
               code == seed + id + 3400
               s == Call("nested", << seed >>)
               head == << Guard, Capture, s >>
               rest == << >>
    <3>1. body = head \o (IF c THEN Raise("MajorExtError", code) ELSE rest)
      BY <2>2 DEF body, ExtBody, ScopeInner, ExtEntry
    <3>2. Inner(s)
      BY <1>2 DEF ExtNull
    <3> HIDE DEF c, code, s
    <3>3. head = << Guard, Capture, s >> /\ rest = << >>
      OBVIOUS
    <3> HIDE DEF head, rest
    <3>4. \A j \in 1 .. Len(body) : Inner(body[j])
      BY <1>10, <3>1, <3>2, <3>3
    <3> QED
      BY <3>4
  <2>3. CASE fn = "epilogue_try"
    <3> DEFINE c == (seed + id) % 16 = 9
               code == seed + id + 4600
               head == << Guard, Capture >>
               rest == << Capture >>
    <3>1. body = head \o (IF c THEN Raise("MajorExtError", code) ELSE rest)
      BY <2>3 DEF body, ExtBody, EpilogueTry, ExtEntry
    <3> HIDE DEF c, code
    <3>2. head = << Guard, Capture >> /\ rest \in {<< >>, << Capture >>, << Guard >>}
      OBVIOUS
    <3> HIDE DEF head, rest
    <3>3. \A j \in 1 .. Len(body) : Inner(body[j])
      BY <1>1, <1>10, <3>1, <3>2
    <3> QED
      BY <3>3
  <2>4. CASE fn = "ExtRecursor"
    <3> DEFINE c == ~(id > 0) /\ seed % 8 = 2
               code == seed + 4100
               s == Try("ladder_try", << id, seed >>)
               head == << Guard, Capture >>
               rest == IF id > 0 THEN << s >> ELSE << >>
    <3>1. body = head \o (IF c THEN Raise("MinorExtError", code) ELSE rest)
      BY <2>4 DEF body, ExtBody, ExtRecursor, ExtEntry
    <3>2. Inner(s)
      BY <1>2 DEF ExtNull
    <3> HIDE DEF c, code, s
    <3>3. head = << Guard, Capture >> /\ rest \in {<< >>, << Capture >>, << s >>}
      OBVIOUS
    <3> HIDE DEF head, rest
    <3>4. \A j \in 1 .. Len(body) : Inner(body[j])
      BY <1>10, <3>1, <3>2, <3>3
    <3> QED
      BY <3>4
  <2> QED
    BY <1>11, <2>1, <2>2, <2>3, <2>4
<1>12. CASE fn = "switch_try"
  <2> DEFINE code == seed + 4060
  <2>1. body = Raise("MinorExtError", code) \/ body = << Capture >>
    BY <1>12 DEF body, ExtBody, SwitchTry, ExtEntry
  <2> HIDE DEF code
  <2>2. CASE body = << Capture >>
    BY <1>1, <2>2
  <2>3. CASE body = Raise("MinorExtError", code)
    BY <2>3 DEF Raise, Inner, Count
  <2> QED
    BY <2>1, <2>2, <2>3
<1> QED
  BY <1>6, <1>7, <1>9, <1>11, <1>12 DEF ExtNull

\* Only a clause looks at its exception.
LEMMA ExtUncaught ==
  ASSUME NEW fn, fn # "epilogue_catch", NEW args, NEW exc
  PROVE  ExtBody(fn, args, exc) = ExtBody(fn, args, NoException)
  BY DEF ExtBody

\* The extended suite keeps the contracts that its seeds decide.
LEMMA ExtSeeds ==
  ASSUME NEW e, e = ExtEntry,
         \A fn, args, exc : Body(e, fn, args, exc) = ExtBody(fn, args, exc),
         \A fn, type : Catches(e, fn, type) = ExtCatches(fn, type),
         NEW fn \in STRING, NEW args \in Seq(Int), NEW exc \in MaybeException,
         exc.type \in Enters(e, fn, args), NEW m \in SeedAccounts(e)
  PROVE  \E plan : IsPlan(m, e, fn, args, exc, plan)
<1> DEFINE body == Body(e, fn, args, exc)
           seed == args[Len(args)]
           tries == {"wide_try", "member_try", "tuple_try", "deque_try", "heap_try", "callback_try"}
           idle == {"program13", "program20"}
<1>1. Keeps(e, fn, args, exc) /\ Free(m, e, fn, args)
  BY ExtOrderly, ExtFree DEF Orderly
<1>2. exc.type \in ExtEnters(fn, args)
  BY ExtTables
<1>3. fn \in ExtNull \cup tries \cup ExtPlain \cup (ExtRuns \ idle) \cup idle \cup
             {"round_try", "runAllPrograms", ExtEntry}
  BY <1>2 DEF ExtEnters, ExtNull, ExtPlain, ExtRuns, ExtClauses
<1>4. /\ m \in {"throws", "walks"} /\ m \in Seeded
      /\ e \notin {"round_try", "runAllPrograms"}
      /\ Rounds(e) = {ExtEntry, "round_try", "runAllPrograms"}
  BY DEF SeedAccounts, Seeded, Rounds, BasicEntry, CfiEntry, ExtEntry
<1>5. body = ExtBody(fn, args, exc)
  OBVIOUS
<1>6. \A g, a : Leaks(e, g, a) = ExtLeaks(g, a)
  BY ExtTables
<1>7. fn # "epilogue_catch" => body = SuiteBody(e, fn, args, NoException)
  BY <1>5, ExtUncaught DEF SuiteBody, BasicEntry, CfiEntry, DeepEntry, ExtEntry, PluginEntry,
     StressEntry
<1>8. /\ \A a : RoundAmount(m, e, a) \in Int
      /\ \A g \in ExtRuns \cup {"program16", "program17"} : \A a : ProgramAmount(m, e, g, a) \in Int
  BY <1>4, ExtAmounts
<1>9. \A a : Work(m, e, "round_try", a) = RoundAmount(m, e, a)
             /\ Work(m, e, "runAllPrograms", a) = RoundAmount(m, e, a)
  BY <1>4, SeedWorks
<1>10. \A g \in ExtNull \cup idle : \A a : Work(m, e, g, a) = 0
  <2>1. \A g \in ExtNull \cup idle : g \notin Rounds(e) \cup Swept \cup Walked
    BY <1>4 DEF ExtNull, ExtClauses, Swept, Walked, ExtEntry
  <2>2. \A g \in ExtNull \cup idle : \A a : ~CfiHits(g, a)
    BY DEF ExtNull, ExtClauses, CfiHits
  <2>3. \A g \in ExtNull \cup idle : \A a : ~ExtHits(g, a)
    BY DEF ExtNull, ExtClauses, ExtHits
  <2> QED
    BY <2>1, <2>2, <2>3, SeedNone
<1> HIDE DEF body
<1>11. CASE fn \in ExtNull
  <2>1. \A j \in 1 .. Len(body) : Inner(body[j])
    BY <1>2, <1>5, <1>11, ExtInner
  <2>2. \A j \in 1 .. Len(body) : Barren(m, e, body[j])
    BY <1>4, <1>10, <2>1 DEF Inner, Barren
  <2> QED
    BY <1>1, <1>4, <1>10, <1>11, <2>2, SeedBarren DEF body
<1>12. CASE fn \in tries
  <2> DEFINE g == ExtCallee(fn)
             first == 0
  <2>1. Wraps(body, g, args, first)
    <3>1. body = << Call(g, args) >>
      BY <1>5, <1>12 DEF ExtBody, ExtCallee, ExtEntry
    <3> HIDE DEF g
    <3> QED
      BY <3>1, WrapShapes
  <2>2. Work(m, e, g, args) = Work(m, e, fn, args) /\ Work(m, e, fn, args) \in Int
    <3>1. fn \notin Rounds(e) \cup Swept /\ g \notin Rounds(e) \cup Swept
      BY <1>4, <1>12 DEF ExtCallee, Swept, ExtEntry
    <3>2. (g \in Walked) = (fn \in Walked)
      BY <1>12 DEF ExtCallee, Walked
    <3>3. CfiHits(g, args) = CfiHits(fn, args)
      BY <1>12 DEF ExtCallee, CfiHits
    <3>4. ExtHits(g, args) = ExtHits(fn, args)
      BY <1>12 DEF ExtCallee, ExtHits
    <3> QED
      BY <3>1, <3>2, <3>3, <3>4, SeedSame
  <2> HIDE DEF g, first
  <2> QED
    BY <1>1, <1>4, <2>1, <2>2, SeedWrap DEF body
<1>13. CASE fn \in ExtPlain
  <2>1. PICK type \in ExtRaises(fn, args) : Throws(body, ExtHits(fn, args), type)
    BY <1>5, <1>13, ExtCaseBody
  <2>2. Work(m, e, fn, args) \in Worth(m, ExtHits(fn, args))
    <3>1. fn \notin Rounds(e) \cup Swept
      BY <1>4, <1>13 DEF ExtPlain, Swept, ExtEntry
    <3> QED
      BY <1>4, <3>1, SeedWorth
  <2> QED
    BY <1>1, <1>4, <2>1, <2>2, SeedCase DEF Throws, body
<1>14. CASE fn \in ExtRuns \ idle
  <2>1. IsRun(body, ExtTurn(fn), ExtTurns(fn))
    BY <1>5, <1>14, ExtSweeps
  <2>2. fn \in Swept \ Rounds(e) /\ ExtTurn(fn) \notin Swept \cup Rounds(e)
    BY <1>4, <1>14 DEF ExtRuns, ExtTurn, Swept, ExtEntry
  <2>3. \A a : Leaks(e, ExtTurn(fn), a) = {}
    BY <1>6, <1>14 DEF ExtRuns, ExtTurn, ExtLeaks
  <2>4. body = SuiteBody(e, fn, args, NoException)
    BY <1>7, <1>14 DEF ExtRuns
  <2> QED
    BY <1>1, <2>1, <2>2, <2>3, <2>4, SeedSweep DEF body
<1>15. CASE fn \in idle
  <2>1. IsRun(body, ExtTurn(fn), ExtTurns(fn))
    BY <1>5, <1>15, ExtSweeps DEF ExtRuns
  <2>2. ExtTurn(fn) \in ExtNull
    BY <1>15 DEF ExtTurn, ExtNull
  <2> QED
    BY <1>1, <1>4, <1>10, <1>15, <2>1, <2>2, SeedIdle DEF body
<1>16. CASE fn = "round_try"
  <2> DEFINE first == 0
  <2>1. Wraps(body, "runAllPrograms", args, first)
    <3>1. body = << Call("runAllPrograms", args) >>
      BY <1>5, <1>16 DEF ExtBody, ExtEntry
    <3> QED
      BY <3>1, WrapShapes
  <2> HIDE DEF first
  <2> QED
    BY <1>1, <1>4, <1>8, <1>9, <1>16, <2>1, SeedWrap DEF body
<1>17. CASE fn = "runAllPrograms"
  <2>1. body = RunAllExtPrograms(seed) /\ body = SuiteBody(e, fn, args, NoException)
    BY <1>5, <1>7, <1>17 DEF ExtBody, ExtEntry
  <2>2. Len(body) = 10 /\ \A j \in 1 .. 10 : body[j].op = "call" /\ body[j].fn = ExtPrograms[j]
    BY <2>1 DEF RunAllExtPrograms, Call
  <2>3. \A j \in 1 .. 10 : ExtPrograms[j] \in ExtRuns \cup {"program16", "program17"}
    BY DEF ExtPrograms, ExtRuns
  <2>4. \A g \in ExtRuns \cup {"program16", "program17"} : \A a :
          g \notin Rounds(e) /\ Leaks(e, g, a) = {}
    BY <1>4, <1>6 DEF ExtRuns, ExtLeaks, ExtEntry
  <2>5. \A j \in 1 .. Len(body) : IsProgram(m, e, body[j])
    BY <1>8, <2>2, <2>3, <2>4 DEF IsProgram
  <2> QED
    BY <1>1, <1>4, <1>17, <2>1, <2>5, SeedRound DEF body
<1>18. CASE fn = ExtEntry
  <2>1. seed \in Nat
    <3>1. Counted(args)
      BY <1>2, <1>18 DEF ExtEnters, ExtEntry, OnlyIf
    <3> QED
      BY <3>1 DEF Counted
  <2>2. body = ExtRounds(seed) /\ body = SuiteBody(e, fn, args, NoException)
    BY <1>5, <1>7, <1>18 DEF ExtBody, ExtEntry
  <2> HIDE DEF seed
  <2>3. \A j \in 1 .. Len(body) : body[j].op = "try" /\ body[j].fn = "round_try"
    BY <2>1, <2>2 DEF ExtRounds, Try
  <2>4. \A a : Leaks(e, "round_try", a) = {}
    BY <1>6 DEF ExtLeaks
  <2>5. \A j \in 1 .. Len(body) : IsRoundTry(m, e, body[j])
    BY <1>8, <2>3, <2>4 DEF IsRoundTry
  <2> QED
    BY <1>1, <1>4, <1>18, <2>2, <2>5, SeedEntry DEF body
<1> QED
  BY <1>3, <1>11, <1>12, <1>13, <1>14, <1>15, <1>16, <1>17, <1>18

-----------------------------------------------------------------------------

(* ----------------------------- StressSuite ----------------------------- *)

\* The scopes that do not let every exception pass.
StressTrying == {"vector_try", "matrix_try", "pointer_try", "long_try", "worker_try", "entry_try",
                 "threadWorker"}
StressClauses == {"vector_catch", "matrix_catch", "virtual_catch", "pointer_catch", "error_catch"}

\* What leaves a scope of the stress suite.
StressLeaks(fn) ==
  CASE fn \in {"vectorCase", "matrix_try", "matrix_catch", "runVirtualMatrix"} -> {"VectorError"}
    [] fn = "pointerCase" -> {"PointerError"}
    [] fn = "act"         -> {"VectorError", "VirtualError"}
    [] OTHER              -> {}

\* The tables of the stress suite.
LEMMA StressTables ==
  ASSUME NEW e, e = StressEntry, \A fn, type : Catches(e, fn, type) = StressCatches(fn, type)
  PROVE  /\ Accounts(e) = {"uncaught", "overcaught"}
         /\ \A fn, args : /\ Enters(e, fn, args) = StressEnters(fn, args)
                          /\ Raises(e, fn, args) = StressRaises(fn, args)
                          /\ \A m \in Accounts(e) :
                               Work(m, e, fn, args) =
                                 IF "none" \in StressEnters(fn, args) THEN 0 ELSE Fare(m)
                          /\ Leaks(e, fn, args) = StressLeaks(fn)
                          /\ ClausesKept(e, fn, args)
                          /\ \A m \in Accounts(e) : Evenly(m, e, fn, args)
         /\ \A fn : fn \notin StressTrying => Plain(e, fn)
<1>1. Accounts(e) = {"uncaught", "overcaught"}
  BY DEF Accounts, PluginEntry, BasicEntry, CfiEntry, ExtEntry, DeepEntry, StressEntry
<1>2. \A fn, args : /\ Enters(e, fn, args) = StressEnters(fn, args)
                    /\ Raises(e, fn, args) = StressRaises(fn, args)
  BY DEF Enters, Raises, PluginEntry, BasicEntry, CfiEntry, ExtEntry, DeepEntry,
     StressEntry
<1>3. \A fn, args : \A m \in Accounts(e) :
         Work(m, e, fn, args) = IF "none" \in StressEnters(fn, args) THEN 0 ELSE Fare(m)
  BY <1>1, <1>2, SeedsDecide DEF Work
<1>4. \A fn : fn \notin StressTrying => Plain(e, fn)
  BY DEF Plain, StressTrying, StressCatches
<1>5. /\ Catches(e, "vector_try", "VectorError") = "vector_catch"
      /\ Catches(e, "matrix_try", "VectorError") = "matrix_catch"
      /\ Catches(e, "matrix_try", "VirtualError") = "virtual_catch"
      /\ Catches(e, "pointer_try", "PointerError") = "pointer_catch"
      /\ Catches(e, "long_try", "VectorError") = "error_catch"
      /\ Catches(e, "worker_try", "ThreadError") = "error_catch"
  BY DEF StressCatches
<1>6. \A args : /\ Raises(e, "vector_try", args) = {"VectorError"}
                /\ Raises(e, "matrix_try", args) = {"VectorError", "VirtualError"}
                /\ Raises(e, "pointer_try", args) = {"PointerError"}
                /\ Raises(e, "long_try", args) = {"VectorError"}
                /\ Raises(e, "worker_try", args) = {"ThreadError"}
                /\ Raises(e, "entry_try", args) = {} /\ Raises(e, "threadWorker", args) = {}
                /\ Raises(e, "vector_catch", args) = {} /\ Raises(e, "virtual_catch", args) = {}
                /\ Raises(e, "pointer_catch", args) = {} /\ Raises(e, "error_catch", args) = {}
                /\ Raises(e, "matrix_catch", args) = {"VectorError"}
  BY <1>2 DEF StressRaises
<1>7. \A fn, args : fn \notin StressTrying => Raises(e, fn, args) = StressLeaks(fn)
  BY <1>2 DEF StressRaises, StressLeaks, StressTrying
<1>8. ASSUME NEW fn, NEW args
      PROVE  Leaks(e, fn, args) = StressLeaks(fn) /\ ClausesKept(e, fn, args)
  <2>1. CASE fn \notin StressTrying
    BY <1>4, <1>7, <2>1, PlainScope
  <2>2. /\ Enters(e, "vector_catch", args) = {"VectorError"}
        /\ Enters(e, "matrix_catch", args) = {"VectorError"}
        /\ Enters(e, "virtual_catch", args) = {"VirtualError"}
        /\ Enters(e, "pointer_catch", args) = {"PointerError"}
        /\ Enters(e, "error_catch", args) = {"VectorError", "ThreadError"}
    BY <1>2 DEF StressEnters, StressEntry
  <2>3. \A c \in StressClauses : \A t : Catches(e, c, t) = "none"
    BY <1>4 DEF StressTrying, StressClauses, Plain
  <2>4. CASE fn \in StressTrying
    <3>1. StressLeaks(fn) = IF fn = "matrix_try" THEN {"VectorError"} ELSE {}
      BY <2>4 DEF StressLeaks, StressTrying
    <3>2. Leaks(e, fn, args) = IF fn = "matrix_try" THEN {"VectorError"} ELSE {}
      BY <1>5, <1>6, <2>4 DEF Leaks, StressTrying
    <3>3. ClausesKept(e, fn, args)
      BY <1>5, <1>6, <2>2, <2>3, <2>4 DEF ClausesKept, StressClauses, StressTrying
    <3> QED
      BY <3>1, <3>2, <3>3
  <2> QED
    BY <2>1, <2>4
<1>9. ASSUME NEW fn, NEW args, NEW m \in Accounts(e)
      PROVE  Evenly(m, e, fn, args)
  <2>1. \A c \in StressClauses : Work(m, e, c, args) = Fare(m)
    BY <1>3 DEF StressClauses, StressEnters, StressEntry
  <2>2. CASE fn \notin StressTrying
    BY <1>4, <2>2, PlainScope
  <2>3. CASE fn \in StressTrying
    BY <1>5, <1>6, <2>1, <2>3 DEF Evenly, Settled, StressClauses, StressTrying
  <2> QED
    BY <2>2, <2>3
<1> QED
  BY <1>1, <1>2, <1>3, <1>4, <1>8, <1>9

StressLines == {StressEntry, "entry_try", "vector_try", "matrix_try", "pointer_try"}
StressCases == {"vectorCase", "pointerCase"}
StressLoops == {"runVectorTable", "runVirtualMatrix", "runPointerTable", "runTemplateTower",
                "runLongStressBody", "runThreadedStress", "threadWorker"}
StressBlocks == {"act", "TemplateStepper", "long_try", "worker_try"}
StressCallee(fn) ==
  CASE fn = StressEntry   -> "entry_try"
    [] fn = "entry_try"   -> "runLongStressBody"
    [] fn = "vector_try"  -> "vectorCase"
    [] fn = "matrix_try"  -> "act"
    [] fn = "pointer_try" -> "pointerCase"

\* A sweep is n statements on one function.
LEMMA SweepShape ==
  ASSUME NEW op, NEW g, NEW n \in Nat, NEW seed, NEW stride
  PROVE  /\ Len(Sweep(op, g, n, seed, stride)) = n
         /\ \A j \in 1 .. n : /\ Sweep(op, g, n, seed, stride)[j].op = op
                             /\ Sweep(op, g, n, seed, stride)[j].fn = g
BY DEF Sweep

\* A statement that adds nothing: a count that no account knows, or a call or try block.
Idle(e, fn, args, s) ==
  \/ s.op = "count" /\ s.event \notin Counters
  \/ /\ s.op \in {"call", "try"} /\ "none" \in Enters(e, s.fn, s.args)
     /\ Leaks(e, s.fn, s.args) \subseteq Raises(e, fn, args)
     /\ \A m \in Accounts(e) : Work(m, e, s.fn, s.args) = 0

\* A statement that leaves the accounts alone is a part that adds nothing,
LEMMA IdlePart ==
  ASSUME NEW e, NEW fn, NEW args, NEW s, Idle(e, fn, args, s)
  PROVE  Part(e, fn, args, s, 0, 0)
BY DEF Idle, Part

\* and a scope of such statements keeps its contract.
LEMMA IdleKeeps ==
  ASSUME NEW e, NEW fn, NEW args, NEW exc, NEW n \in Nat, Len(Body(e, fn, args, exc)) = n,
         \A j \in 1 .. n : Idle(e, fn, args, Body(e, fn, args, exc)[j]),
         ClausesKept(e, fn, args), \A m \in Accounts(e) : Evenly(m, e, fn, args),
         Accounts(e) \subseteq AllAccounts \ {"traces"},
         \A m \in Accounts(e) : Work(m, e, fn, args) = 0
  PROVE  Keeps(e, fn, args, exc)
<1> DEFINE body == Body(e, fn, args, exc)
           due == [j \in Int |-> 0]
           k == n + 1
<1>1. k \in Nat /\ k # 0 /\ k - 1 = n
  OBVIOUS
<1> HIDE DEF k
<1>2. IsEnding(body, k, Raises(e, fn, args))
  BY <1>1 DEF IsEnding
<1>3. \A j \in Int : due[j] = 0
  OBVIOUS
<1> HIDE DEF due
<1>4. ASSUME NEW j \in 1 .. k - 1 PROVE Part(e, fn, args, body[j], due[j], due[j + 1])
  <2>1. due[j] = 0 /\ due[j + 1] = 0 /\ j \in 1 .. n
    BY <1>1, <1>3
  <2> QED
    BY <2>1, IdlePart
<1>5. Prelude(e, fn, args, body, k, due)
  <2>1. \A m \in Accounts(e) : Work(m, e, fn, args) = IF m = "guards" THEN due[1] ELSE 0
    BY <1>3
  <2> QED
    BY <1>1, <1>2, <1>3, <1>4, <2>1 DEF Prelude
<1> QED
  BY <1>5, PreludeKeeps

\* The stress suite keeps its contracts.
LEMMA StressOrderly ==
  ASSUME NEW e, e = StressEntry,
         \A fn, args, exc : Body(e, fn, args, exc) = StressBody(fn, args, exc),
         \A fn, type : Catches(e, fn, type) = StressCatches(fn, type)
  PROVE  Orderly(e)
<1>1. ASSUME NEW n \in Nat \ {0}
      PROVE  "none" \in Enters(e, e, << n >>) /\ Raises(e, e, << n >>) = {}
  <2>1. Counted(<< n >>)
    BY DEF Counted
  <2> QED
    BY <2>1, StressTables DEF StressEnters, StressRaises, OnlyIf, StressEntry
<1>2. ASSUME NEW fn \in STRING, NEW args \in Seq(Int), NEW exc \in MaybeException,
             exc.type \in Enters(e, fn, args)
      PROVE  Keeps(e, fn, args, exc)
  <2> DEFINE body == Body(e, fn, args, exc)
             id == args[1]
             seed == args[2]
  <2>1. exc.type \in StressEnters(fn, args)
    BY <1>2, StressTables
  <2>2. fn \in StressLines \cup StressCases \cup StressLoops \cup StressBlocks \cup StressClauses
    BY <2>1 DEF StressEnters, StressLines, StressCases, StressLoops, StressBlocks, StressClauses
  <2>3. /\ Accounts(e) = {"uncaught", "overcaught"}
        /\ \A g, a : /\ Enters(e, g, a) = StressEnters(g, a)
                     /\ Raises(e, g, a) = StressRaises(g, a)
                     /\ \A m \in Accounts(e) :
                          Work(m, e, g, a) = IF "none" \in StressEnters(g, a) THEN 0 ELSE Fare(m)
                     /\ Leaks(e, g, a) = StressLeaks(g)
                     /\ ClausesKept(e, g, a)
                     /\ \A m \in Accounts(e) : Evenly(m, e, g, a)
        /\ \A g : g \notin StressTrying => Plain(e, g)
    BY StressTables
  <2>4. body = StressBody(fn, args, exc)
    OBVIOUS
  <2>5. Accounts(e) \subseteq AllAccounts \ {"traces"} /\ Accounts(e) \subseteq AllAccounts
    BY <2>3 DEF AllAccounts
  <2>6. \A g \in {"long_try", "runVectorTable", "vector_try", "vectorCase", "runVirtualMatrix",
                  "matrix_try", "act", "runPointerTable", "pointer_try", "pointerCase",
                  "runTemplateTower", "TemplateStepper", "worker_try"} : \A a :
          "none" \in Enters(e, g, a) /\ \A m \in Accounts(e) : Work(m, e, g, a) = 0
    <3>1. \A g \in {"long_try", "runVectorTable", "vector_try", "vectorCase", "runVirtualMatrix",
                    "matrix_try", "act", "runPointerTable", "pointer_try", "pointerCase",
                    "runTemplateTower", "TemplateStepper", "worker_try"} : \A a :
            "none" \in StressEnters(g, a)
      BY DEF StressEnters, StressEntry
    <3> QED
      BY <2>3, <3>1
  <2>7. \A a : /\ Counted(a) => \A g \in {"entry_try", "runLongStressBody", "runThreadedStress"} :
                    "none" \in Enters(e, g, a) /\ \A m \in Accounts(e) : Work(m, e, g, a) = 0
               /\ a[2] \in Nat =>
                    /\ "none" \in Enters(e, "threadWorker", a)
                    /\ \A m \in Accounts(e) : Work(m, e, "threadWorker", a) = 0
    <3>1. \A a : /\ Counted(a) => \A g \in {"entry_try", "runLongStressBody", "runThreadedStress"} :
                      "none" \in StressEnters(g, a)
                 /\ a[2] \in Nat => "none" \in StressEnters("threadWorker", a)
      BY DEF StressEnters, StressEntry, OnlyIf
    <3> QED
      BY <2>3, <3>1
  <2>8. fn \notin StressClauses =>
          /\ \A m \in Accounts(e) : Work(m, e, fn, args) = 0
          /\ fn \in {StressEntry, "entry_try", "runLongStressBody", "runThreadedStress"} => Counted(args)
          /\ fn = "threadWorker" => args[2] \in Nat
    <3>1. fn \notin StressClauses => "none" \in StressEnters(fn, args)
      BY <2>1 DEF StressEnters, StressClauses, OnlyIf
    <3>2. fn \notin StressClauses =>
            /\ fn \in {StressEntry, "entry_try", "runLongStressBody", "runThreadedStress"} => Counted(args)
            /\ fn = "threadWorker" => args[2] \in Nat
      BY <2>1 DEF StressEnters, StressClauses, OnlyIf, StressEntry
    <3> QED
      BY <2>3, <3>1, <3>2
  <2>9. CASE fn \in StressClauses
    <3>1. \A m \in Accounts(e) : Work(m, e, fn, args) = Fare(m)
      <4>1. "none" \notin StressEnters(fn, args)
        BY <2>9 DEF StressClauses, StressEnters, StressEntry
      <4> QED
        BY <2>3, <4>1
    <3>2. Plain(e, fn)
      BY <2>3, <2>9 DEF StressClauses, StressTrying
    <3>3. CASE fn # "matrix_catch"
      <4>1. body = Caught
        BY <2>4, <2>9, <3>3 DEF StressBody, StressClauses, StressEntry
      <4> QED
        BY <2>5, <3>1, <3>2, <4>1, CatchKeeps
    <3>4. CASE fn = "matrix_catch"
      <4> DEFINE c == exc.code % 2 # 0
      <4>1. body = Caught \o << Count("rethrows") >> \o (IF c THEN << [op |-> "rethrow"] >> ELSE << >>)
        BY <2>4, <3>4 DEF StressBody, MatrixVectorCatch, StressEntry
      <4>2. exc.type \in Raises(e, fn, args)
        BY <2>1, <2>3, <3>4 DEF StressEnters, StressRaises, StressEntry
      <4> HIDE DEF c
      <4>3. CASE c
        <5>1. body = Caught \o (IF TRUE THEN Reraise ELSE << >>)
          BY <4>1, <4>3 DEF Caught, Reraise
        <5> QED
          BY <2>5, <3>1, <3>2, <4>2, <5>1, ReraiseKeeps
      <4>4. CASE ~c
        <5>1. body = Caught \o << Count("rethrows") >>
          BY <4>1, <4>4 DEF Caught
        <5>2. \A m \in Accounts(e) : Covers(m, Work(m, e, fn, args), Fare(m) + CountCost(m, "rethrows"))
          BY <2>3, <3>1 DEF Covers, Fare, CountCost, Exact
        <5> QED
          BY <2>5, <3>2, <5>1, <5>2, CountingKeeps
      <4> QED
        BY <4>3, <4>4
    <3> QED
      BY <3>3, <3>4
  <2>10. CASE fn \in StressLines
    <3> DEFINE g == StressCallee(fn)
               first == 0
    <3>1. Wraps(body, g, args, first)
      <4>1. \E s \in {Call(g, args), Try(g, args)} : body = << s >>
        BY <2>4, <2>10 DEF StressBody, StressLines, StressCallee, StressEntry
      <4> HIDE DEF g, body
      <4> QED
        BY <4>1, WrapShapes
    <3>2. fn \notin StressClauses
      BY <2>10 DEF StressLines, StressClauses, StressEntry
    <3>3. "none" \in Enters(e, g, args) /\ \A m \in Accounts(e) : Work(m, e, g, args) = 0
      <4>1. \/ g \in {"entry_try", "runLongStressBody"} /\ Counted(args)
            \/ g \in {"vectorCase", "act", "pointerCase"}
        BY <2>8, <2>10, <3>2 DEF StressLines, StressCallee, StressEntry
      <4> HIDE DEF g
      <4> QED
        BY <2>6, <2>7, <4>1
    <3>4. Leaks(e, g, args) \subseteq Raises(e, fn, args)
      BY <2>3, <2>10 DEF StressLeaks, StressRaises, StressLines, StressCallee, StressEntry
    <3>5. \A m \in Accounts(e) : Passes(m, e, fn, args, g, args, first)
      BY <2>8, <3>2, <3>3 DEF Passes
    <3>6. first \in {0, 1}
      OBVIOUS
    <3> HIDE DEF g, first
    <3> QED
      BY <2>3, <2>5, <3>1, <3>3, <3>4, <3>5, <3>6, WrapKeeps
  <2>11. CASE fn \in StressCases
    <3>1. fn \notin StressClauses
      BY <2>11 DEF StressCases, StressClauses
    <3>2. IsCase(body, Raises(e, fn, args))
      <4>1. CASE fn = "vectorCase"
        <5> DEFINE c == (seed + id) % 17 = 3
                   code == seed + id * 100 + 7
        <5>1. body = << Guard, Capture >> \o (IF c THEN Raise("VectorError", code) ELSE << Capture >>)
          BY <2>4, <4>1 DEF StressBody, StressEntry, VectorCase
        <5>2. "VectorError" \in Raises(e, fn, args) /\ << Capture >> \in {<< >>, << Capture >>}
          BY <2>3, <4>1 DEF StressRaises
        <5> HIDE DEF c, code
        <5> QED
          BY <5>1, <5>2, CaseShape
      <4>2. CASE fn = "pointerCase"
        <5> DEFINE c == (seed + id) % 23 = 9
                   code == seed + id * 300 + 11
        <5>1. body = << Guard, Capture >> \o (IF c THEN Raise("PointerError", code) ELSE << Capture >>)
          BY <2>4, <4>2 DEF StressBody, StressEntry, PointerCase
        <5>2. "PointerError" \in Raises(e, fn, args) /\ << Capture >> \in {<< >>, << Capture >>}
          BY <2>3, <4>2 DEF StressRaises
        <5> HIDE DEF c, code
        <5> QED
          BY <5>1, <5>2, CaseShape
      <4> QED
        BY <2>11, <4>1, <4>2 DEF StressCases
    <3>3. \A m \in Accounts(e) : Work(m, e, fn, args) = IF m = "guards" THEN 1 ELSE 0
      BY <2>3, <2>8, <3>1
    <3> QED
      BY <2>3, <2>5, <3>2, <3>3, CaseKeeps
  <2>12. CASE fn \in StressLoops
    <3>1. fn \notin StressClauses
      BY <2>12 DEF StressLoops, StressClauses
    <3>2. \E n \in Nat : Len(body) = n /\ \A j \in 1 .. n : Idle(e, fn, args, body[j])
      <4>1. ASSUME NEW a, NEW s, s.op \in {"call", "try"},
                   \/ s.fn \in {"vector_try", "pointer_try", "TemplateStepper", "long_try", "worker_try"}
                   \/ s.fn = "matrix_try" /\ fn = "runVirtualMatrix"
                   \/ s.fn = "runThreadedStress" /\ Counted(s.args)
                   \/ s.fn = "threadWorker" /\ s.args[2] \in Nat
            PROVE  Idle(e, fn, args, s)
        <5>1. "none" \in Enters(e, s.fn, s.args) /\ \A m \in Accounts(e) : Work(m, e, s.fn, s.args) = 0
          BY <2>6, <2>7, <4>1
        <5>2. Leaks(e, s.fn, s.args) \subseteq Raises(e, fn, args)
          BY <2>3, <4>1 DEF StressLeaks, StressRaises
        <5> QED
          BY <4>1, <5>1, <5>2 DEF Idle
      <4>3. CASE fn = "runVectorTable"
        <5>1. body = RunVectorTable(id)
          BY <2>4, <4>3 DEF StressBody, StressEntry
        <5> HIDE DEF body, id
        <5> DEFINE n == 24
        <5>2. n \in Nat /\ body = Sweep("try", "vector_try", n, id, 5)
          BY <5>1 DEF RunVectorTable
        <5> HIDE DEF n
        <5>3. Len(body) = n /\ \A j \in 1 .. n : body[j].op = "try" /\ body[j].fn = "vector_try"
          BY <5>2, SweepShape
        <5> QED
          BY <4>1, <5>3
      <4>4. CASE fn = "runVirtualMatrix"
        <5>1. body = RunVirtualMatrix(id)
          BY <2>4, <4>4 DEF StressBody, StressEntry
        <5> HIDE DEF body, id
        <5> DEFINE n == 16
        <5>2. n \in Nat /\ body = Sweep("try", "matrix_try", n, id, 1)
          BY <5>1 DEF RunVirtualMatrix
        <5> HIDE DEF n
        <5>3. Len(body) = n /\ \A j \in 1 .. n : body[j].op = "try" /\ body[j].fn = "matrix_try"
          BY <5>2, SweepShape
        <5> QED
          BY <4>1, <4>4, <5>3
      <4>5. CASE fn = "runPointerTable"
        <5>1. body = RunPointerTable(id)
          BY <2>4, <4>5 DEF StressBody, StressEntry
        <5> HIDE DEF body, id
        <5> DEFINE n == 16
        <5>2. n \in Nat /\ body = Sweep("try", "pointer_try", n, id, 7)
          BY <5>1 DEF RunPointerTable
        <5> HIDE DEF n
        <5>3. Len(body) = n /\ \A j \in 1 .. n : body[j].op = "try" /\ body[j].fn = "pointer_try"
          BY <5>2, SweepShape
        <5> QED
          BY <4>1, <5>3
      <4>6. CASE fn = "runTemplateTower"
        <5>1. body = TemplateTower
          BY <2>4, <4>6 DEF StressBody, StressEntry
        <5> HIDE DEF body
        <5>2. /\ 3 \in Nat /\ Len(body) = 3
              /\ \A j \in 1 .. 3 : body[j].op = "call" /\ body[j].fn = "TemplateStepper"
          BY <5>1 DEF TemplateTower, Call
        <5> QED
          BY <4>1, <5>2
      <4>7. CASE fn = "runThreadedStress"
        <5>1. body = RunThreadedStress(id) /\ id \in Nat
          BY <2>4, <2>8, <3>1, <4>7 DEF StressBody, StressEntry, Counted
        <5> HIDE DEF body, id
        <5>2. /\ 3 \in Nat /\ Len(body) = 3
              /\ \A j \in 1 .. 3 : body[j] = Call("threadWorker", << j - 1, Max2(1, id \div 2) >>)
          BY <5>1 DEF RunThreadedStress
        <5>3. Max2(1, id \div 2) \in Nat
          BY <5>1 DEF Max2
        <5>4. \A j \in 1 .. 3 : /\ body[j].op = "call" /\ body[j].fn = "threadWorker"
                                /\ body[j].args[2] \in Nat
          BY <5>2, <5>3 DEF Call
        <5> QED
          BY <4>1, <5>2, <5>4
      <4>8. CASE fn = "threadWorker"
        <5> DEFINE n == 2 * seed
        <5>1. body = ThreadWorker(id, seed) /\ seed \in Nat
          BY <2>4, <2>8, <3>1, <4>8 DEF StressBody, StressEntry
        <5>2. n \in Nat
          BY <5>1
        <5> HIDE DEF body, id, seed
        <5>3. /\ Len(body) = n
              /\ \A j \in 1 .. n : \/ body[j].op = "try" /\ body[j].fn = "worker_try"
                                   \/ body[j] = Count("thread_rounds")
          BY <5>1, <5>2 DEF ThreadWorker, Try
        <5>4. Idle(e, fn, args, Count("thread_rounds"))
          BY DEF Idle, Count, Counters
        <5> HIDE DEF n
        <5> QED
          BY <4>1, <5>2, <5>3, <5>4
      <4>9. CASE fn = "runLongStressBody"
        <5>1. body = LongStressBody(id) /\ id \in Nat \ {0}
          BY <2>4, <2>8, <3>1, <4>9 DEF StressBody, StressEntry, Counted
        <5> HIDE DEF body, id
        <5> DEFINE n == id + 1
        <5>2. /\ Len(body) = n
              /\ \A j \in 1 .. n : \/ body[j].op = "try" /\ body[j].fn = "long_try"
                                   \/ body[j] = Call("runThreadedStress", << id >>)
          BY <5>1 DEF LongStressBody, Try
        <5>3. Counted(<< id >>) /\ n \in Nat
          BY <5>1 DEF Counted
        <5>4. /\ Call("runThreadedStress", << id >>).op = "call"
              /\ Call("runThreadedStress", << id >>).fn = "runThreadedStress"
              /\ Call("runThreadedStress", << id >>).args = << id >>
          BY DEF Call
        <5> HIDE DEF n
        <5>5. Idle(e, fn, args, Call("runThreadedStress", << id >>))
          BY <4>1, <5>3, <5>4
        <5>6. \A j \in 1 .. n : Idle(e, fn, args, body[j])
          BY <4>1, <5>2, <5>5
        <5> QED
          BY <5>2, <5>3, <5>6
      <4> QED
        BY <2>12, <4>3, <4>4, <4>5, <4>6, <4>7, <4>8, <4>9 DEF StressLoops
    <3>3. \A m \in Accounts(e) : Work(m, e, fn, args) = 0
      BY <2>8, <3>1
    <3> QED
      BY <2>3, <2>5, <3>2, <3>3, IdleKeeps
  <2>13. CASE fn \in StressBlocks
    <3> DEFINE due == [j \in Int |-> IF j <= 1 THEN 1 ELSE 0]
    <3>1. fn \notin StressClauses
      BY <2>13 DEF StressBlocks, StressClauses
    <3>2. \A m \in Accounts(e) : Work(m, e, fn, args) = IF m = "guards" THEN due[1] ELSE 0
      BY <2>3, <2>8, <3>1
    <3>3. \A j \in Int : due[j] = IF j <= 1 THEN 1 ELSE 0
      OBVIOUS
    <3>4. /\ Part(e, fn, args, Guard, 1, 0) /\ Part(e, fn, args, Capture, 0, 0)
      BY DEF Part, Guard, Capture
    <3>5. ASSUME NEW s, s.op \in {"call", "try"},
                 \/ s.fn \in {"runVectorTable", "runPointerTable", "runTemplateTower", "TemplateStepper"}
                 \/ s.fn = "vectorCase" /\ fn = "act"
                 \/ s.fn = "runVirtualMatrix" /\ fn = "long_try"
          PROVE  Part(e, fn, args, s, 0, 0)
      <4>1. "none" \in Enters(e, s.fn, s.args) /\ \A m \in Accounts(e) : Work(m, e, s.fn, s.args) = 0
        BY <2>6, <3>5
      <4>2. Leaks(e, s.fn, s.args) \subseteq Raises(e, fn, args)
        BY <2>3, <3>5 DEF StressLeaks, StressRaises
      <4> QED
        BY <3>5, <4>1, <4>2 DEF Part
    <3> HIDE DEF due
    <3>6. (\A j \in Int : due[j] \in Int) /\ \A k \in Nat : k > 1 => due[k] = 0
      BY <3>3
    <3>7. CASE fn = "TemplateStepper"
      <4> DEFINE s == Call("TemplateStepper", << id - 1 >>)
                 k == IF id = 0 THEN 3 ELSE 4
      <4>1. body = << Guard, Capture >> \o (IF id = 0 THEN << >> ELSE << s >>)
        BY <2>4, <3>7 DEF StressBody, StressEntry, TemplateStepper
      <4>2. Part(e, fn, args, s, 0, 0)
        BY <3>5 DEF Call
      <4> HIDE DEF s
      <4>3. /\ k \in {3, 4} /\ Len(body) = k - 1 /\ body[1] = Guard /\ body[2] = Capture
            /\ k = 4 => body[3] = s
        BY <4>1
      <4> HIDE DEF k
      <4>4. k \in Nat /\ k # 0 /\ k > 1 /\ IsEnding(body, k, Raises(e, fn, args))
        BY <4>3 DEF IsEnding
      <4>5. ASSUME NEW j \in 1 .. k - 1 PROVE Part(e, fn, args, body[j], due[j], due[j + 1])
        <5>1. \/ j = 1 /\ due[j] = 1 /\ due[j + 1] = 0
              \/ j = 2 /\ due[j] = 0 /\ due[j + 1] = 0
              \/ j = 3 /\ k = 4 /\ due[j] = 0 /\ due[j + 1] = 0
          BY <3>3, <4>3
        <5> QED
          BY <3>4, <4>2, <4>3, <5>1
      <4>6. Prelude(e, fn, args, body, k, due)
        BY <3>2, <3>6, <4>4, <4>5 DEF Prelude
      <4> QED
        BY <2>3, <2>5, <4>6, PreludeKeeps
    <3>8. CASE fn = "long_try"
      <4>1. /\ Len(body) = 5 /\ body[1] = Guard
            /\ \A j \in 2 .. 5 :
                 /\ body[j].op = "call"
                 /\ body[j].fn \in {"runVectorTable", "runPointerTable", "runTemplateTower",
                                    "runVirtualMatrix"}
        <5>1. body = LongTry(id)
          BY <2>4, <3>8 DEF StressBody, StressEntry
        <5> HIDE DEF body, id
        <5> QED
          BY <5>1 DEF LongTry, Call
      <4> HIDE DEF body
      <4>2. IsEnding(body, 6, Raises(e, fn, args))
        BY <4>1 DEF IsEnding
      <4>3. ASSUME NEW j \in 1 .. 6 - 1 PROVE Part(e, fn, args, body[j], due[j], due[j + 1])
        <5>1. \/ j = 1 /\ due[j] = 1 /\ due[j + 1] = 0
              \/ j \in 2 .. 5 /\ due[j] = 0 /\ due[j + 1] = 0
          BY <3>3
        <5>2. \A i \in 2 .. 5 : Part(e, fn, args, body[i], 0, 0)
          BY <3>5, <3>8, <4>1
        <5> QED
          BY <3>4, <4>1, <5>1, <5>2
      <4>4. Prelude(e, fn, args, body, 6, due)
        BY <3>2, <3>6, <4>2, <4>3 DEF Prelude
      <4> QED
        BY <2>3, <2>5, <4>4, PreludeKeeps DEF body
    <3>9. CASE fn = "worker_try"
      <4> DEFINE c == (id + seed) % 11 = 4
                 code == id * 5000 + seed
                 s == Call("runPointerTable", << id * 100 + seed * 17 >>)
                 t == Call("runTemplateTower", << >>)
      <4>1. body = << Guard, s, t >> \o (IF c THEN Raise("ThreadError", code) ELSE << >>)
        BY <2>4, <3>9 DEF StressBody, StressEntry, WorkerTry
      <4>2. Part(e, fn, args, s, 0, 0) /\ Part(e, fn, args, t, 0, 0)
        BY <3>5 DEF Call
      <4>3. Raises(e, fn, args) = {"ThreadError"}
        BY <2>3, <3>9 DEF StressRaises
      <4> HIDE DEF c, code, s, t
      <4>4. /\ IsEnding(body, 4, Raises(e, fn, args))
            /\ body[1] = Guard /\ body[2] = s /\ body[3] = t
        BY <4>1, <4>3 DEF IsEnding, Raise
      <4> HIDE DEF body
      <4>5. ASSUME NEW j \in 1 .. 4 - 1 PROVE Part(e, fn, args, body[j], due[j], due[j + 1])
        <5>1. \/ j = 1 /\ due[j] = 1 /\ due[j + 1] = 0
              \/ j \in {2, 3} /\ due[j] = 0 /\ due[j + 1] = 0
          BY <3>3
        <5> QED
          BY <3>4, <4>2, <4>4, <5>1
      <4>6. Prelude(e, fn, args, body, 4, due)
        BY <3>2, <3>6, <4>4, <4>5 DEF Prelude
      <4> QED
        BY <2>3, <2>5, <4>6, PreludeKeeps DEF body
    <3>10. CASE fn = "act"
      <4> DEFINE c == (seed + id) % 19 = 5
                 code == seed + id * 200 + 9
                 s == Call("vectorCase", << id, seed + id * 5 >>)
                 more == [j \in Int |-> IF j <= 2 THEN 1 ELSE 0]
      <4>1. body = << Count("virtual_calls"), Guard, Capture, s >> \o
                   (IF c THEN Raise("VirtualError", code) ELSE << Capture >>)
        BY <2>4, <3>10 DEF StressBody, StressEntry, Act
      <4>2. Part(e, fn, args, s, 0, 0)
        BY <3>5, <3>10 DEF Call
      <4>3. "VirtualError" \in Raises(e, fn, args)
        BY <2>3, <3>10 DEF StressRaises
      <4>4. Part(e, fn, args, Count("virtual_calls"), 1, 1)
        BY DEF Part, Count, Counters
      <4>5. /\ \A j \in Int : more[j] = IF j <= 2 THEN 1 ELSE 0
            /\ \A m \in Accounts(e) : Work(m, e, fn, args) = IF m = "guards" THEN more[1] ELSE 0
        BY <2>3, <2>8, <3>1
      <4> HIDE DEF c, code, s, more
      <4>6. /\ IsEnding(body, 5, Raises(e, fn, args))
            /\ body[1] = Count("virtual_calls") /\ body[2] = Guard /\ body[3] = Capture /\ body[4] = s
        BY <4>1, <4>3 DEF IsEnding, Raise, Capture
      <4> HIDE DEF body
      <4>7. ASSUME NEW j \in 1 .. 5 - 1 PROVE Part(e, fn, args, body[j], more[j], more[j + 1])
        <5>1. \/ j = 1 /\ more[j] = 1 /\ more[j + 1] = 1
              \/ j = 2 /\ more[j] = 1 /\ more[j + 1] = 0
              \/ j \in {3, 4} /\ more[j] = 0 /\ more[j + 1] = 0
          BY <4>5
        <5> QED
          BY <3>4, <4>2, <4>4, <4>6, <5>1
      <4>8. (\A j \in Int : more[j] \in Int) /\ more[5] = 0
        BY <4>5
      <4>9. Prelude(e, fn, args, body, 5, more)
        BY <4>5, <4>6, <4>7, <4>8 DEF Prelude
      <4> QED
        BY <2>3, <2>5, <4>9, PreludeKeeps DEF body
    <3> QED
      BY <2>13, <3>7, <3>8, <3>9, <3>10 DEF StressBlocks
  <2> QED
    BY <2>2, <2>9, <2>10, <2>11, <2>12, <2>13
<1> QED
  BY <1>1, <1>2 DEF Orderly

-----------------------------------------------------------------------------

\* The finishResult functions of the six suites do judge traces, on every path through
\* their checks.
LEMMA SuitesJudgeTraces ==
  ASSUME NEW m, NEW n \in Nat, NEW strict \in BOOLEAN,
         m.minDepth < 5 \/ (strict /\ m.own = 0)
  PROVE  /\ BasicVerdict(m, n, strict) # 0
         /\ StressVerdict(m, n, strict) # 0
         /\ CfiVerdict(m, n, strict) # 0
         /\ DeepVerdict(m, n, strict) # 0
         /\ ExtVerdict(m, n, strict) # 0
         /\ PluginVerdict(m, n, strict) # 0
<1>1. ASSUME NEW a \in Nat \ {0}, NEW b \in Nat \ {0}
      PROVE  TraceVerdict(m, strict, a, b) # 0
  BY DEF TraceVerdict
<1> HIDE DEF TraceVerdict
<1>2. BasicVerdict(m, n, strict) # 0
  BY <1>1 DEF BasicVerdict
<1>3. StressVerdict(m, n, strict) # 0
  BY <1>1 DEF StressVerdict
<1>4. CfiVerdict(m, n, strict) # 0
  BY <1>1 DEF CfiVerdict
<1>5. DeepVerdict(m, n, strict) # 0
  BY <1>1 DEF DeepVerdict
<1>6. ExtVerdict(m, n, strict) # 0
  BY <1>1 DEF ExtVerdict
<1>7. PluginVerdict(m, n, strict) # 0
  BY <1>1 DEF PluginVerdict
<1> QED
  BY <1>2, <1>3, <1>4, <1>5, <1>6, <1>7

\* The workload of a round (EveryRoundAlike) and the thresholds do not fit for any
\* number of iterations from 4 on in the cfi suite and from 3 on in the extended one:
\* its destructors alone fail a call, however well the unwinder did.
LEMMA WorkloadOutgrown ==
  ASSUME NEW m, NEW n \in Nat, NEW strict \in BOOLEAN
  PROVE  /\ n >= 4 /\ m.destructors = 170 * (n + 2) => CfiVerdict(m, n, strict) # 0
         /\ n >= 3 /\ m.destructors = 176 * (n + 2) => ExtVerdict(m, n, strict) # 0
<1>1. n >= 4 /\ m.destructors = 170 * (n + 2) => m.destructors < n * 260
  OBVIOUS
<1>2. n >= 3 /\ m.destructors = 176 * (n + 2) => m.destructors < n * 300
  OBVIOUS
<1> QED
  BY <1>1, <1>2 DEF CfiVerdict, ExtVerdict

-----------------------------------------------------------------------------

(***************************************************************************)
(* The suites.  For every number of iterations, of calls, and every        *)
(* unwinder: their contracts hold, so the machine's lemmas do.             *)
(***************************************************************************)
SuiteEntries == {BasicEntry, CfiEntry, DeepEntry, ExtEntry, PluginEntry, StressEntry}

\* A machine that runs the suites runs programs with contracts,
LEMMA SuiteRuns ==
  ASSUME RunsSuites, NEW e, \E s \in Suites : e = s.entry
  PROVE  e \in SuiteEntries /\ Disciplined(e) /\ Ledgers(e) \subseteq AllLedgers
<1>1. /\ e \in SuiteEntries
      /\ \A fn, args, exc : Body(e, fn, args, exc) = SuiteBody(e, fn, args, exc)
      /\ \A fn, type : Catches(e, fn, type) = SuiteCatches(e, fn, type)
  BY DEF RunsSuites, SuiteEntries
<1> USE DEF BasicEntry, CfiEntry, DeepEntry, ExtEntry, PluginEntry, StressEntry
<1>2. /\ e = BasicEntry =>
           /\ \A fn, args, exc : SuiteBody(e, fn, args, exc) = BasicBody(fn, args, exc)
           /\ \A fn, type : SuiteCatches(e, fn, type) = BasicCatches(fn, type)
      /\ e = CfiEntry =>
           /\ \A fn, args, exc : SuiteBody(e, fn, args, exc) = CfiBody(fn, args, exc)
           /\ \A fn, type : SuiteCatches(e, fn, type) = CfiCatches(fn, type)
      /\ e = DeepEntry =>
           /\ \A fn, args, exc : SuiteBody(e, fn, args, exc) = DeepBody(fn, args, exc)
           /\ \A fn, type : SuiteCatches(e, fn, type) = DeepCatches(fn, type)
      /\ e = ExtEntry =>
           /\ \A fn, args, exc : SuiteBody(e, fn, args, exc) = ExtBody(fn, args, exc)
           /\ \A fn, type : SuiteCatches(e, fn, type) = ExtCatches(fn, type)
      /\ e = PluginEntry =>
           /\ \A fn, args, exc : SuiteBody(e, fn, args, exc) = PluginBody(fn, args, exc)
           /\ \A fn, type : SuiteCatches(e, fn, type) = PluginCatches(fn, type)
      /\ e = StressEntry =>
           /\ \A fn, args, exc : SuiteBody(e, fn, args, exc) = StressBody(fn, args, exc)
           /\ \A fn, type : SuiteCatches(e, fn, type) = StressCatches(fn, type)
  BY DEF SuiteBody, SuiteCatches
<1>3. Ledgers(e) \subseteq AllLedgers
  <2>1. Accounts(e) \subseteq AllAccounts
    BY <1>1 DEF Accounts, AllAccounts, SuiteEntries
  <2>2. SeedAccounts(e) \subseteq AllLedgers
    BY SeedsDecide DEF AllLedgers, AllAccounts
  <2> QED
    BY <2>1, <2>2 DEF Ledgers, AllLedgers
<1>4. ASSUME Orderly(e), e \notin {CfiEntry, ExtEntry} PROVE Disciplined(e)
  BY <1>4, SeedsDecide DEF Disciplined
<1>5. CASE e = BasicEntry
  BY <1>1, <1>2, <1>3, <1>4, <1>5, BasicOrderly
<1>6. CASE e = CfiEntry
  <2>1. \A fn, args, exc : Body(e, fn, args, exc) = CfiBody(fn, args, exc)
    BY <1>1, <1>2, <1>6
  <2>2. \A fn, type : Catches(e, fn, type) = CfiCatches(fn, type)
    BY <1>1, <1>2, <1>6
  <2>3. Orderly(e)
    BY <1>6, <2>1, <2>2, CfiOrderly
  <2>4. ASSUME NEW fn \in STRING, NEW args \in Seq(Int), NEW exc \in MaybeException,
               exc.type \in Enters(e, fn, args), NEW m \in SeedAccounts(e)
        PROVE  \E left : IsPlan(m, e, fn, args, exc, left)
    BY <1>6, <2>1, <2>2, <2>4, CfiSeeds
  <2> QED
    BY <1>1, <1>3, <2>3, <2>4 DEF Disciplined
<1>7. CASE e = DeepEntry
  BY <1>1, <1>2, <1>3, <1>4, <1>7, DeepOrderly
<1>8. CASE e = ExtEntry
  <2>1. \A fn, args, exc : Body(e, fn, args, exc) = ExtBody(fn, args, exc)
    BY <1>1, <1>2, <1>8
  <2>2. \A fn, type : Catches(e, fn, type) = ExtCatches(fn, type)
    BY <1>1, <1>2, <1>8
  <2>3. Orderly(e)
    BY <1>8, <2>1, <2>2, ExtOrderly
  <2>4. ASSUME NEW fn \in STRING, NEW args \in Seq(Int), NEW exc \in MaybeException,
               exc.type \in Enters(e, fn, args), NEW m \in SeedAccounts(e)
        PROVE  \E left : IsPlan(m, e, fn, args, exc, left)
    BY <1>8, <2>1, <2>2, <2>4, ExtSeeds
  <2> QED
    BY <1>1, <1>3, <2>3, <2>4 DEF Disciplined
<1>9. CASE e = PluginEntry
  BY <1>1, <1>2, <1>3, <1>4, <1>9, PluginOrderly
<1>10. CASE e = StressEntry
  BY <1>1, <1>2, <1>3, <1>4, <1>10, StressOrderly
<1> QED
  BY <1>1, <1>5, <1>6, <1>7, <1>8, <1>9, <1>10 DEF SuiteEntries

\* in which "terminate" is no clause,
LEMMA NoTerminateClause ==
  ASSUME NEW e \in SuiteEntries
  PROVE  \A args : Enters(e, "terminate", args) = {}
BY DEF Enters, BasicEnters, CfiEnters, DeepEnters, ExtEnters, PluginEnters, StressEnters,
   SuiteEntries, BasicEntry, CfiEntry, DeepEntry, ExtEntry, PluginEntry, StressEntry

\* which is all that the lemmas on the machine ask for,
LEMMA SuitesContracted == RunsSuites => Contracted
<1> SUFFICES ASSUME RunsSuites PROVE Contracted
  OBVIOUS
<1>1. Counters \subseteq Events
  BY DEF RunsSuites
<1>2. ASSUME NEW s \in Suites
      PROVE  /\ Ledgers(s.entry) \subseteq AllLedgers /\ Disciplined(s.entry)
             /\ \A args : Enters(s.entry, "terminate", args) = {}
  <2>1. PICK e : e = s.entry
    OBVIOUS
  <2>2. /\ Ledgers(e) \subseteq AllLedgers /\ Disciplined(e)
        /\ \A args : Enters(e, "terminate", args) = {}
    BY <2>1, SuiteRuns, NoTerminateClause
  <2> QED
    BY <2>1, <2>2
<1> QED
  BY <1>1, <1>2 DEF Contracted

\* What holds of the machine while it runs the suites.
SuiteInv == RunsSuites /\ IInv /\ OrderInv /\ LedgerInv

\* so that their invariants hold in every state.
LEMMA SuitesHold == RunsSuites /\ Spec => []SuiteInv
<1> DEFINE J == RunsSuites
<1>1. J /\ [Next]_vars => J'
  BY DEF RunsSuites
<1>2. J /\ Init => SuiteInv
  BY SuitesContracted, InitInv, OrderInit, LedgerInit DEF SuiteInv
<1>3. J /\ SuiteInv /\ [Next]_vars => SuiteInv'
  <2>1. J /\ SuiteInv /\ [Next]_vars => IInv' /\ OrderInv' /\ LedgerInv'
    BY SuitesContracted, StepInv, OrderStep, LedgerStep DEF SuiteInv
  <2>2. J /\ [Next]_vars => RunsSuites'
    BY <1>1
  <2> QED
    BY <2>1, <2>2 DEF SuiteInv
<1> HIDE DEF J
<1>4. J /\ Spec => []SuiteInv
  BY <1>1, <1>2, <1>3, PTL DEF Spec
<1> QED
  BY <1>4 DEF J

\* The suite of a state, as a value.
LEMMA SuiteOf ==
  ASSUME SuiteInv, NEW e, e = suite.entry
  PROVE  e \in SuiteEntries /\ Disciplined(e) /\ Ledgers(e) \subseteq AllLedgers
<1>1. \E s \in Suites : e = s.entry
  BY DEF SuiteInv, IInv, TypeOK
<1>2. RunsSuites
  BY DEF SuiteInv
<1> QED
  BY <1>1, <1>2, SuiteRuns

-----------------------------------------------------------------------------

\* No call of a suite ends in std::terminate: whatever it throws or rethrows, and while
\* whichever scope is innermost, some clause below takes it, in a worker of the stress
\* suite one of its own thread.
THEOREM NothingEscapes == RunsSuites /\ Spec => [](status # "terminated")
<1>1. SuiteInv => status # "terminated"
  BY DEF SuiteInv, OrderInv
<1> QED
  BY <1>1, SuitesHold, PTL

\* The clauses that no contract lets an exception reach.
LEMMA UnusedClauses ==
  ASSUME NEW e \in SuiteEntries, NEW fn, NEW args
  PROVE  /\ fn \in {"dispatch_catch", "entry_catch", "round_catch", "ladder_root_catch"} =>
              Enters(e, fn, args) = {}
         /\ fn = "ladder_catch" /\ args[1] # 1 => Enters(e, fn, args) = {}
<1> USE DEF BasicEntry, CfiEntry, DeepEntry, ExtEntry, PluginEntry, StressEntry
<1>2. CASE e = BasicEntry
  BY <1>2 DEF BasicEnters, Enters
<1>3. CASE e = CfiEntry
  BY <1>3 DEF CfiEnters, Enters
<1>4. CASE e = DeepEntry
  BY <1>4 DEF DeepEnters, Enters
<1>5. CASE e = ExtEntry
  BY <1>5 DEF ExtEnters, Enters, OnlyIf
<1>6. CASE e = PluginEntry
  BY <1>6 DEF PluginEnters, Enters
<1>7. CASE e = StressEntry
  BY <1>7 DEF StressEnters, Enters
<1> QED
  BY <1>2, <1>3, <1>4, <1>5, <1>6, <1>7 DEF SuiteEntries

\* The clauses that are never entered are never open.
LEMMA OpenScopes ==
  ASSUME SuiteInv, NEW k \in 1 .. Len(stack)
  PROVE  /\ stack[k].fn \notin {"dispatch_catch", "entry_catch", "round_catch", "ladder_root_catch"}
         /\ stack[k].fn = "ladder_catch" => stack[k].args[1] = 1
<1>1. PICK e : e = suite.entry
  OBVIOUS
<1>2. e \in SuiteEntries
  BY <1>1, SuiteOf
<1>3. Fits(e, stack[k])
  BY <1>1 DEF SuiteInv, OrderInv, Chain
<1>4. Enters(e, stack[k].fn, stack[k].args) # {}
  BY <1>3 DEF Fits
<1> QED
  BY <1>2, <1>4, UnusedClauses

\* The clauses of dispatchRoots and of run_unwind_suite are never entered.
THEOREM BasicBackstopNeverRuns == RunsSuites /\ Spec => []BasicBackstopUnused
<1>1. SuiteInv => BasicBackstopUnused
  BY OpenScopes DEF BasicBackstopUnused
<1> QED
  BY <1>1, SuitesHold, PTL

\* The clauses around a round of the cfi and cfi_ext suites are never entered, so every
\* round runs its ten programs to the end.
THEOREM RoundBackstopNeverRuns == RunsSuites /\ Spec => []RoundBackstopUnused
<1>1. SuiteInv => RoundBackstopUnused
  BY OpenScopes DEF RoundBackstopUnused
<1> QED
  BY <1>1, SuitesHold, PTL

\* The clause of ExtRecursor runs at level 1 and nowhere else, whatever the seed, and
\* that of program17 never.
THEOREM OneRungInUse == RunsSuites /\ Spec => []LadderRungs
<1>1. SuiteInv => LadderRungs
  BY OpenScopes DEF LadderRungs
<1> QED
  BY <1>1, SuitesHold, PTL

-----------------------------------------------------------------------------

\* While an exception is in flight it is the only one pending.
LEMMA OnePending ==
  ASSUME SuiteInv, NEW e, e = suite.entry, "pending" \in Accounts(e)
  PROVE  /\ status = "unwinding" => Tally("pending", metrics, live) = 1
         /\ status = "idle" => Tally("pending", metrics, live) = 0
<1> DEFINE m == "pending"
           f == Top
<1>1. /\ IInv /\ OrderInv /\ LedgerInv /\ Contracted /\ Disciplined(e)
  BY SuiteOf, SuitesContracted DEF SuiteInv
<1>2. /\ metrics \in Metrics /\ live \in Nat /\ Tally(m, metrics, live) \in Int
      /\ stack \in Seq(Frames) /\ Chain(e, stack) /\ m \in Ledgers(e)
  BY <1>1, LedgerParts DEF Ledgers
<1>3. ASSUME status = "idle" PROVE Tally(m, metrics, live) = 0
  <2>1. Covers(m, 0, Tally(m, metrics, live))
    BY <1>1, <1>2, <1>3 DEF LedgerInv, Flows
  <2> QED
    BY <2>1 DEF Covers, Exact
<1>4. ASSUME status = "unwinding" PROVE Tally(m, metrics, live) = 1
  <2>1. Len(stack) > 0 /\ Len(stack) \in Nat
    BY <1>1, <1>2, <1>4 DEF IInv, StackInv
  <2>2. PICK total \in Int :
          /\ Sums(e, m, stack, total) /\ Due(e, m) \in Int
          /\ Covers(m, Work(m, e, e, << iterations >>), Tally(m, metrics, live) + total + Due(e, m))
    BY <1>1, <1>2, <1>4 DEF LedgerInv, Ledger
  <2>3. Work(m, e, e, << iterations >>) = 0
    <3>1. iterations \in Nat \ {0}
      BY <1>1, <1>4 DEF LedgerInv
    <3>2. \A n \in Nat \ {0} : Work(m, e, e, << n >>) = 0
      BY <1>1, NoFlow DEF Flows
    <3> QED
      BY <3>1, <3>2
  <2>4. total = 0
    <3>1. \A k \in 1 .. Len(stack) - 1 : Left(e, m, stack[k]) = 0
      BY <1>2 DEF Chain, Linked
    <3> QED
      BY <2>1, <2>2, <3>1, SumsNothing
  <2>5. Due(e, m) = -1
    <3> DEFINE t == flying.type
               clause == Catches(e, Top.fn, t)
    <3>1. Due(e, m) = Settled(m, e, Top.fn, Top.args, t)
      BY <1>4 DEF Due
    <3>2. CASE clause = "none"
      BY <3>1, <3>2 DEF Settled, Fare
    <3>3. CASE clause # "none"
      <4>1. Top \in Frames /\ Fits(e, Top)
        BY <1>2, <2>1, TopFrame DEF Chain, Top
      <4>2. ClausesKept(e, Top.fn, Top.args)
        BY <1>1, <4>1, FrameKeeps DEF Keeps
      <4>3. t \in Raises(e, Top.fn, Top.args)
        BY <1>1, <1>4 DEF OrderInv
      <4>4. "none" \notin Enters(e, clause, Top.args)
        BY <3>3, <4>2, <4>3 DEF ClausesKept
      <4>5. Work(m, e, clause, Top.args) = -1
        BY <4>4, SeedsDecide DEF Work, Fare
      <4> QED
        BY <3>1, <3>3, <4>5 DEF Settled
    <3> QED
      BY <3>2, <3>3
  <2> QED
    BY <1>2, <2>2, <2>3, <2>4, <2>5 DEF Covers, Exact
<1> QED
  BY <1>3, <1>4

\* In every suite but stress, the counters of exceptions match the exceptions at every
\* throw, rethrow and return, however deep the scopes and whichever clause rethrows.
THEOREM ExceptionsAreAccounted ==
  (\A s \in Suites : s.entry # StressEntry) /\ RunsSuites /\ Spec => []ExceptionsAccounted
<1> DEFINE J == \A s \in Suites : s.entry # StressEntry
<1>1. J /\ [Next]_vars => J'
  OBVIOUS
<1>2. J /\ SuiteInv => ExceptionsAccounted
  <2> SUFFICES ASSUME J, SuiteInv PROVE ExceptionsAccounted
    OBVIOUS
  <2>1. PICK e : e = suite.entry
    OBVIOUS
  <2>2. e # StressEntry
    BY <2>1 DEF SuiteInv, IInv, TypeOK
  <2>3. "pending" \in Accounts(e)
    BY <2>1, <2>2, SuiteOf DEF Accounts, SuiteEntries
  <2> QED
    BY <2>1, <2>3, OnePending DEF Tally, ExceptionsAccounted
<1> HIDE DEF J
<1>3. J /\ RunsSuites /\ Spec => []ExceptionsAccounted
  BY <1>1, <1>2, SuitesHold, PTL DEF Spec
<1> QED
  BY <1>3 DEF J

\* When a call of any suite has returned, each throw was caught, and no more was caught
\* than was thrown or counted as rethrown.
THEOREM EveryThrowIsCaught == RunsSuites /\ Spec => []EveryThrowCaught
<1>1. SuiteInv => EveryThrowCaught
  <2> SUFFICES ASSUME SuiteInv, status = "idle"
               PROVE  /\ metrics.events["thrown"] <= metrics.events["caught"]
                      /\ metrics.events["caught"] <=
                           metrics.events["thrown"] + metrics.events["rethrows"]
    BY DEF EveryThrowCaught
  <2>1. PICK e : e = suite.entry
    OBVIOUS
  <2>2. e \in SuiteEntries /\ LedgerInv
    BY <2>1, SuiteOf DEF SuiteInv
  <2>3. /\ metrics.events["thrown"] \in Nat /\ metrics.events["caught"] \in Nat
        /\ metrics.events["rethrows"] \in Nat
    <3>1. Counters \subseteq Events /\ metrics.events \in [Events -> Nat]
      BY DEF SuiteInv, RunsSuites, IInv, TypeOK, Metrics
    <3> QED
      BY <3>1 DEF Counters
  <2>4. \A m \in Accounts(e) \cap Flows : Covers(m, 0, Tally(m, metrics, live))
    BY <2>1, <2>2 DEF LedgerInv, Ledgers
  <2>5. CASE "pending" \in Accounts(e)
    <3>1. Covers("pending", 0, Tally("pending", metrics, live))
      BY <2>4, <2>5 DEF Flows
    <3> QED
      BY <2>3, <3>1 DEF Covers, Exact, Tally
  <2>6. CASE {"uncaught", "overcaught"} \subseteq Accounts(e)
    <3>1. /\ Covers("uncaught", 0, Tally("uncaught", metrics, live))
          /\ Covers("overcaught", 0, Tally("overcaught", metrics, live))
      BY <2>4, <2>6 DEF Flows
    <3> QED
      BY <2>3, <3>1 DEF Covers, Tally
  <2>7. "pending" \in Accounts(e) \/ {"uncaught", "overcaught"} \subseteq Accounts(e)
    BY <2>2 DEF Accounts, SuiteEntries
  <2> QED
    BY <2>5, <2>6, <2>7
<1> QED
  BY <1>1, SuitesHold, PTL

-----------------------------------------------------------------------------

\* The metrics of a finished call are typed, and settle the accounts of its suite.
LEMMA ReportSettled ==
  ASSUME SuiteInv, NEW e, e = suite.entry, NEW c \in 1 .. Len(reports),
         NEW n, n = reports[c].iterations, NEW m, m = reports[c].metrics
  PROVE  /\ m \in Metrics /\ n \in Nat \ {0}
         /\ \A account \in Ledgers(e) :
              Covers(account, Work(account, e, e, << n >>), Tally(account, m, 0))
         /\ m.events["thrown"] \in Nat /\ m.events["caught"] \in Nat
         /\ m.events["rethrows"] \in Nat /\ m.events["programs"] \in Nat
<1>1. reports[c] \in [iterations : Nat, metrics : Metrics]
  <2> DEFINE R == [iterations : Nat, metrics : Metrics]
  <2>1. reports \in Seq(R)
    BY DEF SuiteInv, IInv, TypeOK
  <2> HIDE DEF R
  <2>2. reports[c] \in R
    BY <2>1
  <2> QED
    BY <2>2 DEF R
<1>2. m \in Metrics
  BY <1>1
<1>3. Counters \subseteq Events /\ m.events \in [Events -> Nat]
  BY <1>2 DEF SuiteInv, RunsSuites, Metrics
<1> QED
  BY <1>2, <1>3 DEF SuiteInv, LedgerInv, Counters

\* The table that each account is read from.
LEMMA AccountsOf ==
  ASSUME NEW e, NEW fn, NEW args
  PROVE  /\ Work("guards", e, fn, args) = Guards(e, fn, args)
         /\ Work("programs", e, fn, args) = CompletedPrograms(fn, args)
         /\ Work("traces", e, fn, args) = PluginTraces(fn, args)
         /\ e = BasicEntry => Work("throws", e, fn, args) = BasicThrows(fn, args)
<1>1. /\ {"guards", "programs", "traces"} \cap SeedAccounts(e) = {}
      /\ e = BasicEntry => SeedAccounts(e) = {}
  BY SeedsDecide DEF BasicEntry, CfiEntry, ExtEntry
<1>2. Work("guards", e, fn, args) = Guards(e, fn, args)
  BY <1>1 DEF Work
<1>3. Work("programs", e, fn, args) = CompletedPrograms(fn, args)
  BY <1>1 DEF Work
<1>4. Work("traces", e, fn, args) = PluginTraces(fn, args)
  BY <1>1 DEF Work
<1>5. e = BasicEntry => Work("throws", e, fn, args) = BasicThrows(fn, args)
  BY <1>1 DEF Work
<1> QED
  BY <1>2, <1>3, <1>4, <1>5

\* The accounts of the two cfi suites, of the basic and of the plugin suite.
LEMMA CfiReport ==
  ASSUME SuiteInv, NEW e, e = suite.entry, e \in {CfiEntry, ExtEntry},
         NEW c \in 1 .. Len(reports),
         NEW n, n = reports[c].iterations, NEW m, m = reports[c].metrics
  PROVE  /\ n \in Nat \ {0} /\ m \in Metrics
         /\ m.destructors = (IF e = CfiEntry THEN 170 ELSE 176) * (n + 2)
         /\ m.events["programs"] = 10 * (n + 2)
<1> USE DEF BasicEntry, CfiEntry, DeepEntry, ExtEntry, PluginEntry, StressEntry
<1>1. /\ m \in Metrics /\ n \in Nat \ {0}
      /\ \A account \in Ledgers(e) :
           Covers(account, Work(account, e, e, << n >>), Tally(account, m, 0))
  BY ReportSettled
<1>2. {"guards", "programs", "pending"} \subseteq Ledgers(e)
  BY DEF Accounts, Ledgers
<1>3. /\ Work("guards", e, e, << n >>) = Tally("guards", m, 0)
      /\ Work("programs", e, e, << n >>) = Tally("programs", m, 0)
  BY <1>1, <1>2 DEF Covers, Exact
<1>4. Work("guards", e, e, << n >>) = (IF e = CfiEntry THEN 170 ELSE 176) * (n + 2)
  <2>1. Work("guards", e, e, << n >>) = Guards(e, e, << n >>)
    BY AccountsOf
  <2> QED
    BY <2>1 DEF Guards, CfiGuards, ExtGuards
<1>5. Work("programs", e, e, << n >>) = 10 * (n + 2)
  <2>1. Work("programs", e, e, << n >>) = CompletedPrograms(e, << n >>)
    BY AccountsOf
  <2> QED
    BY <2>1 DEF CompletedPrograms
<1>6. Tally("guards", m, 0) = m.destructors /\ Tally("programs", m, 0) = m.events["programs"]
  <2>1. m.destructors \in Nat
    BY <1>1 DEF Metrics
  <2> QED
    BY <2>1 DEF Tally
<1> QED
  BY <1>1, <1>3, <1>4, <1>5, <1>6

\* What a report of the basic suite has counted, whatever was thrown.
LEMMA BasicReport ==
  ASSUME SuiteInv, NEW e, e = suite.entry, e = BasicEntry, NEW c \in 1 .. Len(reports),
         NEW n, n = reports[c].iterations, NEW m, m = reports[c].metrics
  PROVE  /\ n \in Nat \ {0} /\ m \in Metrics /\ m.destructors = 192 * n
         /\ m.events["thrown"] \in Nat /\ m.events["caught"] \in Nat
         /\ m.events["thrown"] >= 16 * n /\ m.events["caught"] >= m.events["thrown"]
<1> USE DEF BasicEntry, CfiEntry, DeepEntry, ExtEntry, PluginEntry, StressEntry
<1>1. /\ m \in Metrics /\ n \in Nat \ {0}
      /\ \A account \in Ledgers(e) :
           Covers(account, Work(account, e, e, << n >>), Tally(account, m, 0))
      /\ m.events["thrown"] \in Nat /\ m.events["caught"] \in Nat /\ m.events["rethrows"] \in Nat
  BY ReportSettled
<1>2. {"guards", "throws", "pending"} \subseteq Ledgers(e)
  BY DEF Accounts, Ledgers
<1>3. /\ Work("guards", e, e, << n >>) = Tally("guards", m, 0)
      /\ Work("pending", e, e, << n >>) = Tally("pending", m, 0)
      /\ Work("throws", e, e, << n >>) >= Tally("throws", m, 0)
  BY <1>1, <1>2 DEF Covers, Exact
<1>4. /\ Work("guards", e, e, << n >>) = 192 * n /\ Work("throws", e, e, << n >>) = -16 * n
  <2>1. /\ Work("guards", e, e, << n >>) = Guards(e, e, << n >>)
        /\ Work("throws", e, e, << n >>) = BasicThrows(e, << n >>)
    BY AccountsOf
  <2>2. Guards(e, e, << n >>) = 192 * n
    BY DEF Guards, BasicGuards
  <2>3. BasicThrows(e, << n >>) = -16 * n
    BY DEF BasicThrows
  <2> QED
    BY <2>1, <2>2, <2>3
<1>5. Work("pending", e, e, << n >>) = 0
  BY <1>1, SuiteOf, NoFlow DEF Flows
<1>6. Tally("guards", m, 0) = m.destructors
  <2>1. m.destructors \in Nat
    BY <1>1 DEF Metrics
  <2> QED
    BY <2>1 DEF Tally
<1>7. m.events["thrown"] >= 16 * n
  BY <1>1, <1>3, <1>4 DEF Tally
<1>8. m.events["caught"] >= m.events["thrown"]
  BY <1>1, <1>3, <1>5 DEF Tally
<1> QED
  BY <1>1, <1>3, <1>4, <1>6, <1>7, <1>8

\* The captures of the plugin suite, from those inside and outside its destructors.
LEMMA PluginSum ==
  ASSUME NEW n \in Nat, NEW x \in Nat, NEW y \in Nat, x = 32 * n, y - x = 64 * n
  PROVE  y = 96 * n
OBVIOUS

\* What a report of the plugin suite has counted, whatever was thrown.
LEMMA PluginReport ==
  ASSUME SuiteInv, NEW e, e = suite.entry, e = PluginEntry, NEW c \in 1 .. Len(reports),
         NEW n, n = reports[c].iterations, NEW m, m = reports[c].metrics
  PROVE  /\ n \in Nat \ {0} /\ m \in Metrics
         /\ m.destructors = 32 * n /\ m.captures = 96 * n
<1> USE DEF BasicEntry, CfiEntry, DeepEntry, ExtEntry, PluginEntry, StressEntry
<1>1. /\ m \in Metrics /\ n \in Nat \ {0}
      /\ \A account \in Ledgers(e) :
           Covers(account, Work(account, e, e, << n >>), Tally(account, m, 0))
  BY ReportSettled
<1>2. {"guards", "traces", "pending"} \subseteq Ledgers(e)
  BY DEF Accounts, Ledgers
<1>3. /\ Work("guards", e, e, << n >>) = Tally("guards", m, 0)
      /\ Work("traces", e, e, << n >>) = Tally("traces", m, 0)
  BY <1>1, <1>2 DEF Covers, Exact
<1>4. Work("guards", e, e, << n >>) = 32 * n /\ Work("traces", e, e, << n >>) = 64 * n
  <2>1. /\ Work("guards", e, e, << n >>) = Guards(e, e, << n >>)
        /\ Work("traces", e, e, << n >>) = PluginTraces(e, << n >>)
    BY AccountsOf
  <2> QED
    BY <2>1 DEF Guards, PluginGuards, PluginTraces
<1>5. m.destructors \in Nat /\ m.captures \in Nat
  BY <1>1 DEF Metrics
<1>6. Tally("guards", m, 0) = m.destructors /\ Tally("traces", m, 0) = m.captures - m.destructors
  BY <1>5 DEF Tally
<1>7. m.destructors = 32 * n /\ m.captures - m.destructors = 64 * n
  BY <1>3, <1>4, <1>6
<1>8. m.captures = 96 * n
  BY <1>1, <1>5, <1>7, PluginSum
<1> QED
  BY <1>1, <1>5, <1>7, <1>8

\* Each of the n + 2 rounds of the cfi suite and of the extended one destroys the same
\* number of guards and completes ten programs, whatever its seed makes it throw.
THEOREM EveryRoundAlike ==
  (\A s \in Suites : s.entry \in {CfiEntry, ExtEntry}) /\ RunsSuites /\ Spec => []RoundsAlike
<1> DEFINE J == \A s \in Suites : s.entry \in {CfiEntry, ExtEntry}
<1>1. J /\ [Next]_vars => J'
  OBVIOUS
<1>2. J /\ SuiteInv => RoundsAlike
  <2> SUFFICES ASSUME J, SuiteInv, NEW c \in 1 .. Len(reports)
               PROVE  /\ reports[c].metrics.destructors =
                           RoundWork[suite.entry] * (reports[c].iterations + 2)
                      /\ reports[c].metrics.events["programs"] =
                           10 * (reports[c].iterations + 2)
    BY DEF RoundsAlike
  <2>1. PICK e : e = suite.entry
    OBVIOUS
  <2>2. e \in {CfiEntry, ExtEntry}
    BY <2>1 DEF SuiteInv, IInv, TypeOK
  <2>3. RoundWork[e] = IF e = CfiEntry THEN 170 ELSE 176
    BY <2>2 DEF RoundWork, CfiEntry, ExtEntry
  <2> QED
    BY <2>1, <2>2, <2>3, CfiReport
<1> HIDE DEF J
<1>3. J /\ RunsSuites /\ Spec => []RoundsAlike
  BY <1>1, <1>2, SuitesHold, PTL DEF Spec
<1> QED
  BY <1>3 DEF J

\* So no unwinder passes the cfi suite for four iterations or more, nor the extended one
\* for three or more: finishResult asks for more destructors than the rounds run.
OutgrownFails ==
  \A c \in 1 .. Len(reports) :
    (\/ suite.entry = CfiEntry /\ reports[c].iterations >= 4
     \/ suite.entry = ExtEntry /\ reports[c].iterations >= 3)
      => Rc(reports[c]) # 0

\* In every run: 170 or 176 destructors a round are too few for the thresholds.
THEOREM OutgrownAlwaysFails == RunsSuites /\ Spec => []OutgrownFails
<1>1. SuiteInv => OutgrownFails
  <2> SUFFICES ASSUME SuiteInv, NEW c \in 1 .. Len(reports),
                      \/ suite.entry = CfiEntry /\ reports[c].iterations >= 4
                      \/ suite.entry = ExtEntry /\ reports[c].iterations >= 3
               PROVE  Rc(reports[c]) # 0
    BY DEF OutgrownFails
  <2>1. PICK e : e = suite.entry
    OBVIOUS
  <2> DEFINE n == reports[c].iterations
             m == reports[c].metrics
  <2>2. /\ e \in {CfiEntry, ExtEntry} /\ n \in Nat \ {0}
        /\ m.destructors = (IF e = CfiEntry THEN 170 ELSE 176) * (n + 2)
    BY <2>1, CfiReport
  <2>3. Rc(reports[c]) = SuiteVerdict(e, m, n, Strict)
    BY <2>1 DEF Rc, SuiteInv, RunsSuites, IInv, TypeOK
  <2>4. CfiEntry # ExtEntry
    BY DEF CfiEntry, ExtEntry
  <2>5. /\ e = CfiEntry => SuiteVerdict(e, m, n, Strict) = CfiVerdict(m, n, Strict)
        /\ e = ExtEntry => SuiteVerdict(e, m, n, Strict) = ExtVerdict(m, n, Strict)
    BY DEF SuiteVerdict, BasicEntry, CfiEntry, DeepEntry, ExtEntry, PluginEntry,
       StressEntry
  <2> HIDE DEF n, m
  <2>6. CASE e = CfiEntry
    BY <2>1, <2>2, <2>3, <2>4, <2>5, <2>6, WorkloadOutgrown, MachineAssumption DEF n
  <2>7. CASE e = ExtEntry
    BY <2>1, <2>2, <2>3, <2>4, <2>5, <2>7, WorkloadOutgrown, MachineAssumption DEF n
  <2> QED
    BY <2>2, <2>6, <2>7
<1> QED
  BY <1>1, SuitesHold, PTL

\* No suite passes a call in which a trace was shallow or, under strict checking, no
\* trace was its own: for the six suites, on every unwinder.
THEOREM SuitesNeverPassFalsely == RunsSuites /\ Spec => []NoFalsePass
<1>1. RunsSuites => VerdictJudgesTraces
  <2> SUFFICES ASSUME RunsSuites,
                      NEW s \in Suites, NEW m \in Metrics, NEW n \in Nat, NEW strict \in BOOLEAN,
                      m.minDepth < 5 \/ (strict /\ m.own = 0)
               PROVE  Verdict(s.entry, m, n, strict) # 0
    BY DEF VerdictJudgesTraces
  <2>1. PICK e : e = s.entry
    OBVIOUS
  <2>2. e \in SuiteEntries /\ Verdict(e, m, n, strict) = SuiteVerdict(e, m, n, strict)
    BY <2>1 DEF RunsSuites, SuiteEntries
  <2> QED
    BY <2>1, <2>2, SuitesJudgeTraces
       DEF SuiteVerdict, SuiteEntries, BasicEntry, CfiEntry, DeepEntry, ExtEntry, PluginEntry,
           StressEntry
<1> QED
  BY <1>1, NeverPassesFalsely

\* The basic and the plugin suite pass every sound call: for every number of iterations
\* and of calls in the process, a call none of whose walks was cut short meets all the
\* thresholds of finishResult, with as many exceptions as its seeds happen to throw.
THEOREM BasicAndPluginNeverAlarm ==
  (\A s \in Suites : s.entry \in {BasicEntry, PluginEntry}) /\ RoomForTraces
    /\ RunsSuites /\ Spec => []NoFalseAlarm
<1> DEFINE J == (\A s \in Suites : s.entry \in {BasicEntry, PluginEntry}) /\ RoomForTraces
<1>1. J /\ [Next]_vars => J'
  BY DEF RoomForTraces
<1>2. Init => WholeInv
  BY DEF Init, WholeInv
<1>3. J /\ SuiteInv /\ WholeInv /\ [Next]_vars => WholeInv'
  BY WholeStep DEF SuiteInv
<1>4. J /\ SuiteInv /\ WholeInv => NoFalseAlarm
  <2> SUFFICES ASSUME J, SuiteInv, WholeInv, NEW c \in 1 .. Len(reports), Sound(c)
               PROVE  Rc(reports[c]) = 0
    BY DEF NoFalseAlarm
  <2>1. PICK e : e = suite.entry
    OBVIOUS
  <2> DEFINE n == reports[c].iterations
             m == reports[c].metrics
  <2>2. e \in {BasicEntry, PluginEntry}
    BY <2>1 DEF SuiteInv, IInv, TypeOK
  <2>3. Rc(reports[c]) = SuiteVerdict(e, m, n, Strict)
    BY <2>1 DEF Rc, SuiteInv, RunsSuites, IInv, TypeOK
  <2>4. m \in Metrics /\ n \in Nat \ {0}
    BY <2>1, ReportSettled
  <2>5. /\ m.captures \in Nat /\ m.destructors \in Nat /\ m.minDepth \in Nat /\ m.shallow \in Nat
        /\ m.own \in Nat
    BY <2>4 DEF Metrics
  <2>6. TracesWhole(c, m) /\ m.captures >= m.destructors /\ ((m.minDepth < 5) <=> (m.shallow > 0))
    BY DEF WholeInv
  <2>7. m.minDepth >= 5 /\ m.shallow = 0 /\ (Strict => m.own = m.captures)
    <3>1. Whole(c, m) /\ (Strict => unwinder.named)
      BY DEF Sound, Whole
    <3> QED
      BY <2>5, <2>6, <3>1 DEF TracesWhole
  <2>8. ASSUME NEW shallow, NEW unnamed, m.captures > 0
        PROVE  TraceVerdict(m, Strict, shallow, unnamed) = 0
    BY <2>5, <2>7, <2>8 DEF TraceVerdict
  <2>9. CASE e = BasicEntry
    <3>1. /\ m.destructors = 192 * n /\ m.events["thrown"] \in Nat /\ m.events["caught"] \in Nat
          /\ m.events["thrown"] >= 16 * n /\ m.events["caught"] >= m.events["thrown"]
      BY <2>1, <2>9, BasicReport
    <3>2. SuiteVerdict(e, m, n, Strict) = BasicVerdict(m, n, Strict)
      BY <2>9 DEF SuiteVerdict, BasicEntry, CfiEntry, DeepEntry, ExtEntry, PluginEntry, StressEntry
    <3> HIDE DEF n, m
    <3>3. /\ m.captures > 0 /\ m.captures >= n * 48 * 4 /\ m.destructors >= n * 96
          /\ m.events["thrown"] >= n * 16 /\ m.events["caught"] >= n * 16
      BY <2>4, <2>5, <2>6, <3>1
    <3>4. ~FewExceptions(m, n * 16)
      BY <2>4, <3>1, <3>3 DEF FewExceptions
    <3>5. ~(m.captures < n * 48 * 4) /\ ~(m.destructors < n * 96)
      BY <2>4, <2>5, <3>3
    <3> QED
      BY <2>3, <2>8, <3>2, <3>3, <3>4, <3>5 DEF BasicVerdict, n, m
  <2>10. CASE e = PluginEntry
    <3>1. m.destructors = 32 * n /\ m.captures = 96 * n
      BY <2>1, <2>10, PluginReport
    <3>2. SuiteVerdict(e, m, n, Strict) = PluginVerdict(m, n, Strict)
      BY <2>10 DEF SuiteVerdict, BasicEntry, CfiEntry, DeepEntry, ExtEntry, PluginEntry, StressEntry
    <3> HIDE DEF n, m
    <3>3. m.captures > 0 /\ ~(m.captures < n * 96) /\ ~(m.destructors < n * 32)
      BY <2>4, <2>5, <3>1
    <3> QED
      BY <2>3, <2>8, <3>2, <3>3 DEF PluginVerdict, n, m
  <2> QED
    BY <2>2, <2>9, <2>10
<1> HIDE DEF J
<1>5. J /\ RunsSuites /\ Spec => []NoFalseAlarm
  BY <1>1, <1>2, <1>3, <1>4, SuitesHold, PTL DEF Spec
<1> QED
  BY <1>5 DEF J

-----------------------------------------------------------------------------

\* What the seeds make of calls for one, two and three iterations.  First the sums:
LEMMA FourMore ==
  ASSUME NEW n \in Nat, NEW f, NEW k \in Nat, k + 4 <= n, \A j \in 1 .. n : f[j] \in Int
  PROVE  Total(f, k + 4) = Total(f, k) + f[k + 1] + f[k + 2] + f[k + 3] + f[k + 4]
<1>1. ASSUME NEW j \in Nat, j + 1 <= n
      PROVE  Total(f, j + 1) = Total(f, j) + f[j + 1] /\ Total(f, j) \in Int /\ f[j + 1] \in Int
  <2>1. /\ \A i \in 1 .. j : f[i] \in Int
        /\ \A i \in 1 .. j + 1 : f[i] \in Int
    BY <1>1
  <2>2. Total(f, j) \in Int
    BY <2>1, TotalStep
  <2>3. Total(f, j + 1) = Total(f, (j + 1) - 1) + f[j + 1]
    BY <2>1, TotalStep
  <2> QED
    BY <2>1, <2>2, <2>3
<1>2. Total(f, k + 1) = Total(f, k) + f[k + 1] /\ Total(f, k) \in Int /\ f[k + 1] \in Int
  BY <1>1
<1>3. Total(f, k + 2) = Total(f, k + 1) + f[k + 2] /\ f[k + 2] \in Int
  <2>1. k + 1 \in Nat /\ (k + 1) + 1 <= n
    OBVIOUS
  <2> QED
    BY <1>1, <2>1
<1>4. Total(f, k + 3) = Total(f, k + 2) + f[k + 3] /\ f[k + 3] \in Int
  <2>1. k + 2 \in Nat /\ (k + 2) + 1 <= n
    OBVIOUS
  <2> QED
    BY <1>1, <2>1
<1>5. Total(f, k + 4) = Total(f, k + 3) + f[k + 4] /\ f[k + 4] \in Int
  <2>1. k + 3 \in Nat /\ (k + 3) + 1 <= n
    OBVIOUS
  <2> QED
    BY <1>1, <2>1
<1> QED
  BY <1>2, <1>3, <1>4, <1>5

\* four entries of a table,
Quad(f, i) == f[i] + f[i + 1] + f[i + 2] + f[i + 3]

\* and the totals of tables of numbers, as long as the programs' and the rounds'.
LEMMA Totals ==
  ASSUME NEW f, NEW n \in Nat, \A j \in 1 .. n : f[j] \in Int
  PROVE  /\ n = 3 => Total(f, n) = f[1] + f[2] + f[3]
         /\ n = 4 => Total(f, n) = Quad(f, 1)
         /\ n = 5 => Total(f, n) = Quad(f, 1) + f[5]
         /\ n = 8 => Total(f, n) = Quad(f, 1) + Quad(f, 5)
         /\ n = 10 => Total(f, n) = Quad(f, 1) + Quad(f, 5) + f[9] + f[10]
         /\ n = 12 => Total(f, n) = Quad(f, 1) + Quad(f, 5) + Quad(f, 9)
         /\ n = 16 => Total(f, n) = Quad(f, 1) + Quad(f, 5) + Quad(f, 9) + Quad(f, 13)
         /\ n = 20 => Total(f, n) = Quad(f, 1) + Quad(f, 5) + Quad(f, 9) + Quad(f, 13)
                                     + Quad(f, 17)
         /\ n = 24 => Total(f, n) = Quad(f, 1) + Quad(f, 5) + Quad(f, 9) + Quad(f, 13)
                                     + Quad(f, 17) + Quad(f, 21)
         /\ n = 32 => Total(f, n) = Quad(f, 1) + Quad(f, 5) + Quad(f, 9) + Quad(f, 13)
                                     + Quad(f, 17) + Quad(f, 21) + Quad(f, 25) + Quad(f, 29)
<1>1. Total(f, 0) = 0
  BY TotalStep
<1>2. ASSUME NEW k \in Nat, k + 1 <= n
      PROVE  Total(f, k + 1) = Total(f, k) + f[k + 1] /\ f[k + 1] \in Int
  <2>1. \A i \in 1 .. k + 1 : f[i] \in Int
    BY <1>2
  <2>2. Total(f, k + 1) = Total(f, (k + 1) - 1) + f[k + 1]
    BY <2>1, TotalStep
  <2> QED
    BY <1>2, <2>2
<1>3. ASSUME NEW k \in Nat, k + 4 <= n, Total(f, k) \in Int
      PROVE  /\ Total(f, k + 4) = Total(f, k) + Quad(f, k + 1)
             /\ Quad(f, k + 1) \in Int /\ Total(f, k + 4) \in Int
  <2>1. Total(f, k + 4) = Total(f, k) + f[k + 1] + f[k + 2] + f[k + 3] + f[k + 4]
    BY <1>3, FourMore
  <2>2. /\ f[k + 1] \in Int /\ f[k + 2] \in Int /\ f[k + 3] \in Int /\ f[k + 4] \in Int
        /\ (k + 1) + 1 = k + 2 /\ (k + 1) + 2 = k + 3 /\ (k + 1) + 3 = k + 4
    BY <1>3
  <2>3. Quad(f, k + 1) = f[k + 1] + f[k + 2] + f[k + 3] + f[k + 4]
    BY <2>2 DEF Quad
  <2> QED
    BY <1>3, <2>1, <2>2, <2>3
<1>4. n >= 4 => /\ Total(f, 4) = Quad(f, 1)
               /\ Total(f, 4) \in Int
  <2>1. n >= 4 => Total(f, 4) = Total(f, 0) + Quad(f, 1) /\ Quad(f, 1) \in Int
                   /\ Total(f, 4) \in Int
    BY <1>1, <1>3
  <2> QED
    BY <1>1, <2>1
<1>5. n >= 8 => /\ Total(f, 8) = Quad(f, 1) + Quad(f, 5)
               /\ Total(f, 8) \in Int
  <2>1. n >= 8 => Total(f, 8) = Total(f, 4) + Quad(f, 5) /\ Quad(f, 5) \in Int
                   /\ Total(f, 8) \in Int
    BY <1>1, <1>3, <1>4
  <2> QED
    BY <1>1, <2>1, <1>4
<1>6. n >= 12 => /\ Total(f, 12) = Quad(f, 1) + Quad(f, 5) + Quad(f, 9)
                /\ Total(f, 12) \in Int
  <2>1. n >= 12 => Total(f, 12) = Total(f, 8) + Quad(f, 9) /\ Quad(f, 9) \in Int
                   /\ Total(f, 12) \in Int
    BY <1>1, <1>3, <1>5
  <2> QED
    BY <1>1, <2>1, <1>5
<1>7. n >= 16 => /\ Total(f, 16) = Quad(f, 1) + Quad(f, 5) + Quad(f, 9) + Quad(f, 13)
                /\ Total(f, 16) \in Int
  <2>1. n >= 16 => Total(f, 16) = Total(f, 12) + Quad(f, 13) /\ Quad(f, 13) \in Int
                   /\ Total(f, 16) \in Int
    BY <1>1, <1>3, <1>6
  <2> QED
    BY <1>1, <2>1, <1>6
<1>8. n >= 20 => /\ Total(f, 20) = Quad(f, 1) + Quad(f, 5) + Quad(f, 9) + Quad(f, 13)
                              + Quad(f, 17)
                /\ Total(f, 20) \in Int
  <2>1. n >= 20 => Total(f, 20) = Total(f, 16) + Quad(f, 17) /\ Quad(f, 17) \in Int
                   /\ Total(f, 20) \in Int
    BY <1>1, <1>3, <1>7
  <2> QED
    BY <1>1, <2>1, <1>7
<1>9. n >= 24 => /\ Total(f, 24) = Quad(f, 1) + Quad(f, 5) + Quad(f, 9) + Quad(f, 13)
                              + Quad(f, 17) + Quad(f, 21)
                /\ Total(f, 24) \in Int
  <2>1. n >= 24 => Total(f, 24) = Total(f, 20) + Quad(f, 21) /\ Quad(f, 21) \in Int
                   /\ Total(f, 24) \in Int
    BY <1>1, <1>3, <1>8
  <2> QED
    BY <1>1, <2>1, <1>8
<1>10. n >= 28 => /\ Total(f, 28) = Quad(f, 1) + Quad(f, 5) + Quad(f, 9) + Quad(f, 13)
                              + Quad(f, 17) + Quad(f, 21) + Quad(f, 25)
                 /\ Total(f, 28) \in Int
  <2>1. n >= 28 => Total(f, 28) = Total(f, 24) + Quad(f, 25) /\ Quad(f, 25) \in Int
                   /\ Total(f, 28) \in Int
    BY <1>1, <1>3, <1>9
  <2> QED
    BY <1>1, <2>1, <1>9
<1>11. n >= 32 => /\ Total(f, 32) = Quad(f, 1) + Quad(f, 5) + Quad(f, 9) + Quad(f, 13)
                              + Quad(f, 17) + Quad(f, 21) + Quad(f, 25) + Quad(f, 29)
                 /\ Total(f, 32) \in Int
  <2>1. n >= 32 => Total(f, 32) = Total(f, 28) + Quad(f, 29) /\ Quad(f, 29) \in Int
                   /\ Total(f, 32) \in Int
    BY <1>1, <1>3, <1>10
  <2> QED
    BY <1>1, <2>1, <1>10
<1>12. n = 3 => Total(f, 3) = f[1] + f[2] + f[3]
  <2> SUFFICES ASSUME n = 3 PROVE Total(f, 3) = f[1] + f[2] + f[3]
    OBVIOUS
  <2>1. Total(f, 1) = Total(f, 0) + f[1] /\ f[1] \in Int
    BY <1>2
  <2>2. Total(f, 2) = Total(f, 1) + f[2]
    BY <1>2
  <2>3. Total(f, 3) = Total(f, 2) + f[3]
    BY <1>2
  <2> QED
    BY <1>1, <2>1, <2>2, <2>3
<1>13. n = 5 => Total(f, 5) = Quad(f, 1) + f[5]
  <2>1. n = 5 => Total(f, 5) = Total(f, 4) + f[5]
    BY <1>2
  <2> QED
    BY <1>4, <2>1
<1>14. n = 10 => Total(f, 10) = Quad(f, 1) + Quad(f, 5) + f[9] + f[10]
  <2>1. n = 10 => Total(f, 9) = Total(f, 8) + f[9]
    BY <1>2
  <2>2. n = 10 => Total(f, 10) = Total(f, 9) + f[10]
    BY <1>2
  <2> QED
    BY <1>5, <2>1, <2>2
<1> QED
  BY <1>4, <1>5, <1>6, <1>7, <1>8, <1>9, <1>11, <1>12, <1>13, <1>14

\* The programs that sweep: n turns on g, with the arguments of s,
IsSweep(e, fn, args, g, n, s) ==
  /\ fn \in Swept /\ n \in Nat /\ s = [j \in 1 .. n |-> s[j]]
  /\ \A j \in 1 .. n : s[j].op \in {"call", "try"} /\ s[j].fn = g
  /\ SuiteBody(e, fn, args, NoException) = s \o Finished

\* what the turns add,
AreTurns(f, m, g, n, s) ==
  \A j \in 1 .. n : f[j] \in Int /\ f[j] = CaseAmount(m, g, s[j].args)

\* and that they add all the program does.
LEMMA SweepAmount ==
  ASSUME NEW e, NEW m \in Seeded, NEW fn, NEW args, NEW g, NEW n, NEW s,
         IsSweep(e, fn, args, g, n, s)
  PROVE  \E f : ProgramAmount(m, e, fn, args) = Total(f, n) /\ AreTurns(f, m, g, n, s)
<1> USE DEF IsSweep
<1> DEFINE body == SuiteBody(e, fn, args, NoException)
           T == {s[j] : j \in 1 .. n}
           w == Len(body)
           f == [k \in 1 .. w |-> IF body[k].op = "count" THEN 0
                                  ELSE CaseAmount(m, body[k].fn, body[k].args)]
<1>1. s \in [1 .. n -> T]
  OBVIOUS
<1> HIDE DEF T
<1>2. s \in Seq(T) /\ Len(s) = n
  BY <1>1
<1>3. w = n + 1 /\ body[n + 1].op = "count" /\ \A j \in 1 .. n : body[j] = s[j]
  BY <1>2 DEF Finished, Count
<1>4. ProgramAmount(m, e, fn, args) = Total(f, w)
  BY DEF ProgramAmount
<1> HIDE DEF body, w
<1>5. \A j \in 1 .. n : f[j] = CaseAmount(m, g, s[j].args)
  BY <1>3
<1>6. f[n + 1] = 0
  BY <1>3
<1> HIDE DEF f
<1>7. \A j \in 1 .. n + 1 : f[j] \in Int
  <2>1. \A j \in 1 .. n : f[j] \in Int
    BY <1>5, AmountTyped
  <2> QED
    BY <1>6, <2>1
<1>8. Total(f, n + 1) = Total(f, (n + 1) - 1) + f[n + 1]
  <2>1. n + 1 \in Nat /\ n + 1 # 0
    OBVIOUS
  <2> QED
    BY <1>7, <2>1, TotalStep
<1>9. Total(f, n) \in Int
  BY <1>7, TotalStep
<1>10. Total(f, n + 1) = Total(f, n)
  BY <1>6, <1>8, <1>9
<1>11. AreTurns(f, m, g, n, s)
  BY <1>5, <1>7 DEF AreTurns
<1> QED
  BY <1>3, <1>4, <1>10, <1>11

\* Each turn of a case that always captures counts, whatever the seed.
LEMMA SweepWalks ==
  ASSUME NEW e, NEW fn, NEW args, NEW g, NEW n \in {8, 10, 12, 16, 20, 24, 32}, NEW s,
         IsSweep(e, fn, args, g, n, s)
  PROVE  ProgramAmount("walks", e, fn, args) = IF g \in Walked THEN 0 - n ELSE 0
<1>1. \A a : CaseAmount("walks", g, a) = IF g \in Walked THEN -1 ELSE 0
  BY DEF CaseAmount, Bit
<1>2. PICK f : ProgramAmount("walks", e, fn, args) = Total(f, n) /\ AreTurns(f, "walks", g, n, s)
  BY SweepAmount DEF Seeded
<1>3. \A j \in 1 .. n : f[j] \in Int /\ f[j] = IF g \in Walked THEN -1 ELSE 0
  BY <1>1, <1>2 DEF AreTurns
<1>4. \A i \in 1 .. n - 3 : Quad(f, i) = IF g \in Walked THEN -4 ELSE 0
  BY <1>3 DEF Quad
<1>5. CASE n \in {8, 10, 12, 16}
  BY <1>2, <1>3, <1>4, <1>5, Totals
<1>6. CASE n \in {20, 24, 32}
  BY <1>2, <1>3, <1>4, <1>6, Totals
<1> QED
  BY <1>5, <1>6

\* Four values of a table.
Four(h(_), i) == h(i) + h(i + 1) + h(i + 2) + h(i + 3)

\* What a turn of the linear blocks throws, by the seed of the program,
LinearHit(s, i) == Bit((s + 14 * i) % 16 = i % 4)
LinearHits(s) ==
  LET h(i) == LinearHit(s, i)
  IN  Four(h, 0) + Four(h, 4) + Four(h, 8) + Four(h, 12)

\* so its sums are these,
LEMMA LinearAmount ==
  ASSUME NEW e, e = CfiEntry, NEW s \in Int
  PROVE  /\ ProgramAmount("hits", e, "program01", << s >>) = LinearHits(s)
         /\ ProgramAmount("walks", e, "program01", << s >>) = -16
<1> DEFINE n == 16
           args == << s >>
           turns == Sweep("try", "linear_try", n, s, 13)
           turn(i) == << i, s + i * 13 >>
<1>1. SuiteBody(e, "program01", args, NoException) = turns \o Finished
  BY DEF SuiteBody, CfiBody, LinearBlocks, BasicEntry, CfiEntry, DeepEntry, ExtEntry,
     PluginEntry, StressEntry
<1>2. /\ n \in Nat /\ n = 16 /\ "program01" \in Swept /\ "hits" \in Seeded
      /\ "linear_try" \in Walked
  BY DEF Swept, Seeded, Walked
<1> HIDE DEF n, args, turns
<1>3. /\ IsSweep(e, "program01", args, "linear_try", n, turns)
      /\ \A j \in 1 .. n : turns[j].args = turn(j - 1)
  BY <1>1, <1>2 DEF turns, IsSweep, Sweep, Try
<1>4. ASSUME NEW i \in Int
      PROVE  /\ CaseAmount("hits", "linear_try", turn(i)) = LinearHit(s, i)
             /\ LinearHit(s, i) \in Int
  <2>1. CaseAmount("hits", "linear_try", turn(i)) = Bit(CfiHits("linear_try", turn(i)))
    BY DEF CaseAmount
  <2>2. (s + i * 13) + i = s + 14 * i
    OBVIOUS
  <2>3. CfiHits("linear_try", turn(i)) = ((s + 14 * i) % 16 = i % 4)
    BY <2>2 DEF CfiHits
  <2>4. LinearHit(s, i) \in Int
    BY DEF LinearHit, Bit
  <2> QED
    BY <2>1, <2>3, <2>4 DEF LinearHit
<1> HIDE DEF turn
<1>5. ASSUME NEW j \in 1 .. n
      PROVE  /\ CaseAmount("hits", "linear_try", turn(j - 1)) = LinearHit(s, j - 1)
             /\ LinearHit(s, j - 1) \in Int
  <2>1. j - 1 \in Int
    BY <1>2
  <2> QED
    BY <1>4, <2>1
<1>6. PICK f : /\ ProgramAmount("hits", e, "program01", args) = Total(f, n)
               /\ AreTurns(f, "hits", "linear_try", n, turns)
  BY <1>2, <1>3, SweepAmount
<1>7. \A j \in 1 .. n : /\ f[j] \in Int /\ f[j] = LinearHit(s, j - 1)
                        /\ LinearHit(s, j - 1) \in Int
  BY <1>3, <1>5, <1>6 DEF AreTurns
<1>8. Total(f, n) = Quad(f, 1) + Quad(f, 5) + Quad(f, 9) + Quad(f, 13)
  BY <1>2, <1>7, Totals
<1>9. ProgramAmount("hits", e, "program01", args) = LinearHits(s)
  BY <1>2, <1>6, <1>7, <1>8 DEF Quad, Four, LinearHits
<1>10. ProgramAmount("walks", e, "program01", args) = -16
  BY <1>2, <1>3, SweepWalks
<1> QED
  BY <1>9, <1>10 DEF args

\* a turn of the template clones,
TemplateHit(s, i) == Bit(XorLow(s + i * 7, i) % 17 = 5)
TemplateHits(s) ==
  LET h(i) == TemplateHit(s, i)
  IN  Four(h, 0) + Four(h, 4) + Four(h, 8) + Four(h, 12)

\* so its sums are these,
LEMMA TemplateAmount ==
  ASSUME NEW e, e = CfiEntry, NEW s \in Int
  PROVE  /\ ProgramAmount("hits", e, "program02", << s >>) = TemplateHits(s)
         /\ ProgramAmount("walks", e, "program02", << s >>) = 0
<1> DEFINE n == 16
           args == << s >>
           turns == Sweep("try", "template_try", n, s, 7)
           turn(i) == << i, s + i * 7 >>
<1>1. SuiteBody(e, "program02", args, NoException) = turns \o Finished
  BY DEF SuiteBody, CfiBody, TemplateClones, BasicEntry, CfiEntry, DeepEntry, ExtEntry,
     PluginEntry, StressEntry
<1>2. /\ n \in Nat /\ n = 16 /\ "program02" \in Swept /\ "hits" \in Seeded
      /\ "template_try" \notin Walked
  BY DEF Swept, Seeded, Walked
<1> HIDE DEF n, args, turns
<1>3. /\ IsSweep(e, "program02", args, "template_try", n, turns)
      /\ \A j \in 1 .. n : turns[j].args = turn(j - 1)
  BY <1>1, <1>2 DEF turns, IsSweep, Sweep, Try
<1>4. ASSUME NEW i \in Int
      PROVE  /\ CaseAmount("hits", "template_try", turn(i)) = TemplateHit(s, i)
             /\ TemplateHit(s, i) \in Int
  <2>1. CaseAmount("hits", "template_try", turn(i)) = Bit(CfiHits("template_try", turn(i)))
    BY DEF CaseAmount
  <2>2. i \in Int
    OBVIOUS
  <2>3. CfiHits("template_try", turn(i)) = (XorLow(s + i * 7, i) % 17 = 5)
    BY <2>2 DEF CfiHits
  <2>4. TemplateHit(s, i) \in Int
    BY DEF TemplateHit, Bit
  <2> QED
    BY <2>1, <2>3, <2>4 DEF TemplateHit
<1> HIDE DEF turn
<1>5. ASSUME NEW j \in 1 .. n
      PROVE  /\ CaseAmount("hits", "template_try", turn(j - 1)) = TemplateHit(s, j - 1)
             /\ TemplateHit(s, j - 1) \in Int
  <2>1. j - 1 \in Int
    BY <1>2
  <2> QED
    BY <1>4, <2>1
<1>6. PICK f : /\ ProgramAmount("hits", e, "program02", args) = Total(f, n)
               /\ AreTurns(f, "hits", "template_try", n, turns)
  BY <1>2, <1>3, SweepAmount
<1>7. \A j \in 1 .. n : /\ f[j] \in Int /\ f[j] = TemplateHit(s, j - 1)
                        /\ TemplateHit(s, j - 1) \in Int
  BY <1>3, <1>5, <1>6 DEF AreTurns
<1>8. Total(f, n) = Quad(f, 1) + Quad(f, 5) + Quad(f, 9) + Quad(f, 13)
  BY <1>2, <1>7, Totals
<1>9. ProgramAmount("hits", e, "program02", args) = TemplateHits(s)
  BY <1>2, <1>6, <1>7, <1>8 DEF Quad, Four, TemplateHits
<1>10. ProgramAmount("walks", e, "program02", args) = 0
  BY <1>2, <1>3, SweepWalks
<1> QED
  BY <1>9, <1>10 DEF args

\* of the rethrow towers,
TowerHit(s, i) == Bit((s + 12 * i + 8) % 8 = i % 2)
TowerHits(s) ==
  LET h(i) == TowerHit(s, i)
  IN  Four(h, 0) + Four(h, 4)

\* so its sums are these,
LEMMA TowerAmount ==
  ASSUME NEW e, e = CfiEntry, NEW s \in Int
  PROVE  /\ ProgramAmount("hits", e, "program03", << s >>) = TowerHits(s)
         /\ ProgramAmount("walks", e, "program03", << s >>) = 0
<1> DEFINE n == 8
           args == << s >>
           turns == Sweep("call", "towerRoot", n, s, 11)
           turn(i) == << i, s + i * 11 >>
<1>1. SuiteBody(e, "program03", args, NoException) = turns \o Finished
  BY DEF SuiteBody, CfiBody, RethrowTowers, BasicEntry, CfiEntry, DeepEntry, ExtEntry,
     PluginEntry, StressEntry
<1>2. /\ n \in Nat /\ n = 8 /\ "program03" \in Swept /\ "hits" \in Seeded
      /\ "towerRoot" \notin Walked
  BY DEF Swept, Seeded, Walked
<1> HIDE DEF n, args, turns
<1>3. /\ IsSweep(e, "program03", args, "towerRoot", n, turns)
      /\ \A j \in 1 .. n : turns[j].args = turn(j - 1)
  BY <1>1, <1>2 DEF turns, IsSweep, Sweep, Try
<1>4. ASSUME NEW i \in Int
      PROVE  /\ CaseAmount("hits", "towerRoot", turn(i)) = TowerHit(s, i)
             /\ TowerHit(s, i) \in Int
  <2>1. CaseAmount("hits", "towerRoot", turn(i)) = Bit(CfiHits("towerRoot", turn(i)))
    BY DEF CaseAmount
  <2>2. (s + i * 11) + 5 + 3 + i = s + 12 * i + 8
    OBVIOUS
  <2>3. CfiHits("towerRoot", turn(i)) = ((s + 12 * i + 8) % 8 = i % 2)
    BY <2>2 DEF CfiHits
  <2>4. TowerHit(s, i) \in Int
    BY DEF TowerHit, Bit
  <2> QED
    BY <2>1, <2>3, <2>4 DEF TowerHit
<1> HIDE DEF turn
<1>5. ASSUME NEW j \in 1 .. n
      PROVE  /\ CaseAmount("hits", "towerRoot", turn(j - 1)) = TowerHit(s, j - 1)
             /\ TowerHit(s, j - 1) \in Int
  <2>1. j - 1 \in Int
    BY <1>2
  <2> QED
    BY <1>4, <2>1
<1>6. PICK f : /\ ProgramAmount("hits", e, "program03", args) = Total(f, n)
               /\ AreTurns(f, "hits", "towerRoot", n, turns)
  BY <1>2, <1>3, SweepAmount
<1>7. \A j \in 1 .. n : /\ f[j] \in Int /\ f[j] = TowerHit(s, j - 1)
                        /\ TowerHit(s, j - 1) \in Int
  BY <1>3, <1>5, <1>6 DEF AreTurns
<1>8. Total(f, n) = Quad(f, 1) + Quad(f, 5)
  BY <1>2, <1>7, Totals
<1>9. ProgramAmount("hits", e, "program03", args) = TowerHits(s)
  BY <1>2, <1>6, <1>7, <1>8 DEF Quad, Four, TowerHits
<1>10. ProgramAmount("walks", e, "program03", args) = 0
  BY <1>2, <1>3, SweepWalks
<1> QED
  BY <1>9, <1>10 DEF args

\* of the virtual dispatch,
PolyHit(s, i) == Bit((s + 18 * i) % 19 = 7)
PolyHits(s) ==
  LET h(i) == PolyHit(s, i)
  IN  Four(h, 0) + Four(h, 4) + h(8) + h(9)

\* so its sums are these,
LEMMA PolyAmount ==
  ASSUME NEW e, e = CfiEntry, NEW s \in Int
  PROVE  /\ ProgramAmount("hits", e, "program04", << s >>) = PolyHits(s)
         /\ ProgramAmount("walks", e, "program04", << s >>) = 0
<1> DEFINE n == 10
           args == << s >>
           turns == Sweep("try", "poly_try", n, s, 17)
           turn(i) == << i, s + i * 17 >>
<1>1. SuiteBody(e, "program04", args, NoException) = turns \o Finished
  BY DEF SuiteBody, CfiBody, VirtualDispatch, BasicEntry, CfiEntry, DeepEntry, ExtEntry,
     PluginEntry, StressEntry
<1>2. /\ n \in Nat /\ n = 10 /\ "program04" \in Swept /\ "hits" \in Seeded
      /\ "poly_try" \notin Walked
  BY DEF Swept, Seeded, Walked
<1> HIDE DEF n, args, turns
<1>3. /\ IsSweep(e, "program04", args, "poly_try", n, turns)
      /\ \A j \in 1 .. n : turns[j].args = turn(j - 1)
  BY <1>1, <1>2 DEF turns, IsSweep, Sweep, Try
<1>4. ASSUME NEW i \in Int
      PROVE  /\ CaseAmount("hits", "poly_try", turn(i)) = PolyHit(s, i)
             /\ PolyHit(s, i) \in Int
  <2>1. CaseAmount("hits", "poly_try", turn(i)) = Bit(CfiHits("poly_try", turn(i)))
    BY DEF CaseAmount
  <2>2. (s + i * 17) + i = s + 18 * i
    OBVIOUS
  <2>3. CfiHits("poly_try", turn(i)) = ((s + 18 * i) % 19 = 7)
    BY <2>2 DEF CfiHits
  <2>4. PolyHit(s, i) \in Int
    BY DEF PolyHit, Bit
  <2> QED
    BY <2>1, <2>3, <2>4 DEF PolyHit
<1> HIDE DEF turn
<1>5. ASSUME NEW j \in 1 .. n
      PROVE  /\ CaseAmount("hits", "poly_try", turn(j - 1)) = PolyHit(s, j - 1)
             /\ PolyHit(s, j - 1) \in Int
  <2>1. j - 1 \in Int
    BY <1>2
  <2> QED
    BY <1>4, <2>1
<1>6. PICK f : /\ ProgramAmount("hits", e, "program04", args) = Total(f, n)
               /\ AreTurns(f, "hits", "poly_try", n, turns)
  BY <1>2, <1>3, SweepAmount
<1>7. \A j \in 1 .. n : /\ f[j] \in Int /\ f[j] = PolyHit(s, j - 1)
                        /\ PolyHit(s, j - 1) \in Int
  BY <1>3, <1>5, <1>6 DEF AreTurns
<1>8. Total(f, n) = Quad(f, 1) + Quad(f, 5) + f[9] + f[10]
  BY <1>2, <1>7, Totals
<1>9. ProgramAmount("hits", e, "program04", args) = PolyHits(s)
  BY <1>2, <1>6, <1>7, <1>8 DEF Quad, Four, PolyHits
<1>10. ProgramAmount("walks", e, "program04", args) = 0
  BY <1>2, <1>3, SweepWalks
<1> QED
  BY <1>9, <1>10 DEF args

\* of the table of function pointers,
TableHit(s, i) == Bit(((s + i) + ((s + i * 5) % 16)) % 23 = 9)
TableHits(s) ==
  LET h(i) == TableHit(s, i)
  IN  Four(h, 0) + Four(h, 4) + Four(h, 8) + Four(h, 12)
      + Four(h, 16) + Four(h, 20)

\* so its sums are these,
LEMMA TableAmount ==
  ASSUME NEW e, e = CfiEntry, NEW s \in Int
  PROVE  /\ ProgramAmount("hits", e, "program05", << s >>) = TableHits(s)
         /\ ProgramAmount("walks", e, "program05", << s >>) = -24
<1> DEFINE n == 24
           args == << s >>
           turns == [k \in 1 .. n |->
                      Try("table_try", << (s + (k - 1) * 5) % 16, s + k - 1 >>)]
           turn(i) == << (s + i * 5) % 16, s + i >>
<1>1. SuiteBody(e, "program05", args, NoException) = turns \o Finished
  BY DEF SuiteBody, CfiBody, FunctionPointerTable, BasicEntry, CfiEntry, DeepEntry, ExtEntry,
     PluginEntry, StressEntry
<1>2. /\ n \in Nat /\ n = 24 /\ "program05" \in Swept /\ "hits" \in Seeded
      /\ "table_try" \in Walked
  BY DEF Swept, Seeded, Walked
<1> HIDE DEF n, args, turns
<1>3. /\ IsSweep(e, "program05", args, "table_try", n, turns)
      /\ \A j \in 1 .. n : turns[j].args = turn(j - 1)
  BY <1>1, <1>2 DEF turns, IsSweep, Sweep, Try
<1>4. ASSUME NEW i \in Int
      PROVE  /\ CaseAmount("hits", "table_try", turn(i)) = TableHit(s, i)
             /\ TableHit(s, i) \in Int
  <2>1. CaseAmount("hits", "table_try", turn(i)) = Bit(CfiHits("table_try", turn(i)))
    BY DEF CaseAmount
  <2>2. i \in Int
    OBVIOUS
  <2>3. CfiHits("table_try", turn(i)) = (((s + i) + ((s + i * 5) % 16)) % 23 = 9)
    BY <2>2 DEF CfiHits
  <2>4. TableHit(s, i) \in Int
    BY DEF TableHit, Bit
  <2> QED
    BY <2>1, <2>3, <2>4 DEF TableHit
<1> HIDE DEF turn
<1>5. ASSUME NEW j \in 1 .. n
      PROVE  /\ CaseAmount("hits", "table_try", turn(j - 1)) = TableHit(s, j - 1)
             /\ TableHit(s, j - 1) \in Int
  <2>1. j - 1 \in Int
    BY <1>2
  <2> QED
    BY <1>4, <2>1
<1>6. PICK f : /\ ProgramAmount("hits", e, "program05", args) = Total(f, n)
               /\ AreTurns(f, "hits", "table_try", n, turns)
  BY <1>2, <1>3, SweepAmount
<1>7. \A j \in 1 .. n : /\ f[j] \in Int /\ f[j] = TableHit(s, j - 1)
                        /\ TableHit(s, j - 1) \in Int
  BY <1>3, <1>5, <1>6 DEF AreTurns
<1>8. Total(f, n) = Quad(f, 1) + Quad(f, 5) + Quad(f, 9) + Quad(f, 13)
                + Quad(f, 17) + Quad(f, 21)
  BY <1>2, <1>7, Totals
<1>9. ProgramAmount("hits", e, "program05", args) = TableHits(s)
  BY <1>2, <1>6, <1>7, <1>8 DEF Quad, Four, TableHits
<1>10. ProgramAmount("walks", e, "program05", args) = -24
  BY <1>2, <1>3, SweepWalks
<1> QED
  BY <1>9, <1>10 DEF args

\* of the container algorithms,
ContainerHit(s, i) == Bit((s + 20 * i) % 29 = 11)
ContainerHits(s) ==
  LET h(i) == ContainerHit(s, i)
  IN  Four(h, 0) + Four(h, 4) + Four(h, 8)

\* so its sums are these,
LEMMA ContainerAmount ==
  ASSUME NEW e, e = CfiEntry, NEW s \in Int
  PROVE  /\ ProgramAmount("hits", e, "program07", << s >>) = ContainerHits(s)
         /\ ProgramAmount("walks", e, "program07", << s >>) = 0
<1> DEFINE n == 12
           args == << s >>
           turns == Sweep("try", "container_try", n, s, 19)
           turn(i) == << i, s + i * 19 >>
<1>1. SuiteBody(e, "program07", args, NoException) = turns \o Finished
  BY DEF SuiteBody, CfiBody, ContainerAlgorithms, BasicEntry, CfiEntry, DeepEntry, ExtEntry,
     PluginEntry, StressEntry
<1>2. /\ n \in Nat /\ n = 12 /\ "program07" \in Swept /\ "hits" \in Seeded
      /\ "container_try" \notin Walked
  BY DEF Swept, Seeded, Walked
<1> HIDE DEF n, args, turns
<1>3. /\ IsSweep(e, "program07", args, "container_try", n, turns)
      /\ \A j \in 1 .. n : turns[j].args = turn(j - 1)
  BY <1>1, <1>2 DEF turns, IsSweep, Sweep, Try
<1>4. ASSUME NEW i \in Int
      PROVE  /\ CaseAmount("hits", "container_try", turn(i)) = ContainerHit(s, i)
             /\ ContainerHit(s, i) \in Int
  <2>1. CaseAmount("hits", "container_try", turn(i)) = Bit(CfiHits("container_try", turn(i)))
    BY DEF CaseAmount
  <2>2. (s + i * 19) + i = s + 20 * i
    OBVIOUS
  <2>3. CfiHits("container_try", turn(i)) = ((s + 20 * i) % 29 = 11)
    BY <2>2 DEF CfiHits
  <2>4. ContainerHit(s, i) \in Int
    BY DEF ContainerHit, Bit
  <2> QED
    BY <2>1, <2>3, <2>4 DEF ContainerHit
<1> HIDE DEF turn
<1>5. ASSUME NEW j \in 1 .. n
      PROVE  /\ CaseAmount("hits", "container_try", turn(j - 1)) = ContainerHit(s, j - 1)
             /\ ContainerHit(s, j - 1) \in Int
  <2>1. j - 1 \in Int
    BY <1>2
  <2> QED
    BY <1>4, <2>1
<1>6. PICK f : /\ ProgramAmount("hits", e, "program07", args) = Total(f, n)
               /\ AreTurns(f, "hits", "container_try", n, turns)
  BY <1>2, <1>3, SweepAmount
<1>7. \A j \in 1 .. n : /\ f[j] \in Int /\ f[j] = ContainerHit(s, j - 1)
                        /\ ContainerHit(s, j - 1) \in Int
  BY <1>3, <1>5, <1>6 DEF AreTurns
<1>8. Total(f, n) = Quad(f, 1) + Quad(f, 5) + Quad(f, 9)
  BY <1>2, <1>7, Totals
<1>9. ProgramAmount("hits", e, "program07", args) = ContainerHits(s)
  BY <1>2, <1>6, <1>7, <1>8 DEF Quad, Four, ContainerHits
<1>10. ProgramAmount("walks", e, "program07", args) = 0
  BY <1>2, <1>3, SweepWalks
<1> QED
  BY <1>9, <1>10 DEF args

\* of the cleanup storm,
CleanupHit(s, i) == Bit((s + 30 * i) % 8 = 3)
CleanupHits(s) ==
  LET h(i) == CleanupHit(s, i)
  IN  Four(h, 0) + Four(h, 4) + h(8) + h(9)

\* so its sums are these,
LEMMA CleanupAmount ==
  ASSUME NEW e, e = CfiEntry, NEW s \in Int
  PROVE  /\ ProgramAmount("hits", e, "program10", << s >>) = CleanupHits(s)
         /\ ProgramAmount("walks", e, "program10", << s >>) = 0
<1> DEFINE n == 10
           args == << s >>
           turns == Sweep("try", "cleanup_try", n, s, 29)
           turn(i) == << i, s + i * 29 >>
<1>1. SuiteBody(e, "program10", args, NoException) = turns \o Finished
  BY DEF SuiteBody, CfiBody, CleanupStorm, BasicEntry, CfiEntry, DeepEntry, ExtEntry,
     PluginEntry, StressEntry
<1>2. /\ n \in Nat /\ n = 10 /\ "program10" \in Swept /\ "hits" \in Seeded
      /\ "cleanup_try" \notin Walked
  BY DEF Swept, Seeded, Walked
<1> HIDE DEF n, args, turns
<1>3. /\ IsSweep(e, "program10", args, "cleanup_try", n, turns)
      /\ \A j \in 1 .. n : turns[j].args = turn(j - 1)
  BY <1>1, <1>2 DEF turns, IsSweep, Sweep, Try
<1>4. ASSUME NEW i \in Int
      PROVE  /\ CaseAmount("hits", "cleanup_try", turn(i)) = CleanupHit(s, i)
             /\ CleanupHit(s, i) \in Int
  <2>1. CaseAmount("hits", "cleanup_try", turn(i)) = Bit(CfiHits("cleanup_try", turn(i)))
    BY DEF CaseAmount
  <2>2. (s + i * 29) + i = s + 30 * i
    OBVIOUS
  <2>3. CfiHits("cleanup_try", turn(i)) = ((s + 30 * i) % 8 = 3)
    BY <2>2 DEF CfiHits
  <2>4. CleanupHit(s, i) \in Int
    BY DEF CleanupHit, Bit
  <2> QED
    BY <2>1, <2>3, <2>4 DEF CleanupHit
<1> HIDE DEF turn
<1>5. ASSUME NEW j \in 1 .. n
      PROVE  /\ CaseAmount("hits", "cleanup_try", turn(j - 1)) = CleanupHit(s, j - 1)
             /\ CleanupHit(s, j - 1) \in Int
  <2>1. j - 1 \in Int
    BY <1>2
  <2> QED
    BY <1>4, <2>1
<1>6. PICK f : /\ ProgramAmount("hits", e, "program10", args) = Total(f, n)
               /\ AreTurns(f, "hits", "cleanup_try", n, turns)
  BY <1>2, <1>3, SweepAmount
<1>7. \A j \in 1 .. n : /\ f[j] \in Int /\ f[j] = CleanupHit(s, j - 1)
                        /\ CleanupHit(s, j - 1) \in Int
  BY <1>3, <1>5, <1>6 DEF AreTurns
<1>8. Total(f, n) = Quad(f, 1) + Quad(f, 5) + f[9] + f[10]
  BY <1>2, <1>7, Totals
<1>9. ProgramAmount("hits", e, "program10", args) = CleanupHits(s)
  BY <1>2, <1>6, <1>7, <1>8 DEF Quad, Four, CleanupHits
<1>10. ProgramAmount("walks", e, "program10", args) = 0
  BY <1>2, <1>3, SweepWalks
<1> QED
  BY <1>9, <1>10 DEF args

\* of the wide cases of the extended suite,
WideHit(s, i) == Bit((s + 14 * i) % 11 = i % 3)
WideHits(s) ==
  LET h(i) == WideHit(s, i)
  IN  Four(h, 0) + Four(h, 4) + Four(h, 8) + Four(h, 12)
      + Four(h, 16)

\* so its sums are these,
LEMMA WideAmount ==
  ASSUME NEW e, e = ExtEntry, NEW s \in Int
  PROVE  /\ ProgramAmount("throws", e, "program11", << s >>) = 0 - WideHits(s)
         /\ ProgramAmount("walks", e, "program11", << s >>) = -20
<1> DEFINE n == 20
           args == << s >>
           turns == Sweep("try", "wide_try", n, s, 13)
           turn(i) == << i, s + i * 13 >>
<1>1. SuiteBody(e, "program11", args, NoException) = turns \o Finished
  BY DEF SuiteBody, ExtBody, WideRegisterPressure, BasicEntry, CfiEntry, DeepEntry, ExtEntry,
     PluginEntry, StressEntry
<1>2. /\ n \in Nat /\ n = 20 /\ "program11" \in Swept /\ "throws" \in Seeded
      /\ "wide_try" \in Walked
  BY DEF Swept, Seeded, Walked
<1> HIDE DEF n, args, turns
<1>3. /\ IsSweep(e, "program11", args, "wide_try", n, turns)
      /\ \A j \in 1 .. n : turns[j].args = turn(j - 1)
  BY <1>1, <1>2 DEF turns, IsSweep, Sweep, Try
<1>4. ASSUME NEW i \in Int
      PROVE  /\ CaseAmount("throws", "wide_try", turn(i)) = 0 - WideHit(s, i)
             /\ WideHit(s, i) \in Int
  <2>1. CaseAmount("throws", "wide_try", turn(i)) = 0 - Bit(ExtHits("wide_try", turn(i)))
    BY DEF CaseAmount
  <2>2. (s + i * 13) + i = s + 14 * i
    OBVIOUS
  <2>3. ExtHits("wide_try", turn(i)) = ((s + 14 * i) % 11 = i % 3)
    BY <2>2 DEF ExtHits
  <2>4. WideHit(s, i) \in Int
    BY DEF WideHit, Bit
  <2> QED
    BY <2>1, <2>3, <2>4 DEF WideHit
<1> HIDE DEF turn
<1>5. ASSUME NEW j \in 1 .. n
      PROVE  /\ CaseAmount("throws", "wide_try", turn(j - 1)) = 0 - WideHit(s, j - 1)
             /\ WideHit(s, j - 1) \in Int
  <2>1. j - 1 \in Int
    BY <1>2
  <2> QED
    BY <1>4, <2>1
<1>6. PICK f : /\ ProgramAmount("throws", e, "program11", args) = Total(f, n)
               /\ AreTurns(f, "throws", "wide_try", n, turns)
  BY <1>2, <1>3, SweepAmount
<1>7. \A j \in 1 .. n : /\ f[j] \in Int /\ f[j] = 0 - WideHit(s, j - 1)
                        /\ WideHit(s, j - 1) \in Int
  BY <1>3, <1>5, <1>6 DEF AreTurns
<1>8. Total(f, n) = Quad(f, 1) + Quad(f, 5) + Quad(f, 9) + Quad(f, 13)
                + Quad(f, 17)
  BY <1>2, <1>7, Totals
<1>9. ProgramAmount("throws", e, "program11", args) = 0 - WideHits(s)
  BY <1>2, <1>6, <1>7, <1>8 DEF Quad, Four, WideHits
<1>10. ProgramAmount("walks", e, "program11", args) = -20
  BY <1>2, <1>3, SweepWalks
<1> QED
  BY <1>9, <1>10 DEF args

\* of its member pointers,
MemberHit(s, i) == Bit((s + 18 * i) % 13 = 4)
MemberHits(s) ==
  LET h(i) == MemberHit(s, i)
  IN  Four(h, 0) + Four(h, 4) + Four(h, 8)

\* so its sums are these,
LEMMA MemberAmount ==
  ASSUME NEW e, e = ExtEntry, NEW s \in Int
  PROVE  /\ ProgramAmount("throws", e, "program12", << s >>) = 0 - MemberHits(s)
         /\ ProgramAmount("walks", e, "program12", << s >>) = -12
<1> DEFINE n == 12
           args == << s >>
           turns == Sweep("try", "member_try", n, s, 17)
           turn(i) == << i, s + i * 17 >>
<1>1. SuiteBody(e, "program12", args, NoException) = turns \o Finished
  BY DEF SuiteBody, ExtBody, MemberPointers, BasicEntry, CfiEntry, DeepEntry, ExtEntry,
     PluginEntry, StressEntry
<1>2. /\ n \in Nat /\ n = 12 /\ "program12" \in Swept /\ "throws" \in Seeded
      /\ "member_try" \in Walked
  BY DEF Swept, Seeded, Walked
<1> HIDE DEF n, args, turns
<1>3. /\ IsSweep(e, "program12", args, "member_try", n, turns)
      /\ \A j \in 1 .. n : turns[j].args = turn(j - 1)
  BY <1>1, <1>2 DEF turns, IsSweep, Sweep, Try
<1>4. ASSUME NEW i \in Int
      PROVE  /\ CaseAmount("throws", "member_try", turn(i)) = 0 - MemberHit(s, i)
             /\ MemberHit(s, i) \in Int
  <2>1. CaseAmount("throws", "member_try", turn(i)) = 0 - Bit(ExtHits("member_try", turn(i)))
    BY DEF CaseAmount
  <2>2. (s + i * 17) + i = s + 18 * i
    OBVIOUS
  <2>3. ExtHits("member_try", turn(i)) = ((s + 18 * i) % 13 = 4)
    BY <2>2 DEF ExtHits
  <2>4. MemberHit(s, i) \in Int
    BY DEF MemberHit, Bit
  <2> QED
    BY <2>1, <2>3, <2>4 DEF MemberHit
<1> HIDE DEF turn
<1>5. ASSUME NEW j \in 1 .. n
      PROVE  /\ CaseAmount("throws", "member_try", turn(j - 1)) = 0 - MemberHit(s, j - 1)
             /\ MemberHit(s, j - 1) \in Int
  <2>1. j - 1 \in Int
    BY <1>2
  <2> QED
    BY <1>4, <2>1
<1>6. PICK f : /\ ProgramAmount("throws", e, "program12", args) = Total(f, n)
               /\ AreTurns(f, "throws", "member_try", n, turns)
  BY <1>2, <1>3, SweepAmount
<1>7. \A j \in 1 .. n : /\ f[j] \in Int /\ f[j] = 0 - MemberHit(s, j - 1)
                        /\ MemberHit(s, j - 1) \in Int
  BY <1>3, <1>5, <1>6 DEF AreTurns
<1>8. Total(f, n) = Quad(f, 1) + Quad(f, 5) + Quad(f, 9)
  BY <1>2, <1>7, Totals
<1>9. ProgramAmount("throws", e, "program12", args) = 0 - MemberHits(s)
  BY <1>2, <1>6, <1>7, <1>8 DEF Quad, Four, MemberHits
<1>10. ProgramAmount("walks", e, "program12", args) = -12
  BY <1>2, <1>3, SweepWalks
<1> QED
  BY <1>9, <1>10 DEF args

\* of its tuples,
TupleHit(s, i) == Bit((s + 24 * i) % 17 = 8)
TupleHits(s) ==
  LET h(i) == TupleHit(s, i)
  IN  Four(h, 0) + Four(h, 4) + h(8) + h(9)

\* so its sums are these,
LEMMA TupleAmount ==
  ASSUME NEW e, e = ExtEntry, NEW s \in Int
  PROVE  /\ ProgramAmount("throws", e, "program14", << s >>) = 0 - TupleHits(s)
         /\ ProgramAmount("walks", e, "program14", << s >>) = -10
<1> DEFINE n == 10
           args == << s >>
           turns == Sweep("try", "tuple_try", n, s, 23)
           turn(i) == << i, s + i * 23 >>
<1>1. SuiteBody(e, "program14", args, NoException) = turns \o Finished
  BY DEF SuiteBody, ExtBody, TupleApply, BasicEntry, CfiEntry, DeepEntry, ExtEntry,
     PluginEntry, StressEntry
<1>2. /\ n \in Nat /\ n = 10 /\ "program14" \in Swept /\ "throws" \in Seeded
      /\ "tuple_try" \in Walked
  BY DEF Swept, Seeded, Walked
<1> HIDE DEF n, args, turns
<1>3. /\ IsSweep(e, "program14", args, "tuple_try", n, turns)
      /\ \A j \in 1 .. n : turns[j].args = turn(j - 1)
  BY <1>1, <1>2 DEF turns, IsSweep, Sweep, Try
<1>4. ASSUME NEW i \in Int
      PROVE  /\ CaseAmount("throws", "tuple_try", turn(i)) = 0 - TupleHit(s, i)
             /\ TupleHit(s, i) \in Int
  <2>1. CaseAmount("throws", "tuple_try", turn(i)) = 0 - Bit(ExtHits("tuple_try", turn(i)))
    BY DEF CaseAmount
  <2>2. (s + i * 23) + i = s + 24 * i
    OBVIOUS
  <2>3. ExtHits("tuple_try", turn(i)) = ((s + 24 * i) % 17 = 8)
    BY <2>2 DEF ExtHits
  <2>4. TupleHit(s, i) \in Int
    BY DEF TupleHit, Bit
  <2> QED
    BY <2>1, <2>3, <2>4 DEF TupleHit
<1> HIDE DEF turn
<1>5. ASSUME NEW j \in 1 .. n
      PROVE  /\ CaseAmount("throws", "tuple_try", turn(j - 1)) = 0 - TupleHit(s, j - 1)
             /\ TupleHit(s, j - 1) \in Int
  <2>1. j - 1 \in Int
    BY <1>2
  <2> QED
    BY <1>4, <2>1
<1>6. PICK f : /\ ProgramAmount("throws", e, "program14", args) = Total(f, n)
               /\ AreTurns(f, "throws", "tuple_try", n, turns)
  BY <1>2, <1>3, SweepAmount
<1>7. \A j \in 1 .. n : /\ f[j] \in Int /\ f[j] = 0 - TupleHit(s, j - 1)
                        /\ TupleHit(s, j - 1) \in Int
  BY <1>3, <1>5, <1>6 DEF AreTurns
<1>8. Total(f, n) = Quad(f, 1) + Quad(f, 5) + f[9] + f[10]
  BY <1>2, <1>7, Totals
<1>9. ProgramAmount("throws", e, "program14", args) = 0 - TupleHits(s)
  BY <1>2, <1>6, <1>7, <1>8 DEF Quad, Four, TupleHits
<1>10. ProgramAmount("walks", e, "program14", args) = -10
  BY <1>2, <1>3, SweepWalks
<1> QED
  BY <1>9, <1>10 DEF args

\* of its deques,
DequeHit(s, i) == Bit((s + 30 * i) % 19 = 6)
DequeHits(s) ==
  LET h(i) == DequeHit(s, i)
  IN  Four(h, 0) + Four(h, 4)

\* so its sums are these,
LEMMA DequeAmount ==
  ASSUME NEW e, e = ExtEntry, NEW s \in Int
  PROVE  /\ ProgramAmount("throws", e, "program15", << s >>) = 0 - DequeHits(s)
         /\ ProgramAmount("walks", e, "program15", << s >>) = -8
<1> DEFINE n == 8
           args == << s >>
           turns == Sweep("try", "deque_try", n, s, 29)
           turn(i) == << i, s + i * 29 >>
<1>1. SuiteBody(e, "program15", args, NoException) = turns \o Finished
  BY DEF SuiteBody, ExtBody, DequeVectorChurn, BasicEntry, CfiEntry, DeepEntry, ExtEntry,
     PluginEntry, StressEntry
<1>2. /\ n \in Nat /\ n = 8 /\ "program15" \in Swept /\ "throws" \in Seeded
      /\ "deque_try" \in Walked
  BY DEF Swept, Seeded, Walked
<1> HIDE DEF n, args, turns
<1>3. /\ IsSweep(e, "program15", args, "deque_try", n, turns)
      /\ \A j \in 1 .. n : turns[j].args = turn(j - 1)
  BY <1>1, <1>2 DEF turns, IsSweep, Sweep, Try
<1>4. ASSUME NEW i \in Int
      PROVE  /\ CaseAmount("throws", "deque_try", turn(i)) = 0 - DequeHit(s, i)
             /\ DequeHit(s, i) \in Int
  <2>1. CaseAmount("throws", "deque_try", turn(i)) = 0 - Bit(ExtHits("deque_try", turn(i)))
    BY DEF CaseAmount
  <2>2. (s + i * 29) + i = s + 30 * i
    OBVIOUS
  <2>3. ExtHits("deque_try", turn(i)) = ((s + 30 * i) % 19 = 6)
    BY <2>2 DEF ExtHits
  <2>4. DequeHit(s, i) \in Int
    BY DEF DequeHit, Bit
  <2> QED
    BY <2>1, <2>3, <2>4 DEF DequeHit
<1> HIDE DEF turn
<1>5. ASSUME NEW j \in 1 .. n
      PROVE  /\ CaseAmount("throws", "deque_try", turn(j - 1)) = 0 - DequeHit(s, j - 1)
             /\ DequeHit(s, j - 1) \in Int
  <2>1. j - 1 \in Int
    BY <1>2
  <2> QED
    BY <1>4, <2>1
<1>6. PICK f : /\ ProgramAmount("throws", e, "program15", args) = Total(f, n)
               /\ AreTurns(f, "throws", "deque_try", n, turns)
  BY <1>2, <1>3, SweepAmount
<1>7. \A j \in 1 .. n : /\ f[j] \in Int /\ f[j] = 0 - DequeHit(s, j - 1)
                        /\ DequeHit(s, j - 1) \in Int
  BY <1>3, <1>5, <1>6 DEF AreTurns
<1>8. Total(f, n) = Quad(f, 1) + Quad(f, 5)
  BY <1>2, <1>7, Totals
<1>9. ProgramAmount("throws", e, "program15", args) = 0 - DequeHits(s)
  BY <1>2, <1>6, <1>7, <1>8 DEF Quad, Four, DequeHits
<1>10. ProgramAmount("walks", e, "program15", args) = -8
  BY <1>2, <1>3, SweepWalks
<1> QED
  BY <1>9, <1>10 DEF args

\* of its heap paths,
HeapHit(s, i) == Bit((s + 32 * i) % 23 = 10)
HeapHits(s) ==
  LET h(i) == HeapHit(s, i)
  IN  Four(h, 0) + Four(h, 4)

\* so its sums are these,
LEMMA HeapAmount ==
  ASSUME NEW e, e = ExtEntry, NEW s \in Int
  PROVE  /\ ProgramAmount("throws", e, "program18", << s >>) = 0 - HeapHits(s)
         /\ ProgramAmount("walks", e, "program18", << s >>) = -8
<1> DEFINE n == 8
           args == << s >>
           turns == Sweep("try", "heap_try", n, s, 31)
           turn(i) == << i, s + i * 31 >>
<1>1. SuiteBody(e, "program18", args, NoException) = turns \o Finished
  BY DEF SuiteBody, ExtBody, OptionalHeapPaths, BasicEntry, CfiEntry, DeepEntry, ExtEntry,
     PluginEntry, StressEntry
<1>2. /\ n \in Nat /\ n = 8 /\ "program18" \in Swept /\ "throws" \in Seeded
      /\ "heap_try" \in Walked
  BY DEF Swept, Seeded, Walked
<1> HIDE DEF n, args, turns
<1>3. /\ IsSweep(e, "program18", args, "heap_try", n, turns)
      /\ \A j \in 1 .. n : turns[j].args = turn(j - 1)
  BY <1>1, <1>2 DEF turns, IsSweep, Sweep, Try
<1>4. ASSUME NEW i \in Int
      PROVE  /\ CaseAmount("throws", "heap_try", turn(i)) = 0 - HeapHit(s, i)
             /\ HeapHit(s, i) \in Int
  <2>1. CaseAmount("throws", "heap_try", turn(i)) = 0 - Bit(ExtHits("heap_try", turn(i)))
    BY DEF CaseAmount
  <2>2. (s + i * 31) + i = s + 32 * i
    OBVIOUS
  <2>3. ExtHits("heap_try", turn(i)) = ((s + 32 * i) % 23 = 10)
    BY <2>2 DEF ExtHits
  <2>4. HeapHit(s, i) \in Int
    BY DEF HeapHit, Bit
  <2> QED
    BY <2>1, <2>3, <2>4 DEF HeapHit
<1> HIDE DEF turn
<1>5. ASSUME NEW j \in 1 .. n
      PROVE  /\ CaseAmount("throws", "heap_try", turn(j - 1)) = 0 - HeapHit(s, j - 1)
             /\ HeapHit(s, j - 1) \in Int
  <2>1. j - 1 \in Int
    BY <1>2
  <2> QED
    BY <1>4, <2>1
<1>6. PICK f : /\ ProgramAmount("throws", e, "program18", args) = Total(f, n)
               /\ AreTurns(f, "throws", "heap_try", n, turns)
  BY <1>2, <1>3, SweepAmount
<1>7. \A j \in 1 .. n : /\ f[j] \in Int /\ f[j] = 0 - HeapHit(s, j - 1)
                        /\ HeapHit(s, j - 1) \in Int
  BY <1>3, <1>5, <1>6 DEF AreTurns
<1>8. Total(f, n) = Quad(f, 1) + Quad(f, 5)
  BY <1>2, <1>7, Totals
<1>9. ProgramAmount("throws", e, "program18", args) = 0 - HeapHits(s)
  BY <1>2, <1>6, <1>7, <1>8 DEF Quad, Four, HeapHits
<1>10. ProgramAmount("walks", e, "program18", args) = -8
  BY <1>2, <1>3, SweepWalks
<1> QED
  BY <1>9, <1>10 DEF args

\* and of its callbacks,
CallbackHit(s, i) == Bit(((s + i) + ((s + i * 7) % 12)) % 29 = 12)
CallbackHits(s) ==
  LET h(i) == CallbackHit(s, i)
  IN  Four(h, 0) + Four(h, 4) + Four(h, 8) + Four(h, 12)
      + Four(h, 16) + Four(h, 20) + Four(h, 24) + Four(h, 28)

\* so its sums are these,
LEMMA CallbackAmount ==
  ASSUME NEW e, e = ExtEntry, NEW s \in Int
  PROVE  /\ ProgramAmount("throws", e, "program19", << s >>) = 0 - CallbackHits(s)
         /\ ProgramAmount("walks", e, "program19", << s >>) = -32
<1> DEFINE n == 32
           args == << s >>
           turns == [k \in 1 .. n |->
                      Try("callback_try", << (s + (k - 1) * 7) % 12, s + k - 1 >>)]
           turn(i) == << (s + i * 7) % 12, s + i >>
<1>1. SuiteBody(e, "program19", args, NoException) = turns \o Finished
  BY DEF SuiteBody, ExtBody, CallbackMesh, BasicEntry, CfiEntry, DeepEntry, ExtEntry,
     PluginEntry, StressEntry
<1>2. /\ n \in Nat /\ n = 32 /\ "program19" \in Swept /\ "throws" \in Seeded
      /\ "callback_try" \in Walked
  BY DEF Swept, Seeded, Walked
<1> HIDE DEF n, args, turns
<1>3. /\ IsSweep(e, "program19", args, "callback_try", n, turns)
      /\ \A j \in 1 .. n : turns[j].args = turn(j - 1)
  BY <1>1, <1>2 DEF turns, IsSweep, Sweep, Try
<1>4. ASSUME NEW i \in Int
      PROVE  /\ CaseAmount("throws", "callback_try", turn(i)) = 0 - CallbackHit(s, i)
             /\ CallbackHit(s, i) \in Int
  <2>1. CaseAmount("throws", "callback_try", turn(i)) = 0 - Bit(ExtHits("callback_try", turn(i)))
    BY DEF CaseAmount
  <2>2. i \in Int
    OBVIOUS
  <2>3. ExtHits("callback_try", turn(i)) = (((s + i) + ((s + i * 7) % 12)) % 29 = 12)
    BY <2>2 DEF ExtHits
  <2>4. CallbackHit(s, i) \in Int
    BY DEF CallbackHit, Bit
  <2> QED
    BY <2>1, <2>3, <2>4 DEF CallbackHit
<1> HIDE DEF turn
<1>5. ASSUME NEW j \in 1 .. n
      PROVE  /\ CaseAmount("throws", "callback_try", turn(j - 1)) = 0 - CallbackHit(s, j - 1)
             /\ CallbackHit(s, j - 1) \in Int
  <2>1. j - 1 \in Int
    BY <1>2
  <2> QED
    BY <1>4, <2>1
<1>6. PICK f : /\ ProgramAmount("throws", e, "program19", args) = Total(f, n)
               /\ AreTurns(f, "throws", "callback_try", n, turns)
  BY <1>2, <1>3, SweepAmount
<1>7. \A j \in 1 .. n : /\ f[j] \in Int /\ f[j] = 0 - CallbackHit(s, j - 1)
                        /\ CallbackHit(s, j - 1) \in Int
  BY <1>3, <1>5, <1>6 DEF AreTurns
<1>8. Total(f, n) = Quad(f, 1) + Quad(f, 5) + Quad(f, 9) + Quad(f, 13)
                + Quad(f, 17) + Quad(f, 21) + Quad(f, 25) + Quad(f, 29)
  BY <1>2, <1>7, Totals
<1>9. ProgramAmount("throws", e, "program19", args) = 0 - CallbackHits(s)
  <2> DEFINE h(i) == CallbackHit(s, i)
  <2>1. ASSUME NEW i \in {0, 4, 8, 12, 16, 20, 24, 28}
        PROVE  Quad(f, i + 1) = 0 - Four(h, i) /\ Four(h, i) \in Int
    BY <1>2, <1>7 DEF Quad, Four
  <2>2. /\ Quad(f, 1) = 0 - Four(h, 0) /\ Quad(f, 5) = 0 - Four(h, 4)
        /\ Quad(f, 9) = 0 - Four(h, 8) /\ Quad(f, 13) = 0 - Four(h, 12)
        /\ Quad(f, 17) = 0 - Four(h, 16) /\ Quad(f, 21) = 0 - Four(h, 20)
        /\ Quad(f, 25) = 0 - Four(h, 24) /\ Quad(f, 29) = 0 - Four(h, 28)
    BY <2>1
  <2>3. CallbackHits(s) = Four(h, 0) + Four(h, 4) + Four(h, 8) + Four(h, 12)
                          + Four(h, 16) + Four(h, 20) + Four(h, 24) + Four(h, 28)
    BY DEF CallbackHits
  <2> QED
    BY <1>6, <1>8, <2>1, <2>2, <2>3
<1>10. ProgramAmount("walks", e, "program19", args) = -32
  BY <1>2, <1>3, SweepWalks
<1> QED
  BY <1>9, <1>10 DEF args

\* The linear blocks throw these in the rounds of one, two and three iterations,
LEMMA LinearValues ==
  /\ LinearHits(18) = 0 /\ LinearHits(275) = 2 /\ LinearHits(532) = 0 /\ LinearHits(35) = 2
  /\ LinearHits(292) = 0 /\ LinearHits(549) = 0 /\ LinearHits(806) = 2 /\ LinearHits(52) = 0
  /\ LinearHits(309) = 0 /\ LinearHits(566) = 2 /\ LinearHits(823) = 0 /\ LinearHits(1080) = 2
BY DEF LinearHits, LinearHit, Four, Bit

\* the template clones these,
LEMMA TemplateValues ==
  /\ TemplateHits(19) = 2 /\ TemplateHits(276) = 1 /\ TemplateHits(533) = 1
  /\ TemplateHits(36) = 0 /\ TemplateHits(293) = 0 /\ TemplateHits(550) = 1
  /\ TemplateHits(807) = 2 /\ TemplateHits(53) = 1 /\ TemplateHits(310) = 1
  /\ TemplateHits(567) = 1 /\ TemplateHits(824) = 0 /\ TemplateHits(1081) = 1
<1>1. TemplateHits(19) = 2 /\ TemplateHits(276) = 1
  BY DEF TemplateHits, TemplateHit, Four, Bit, XorLow
<1>2. TemplateHits(533) = 1 /\ TemplateHits(36) = 0
  BY DEF TemplateHits, TemplateHit, Four, Bit, XorLow
<1>3. TemplateHits(293) = 0 /\ TemplateHits(550) = 1
  BY DEF TemplateHits, TemplateHit, Four, Bit, XorLow
<1>4. TemplateHits(807) = 2 /\ TemplateHits(53) = 1
  BY DEF TemplateHits, TemplateHit, Four, Bit, XorLow
<1>5. TemplateHits(310) = 1 /\ TemplateHits(567) = 1
  BY DEF TemplateHits, TemplateHit, Four, Bit, XorLow
<1>6. TemplateHits(824) = 0 /\ TemplateHits(1081) = 1
  BY DEF TemplateHits, TemplateHit, Four, Bit, XorLow
<1> QED
  BY <1>1, <1>2, <1>3, <1>4, <1>5, <1>6

\* the rethrow towers these,
LEMMA TowerValues ==
  /\ TowerHits(20) = 0 /\ TowerHits(277) = 4 /\ TowerHits(534) = 0 /\ TowerHits(37) = 4
  /\ TowerHits(294) = 0 /\ TowerHits(551) = 0 /\ TowerHits(808) = 4 /\ TowerHits(54) = 0
  /\ TowerHits(311) = 0 /\ TowerHits(568) = 4 /\ TowerHits(825) = 0 /\ TowerHits(1082) = 0
BY DEF TowerHits, TowerHit, Four, Bit

\* the virtual dispatch these,
LEMMA PolyValues ==
  /\ PolyHits(21) = 0 /\ PolyHits(278) = 1 /\ PolyHits(535) = 0 /\ PolyHits(38) = 0
  /\ PolyHits(295) = 1 /\ PolyHits(552) = 0 /\ PolyHits(809) = 1 /\ PolyHits(55) = 0
  /\ PolyHits(312) = 1 /\ PolyHits(569) = 0 /\ PolyHits(826) = 1 /\ PolyHits(1083) = 0
BY DEF PolyHits, PolyHit, Four, Bit

\* the table of function pointers these,
LEMMA TableValues ==
  /\ TableHits(22) = 1 /\ TableHits(279) = 1 /\ TableHits(536) = 0 /\ TableHits(39) = 0
  /\ TableHits(296) = 1 /\ TableHits(553) = 1 /\ TableHits(810) = 0 /\ TableHits(56) = 2
  /\ TableHits(313) = 0 /\ TableHits(570) = 2 /\ TableHits(827) = 0 /\ TableHits(1084) = 0
BY DEF TableHits, TableHit, Four, Bit

\* the container algorithms these,
LEMMA ContainerValues ==
  /\ ContainerHits(24) = 0 /\ ContainerHits(281) = 1 /\ ContainerHits(538) = 1
  /\ ContainerHits(41) = 0 /\ ContainerHits(298) = 0 /\ ContainerHits(555) = 0
  /\ ContainerHits(812) = 1 /\ ContainerHits(58) = 1 /\ ContainerHits(315) = 1
  /\ ContainerHits(572) = 0 /\ ContainerHits(829) = 0 /\ ContainerHits(1086) = 0
BY DEF ContainerHits, ContainerHit, Four, Bit

\* and the cleanup storm these;
LEMMA CleanupValues ==
  /\ CleanupHits(27) = 3 /\ CleanupHits(284) = 0 /\ CleanupHits(541) = 3 /\ CleanupHits(44) = 0
  /\ CleanupHits(301) = 3 /\ CleanupHits(558) = 0 /\ CleanupHits(815) = 2 /\ CleanupHits(61) = 3
  /\ CleanupHits(318) = 0 /\ CleanupHits(575) = 2 /\ CleanupHits(832) = 0
  /\ CleanupHits(1089) = 2
BY DEF CleanupHits, CleanupHit, Four, Bit

\* in the rounds of one and two iterations of the extended suite the wide cases these,
LEMMA WideValues ==
  /\ WideHits(30) = 2 /\ WideHits(343) = 3 /\ WideHits(656) = 1 /\ WideHits(49) = 0
  /\ WideHits(362) = 2 /\ WideHits(675) = 3 /\ WideHits(988) = 2
BY DEF WideHits, WideHit, Four, Bit

\* the member pointers these,
LEMMA MemberValues ==
  /\ MemberHits(31) = 1 /\ MemberHits(344) = 1 /\ MemberHits(657) = 1 /\ MemberHits(50) = 1
  /\ MemberHits(363) = 1 /\ MemberHits(676) = 1 /\ MemberHits(989) = 1
BY DEF MemberHits, MemberHit, Four, Bit

\* the tuples these,
LEMMA TupleValues ==
  /\ TupleHits(33) = 0 /\ TupleHits(346) = 0 /\ TupleHits(659) = 1 /\ TupleHits(52) = 1
  /\ TupleHits(365) = 1 /\ TupleHits(678) = 0 /\ TupleHits(991) = 0
BY DEF TupleHits, TupleHit, Four, Bit

\* the deques these,
LEMMA DequeValues ==
  /\ DequeHits(34) = 0 /\ DequeHits(347) = 1 /\ DequeHits(660) = 1 /\ DequeHits(53) = 0
  /\ DequeHits(366) = 1 /\ DequeHits(679) = 1 /\ DequeHits(992) = 0
BY DEF DequeHits, DequeHit, Four, Bit

\* the heap paths these,
LEMMA HeapValues ==
  /\ HeapHits(37) = 0 /\ HeapHits(350) = 0 /\ HeapHits(663) = 0 /\ HeapHits(56) = 1
  /\ HeapHits(369) = 1 /\ HeapHits(682) = 1 /\ HeapHits(995) = 1
BY DEF HeapHits, HeapHit, Four, Bit

\* and the callbacks these.
LEMMA CallbackValues ==
  /\ CallbackHits(38) = 0 /\ CallbackHits(351) = 0 /\ CallbackHits(664) = 0
  /\ CallbackHits(57) = 4 /\ CallbackHits(370) = 0 /\ CallbackHits(683) = 0
  /\ CallbackHits(996) = 0
BY DEF CallbackHits, CallbackHit, Four, Bit

\* What a round of the cfi suite throws, by its seed,
CfiRoundHits(s) ==
  LinearHits(s + 1) + TemplateHits(s + 2) + TowerHits(s + 3) + PolyHits(s + 4)
  + TableHits(s + 5) + Bit((s + 180) % 4 = 0) + ContainerHits(s + 7) + CleanupHits(s + 10)

\* so that its amounts are these,
LEMMA CfiRoundAmount ==
  ASSUME NEW e, e = CfiEntry, NEW s \in Int
  PROVE  /\ RoundAmount("hits", e, << s >>) = CfiRoundHits(s)
         /\ RoundAmount("walks", e, << s >>) = -40
<1> DEFINE args == << s >>
           body == SuiteBody(e, "runAllPrograms", args, NoException)
           n == Len(body)
           f(m) == [k \in 1 .. n |-> ProgramAmount(m, e, body[k].fn, body[k].args)]
<1>1. body = RunAllPrograms(s)
  BY DEF SuiteBody, CfiBody, BasicEntry, CfiEntry, DeepEntry, ExtEntry, PluginEntry, StressEntry
<1> HIDE DEF body
<1>2. /\ n \in Nat /\ n = 10
      /\ \A k \in 1 .. n : body[k].fn = Programs[k] /\ body[k].args = << s + k >>
  BY <1>1 DEF RunAllPrograms, Call
<1>3. \A m : RoundAmount(m, e, args) = Total(f(m), n)
  BY DEF RoundAmount, body
<1> HIDE DEF n
<1>4. \A m : \A k \in 1 .. n : f(m)[k] = ProgramAmount(m, e, Programs[k], << s + k >>)
  BY <1>2
<1> HIDE DEF f
<1>5. ASSUME NEW m \in {"hits", "walks"}
      PROVE  /\ RoundAmount(m, e, args) =
                  Quad(f(m), 1) + Quad(f(m), 5) + f(m)[9] + f(m)[10]
             /\ \A k \in 1 .. n : f(m)[k] \in Int
  <2>1. \A k \in 1 .. 10 : Programs[k] \in CfiRuns \cup {"program06", "program09"}
    BY DEF Programs, CfiRuns
  <2>2. \A fn \in CfiRuns \cup {"program06", "program09"} : \A a : ProgramAmount(m, e, fn, a) \in Int
    BY CfiAmounts DEF Seeded
  <2>3. ASSUME NEW k \in 1 .. n PROVE f(m)[k] \in Int
    <3>1. Programs[k] \in CfiRuns \cup {"program06", "program09"}
      BY <1>2, <2>1
    <3>2. f(m)[k] = ProgramAmount(m, e, Programs[k], << s + k >>)
      BY <1>4
    <3> QED
      BY <2>2, <3>1, <3>2
  <2> QED
    BY <1>2, <1>3, <2>3, Totals
<1>6. ASSUME NEW fn \in {"program06", "program08", "program09"}, NEW x \in Int
      PROVE  /\ ProgramAmount("hits", e, fn, << x >>) =
                  IF fn = "program06" THEN Bit((x + 174) % 4 = 0) ELSE 0
             /\ ProgramAmount("walks", e, fn, << x >>) = 0
  <2> DEFINE a == << x >>
  <2>1. \A m : ProgramAmount(m, e, fn, a) = CaseAmount(m, fn, a)
    BY <1>6 DEF ProgramAmount, Swept
  <2>2. CaseAmount("walks", fn, a) = 0 - Bit(fn \in Walked)
    BY DEF CaseAmount
  <2>3. CaseAmount("hits", fn, a) = Bit(CfiHits(fn, a))
    BY DEF CaseAmount
  <2>4. Bit(fn \in Walked) = 0
    BY <1>6 DEF Walked, Bit
  <2>5. fn # "program06" => Bit(CfiHits(fn, a)) = 0
    BY <1>6 DEF CfiHits, Bit
  <2>6. fn = "program06" => CfiHits(fn, a) = ((x + 174) % 4 = 0)
    <3>1. x + 3 + 171 = x + 174
      OBVIOUS
    <3> QED
      BY <3>1 DEF CfiHits
  <2> HIDE DEF a
  <2>7. ProgramAmount("hits", e, fn, a) = IF fn = "program06" THEN Bit((x + 174) % 4 = 0) ELSE 0
    BY <2>1, <2>3, <2>5, <2>6
  <2>8. ProgramAmount("walks", e, fn, a) = 0
    BY <2>1, <2>2, <2>4
  <2> QED
    BY <2>7, <2>8 DEF a
<1>7. /\ Programs[1] = "program01" /\ Programs[2] = "program02" /\ Programs[3] = "program03"
      /\ Programs[4] = "program04" /\ Programs[5] = "program05" /\ Programs[6] = "program06"
      /\ Programs[7] = "program07" /\ Programs[8] = "program08" /\ Programs[9] = "program09"
      /\ Programs[10] = "program10"
  BY DEF Programs
<1>8. RoundAmount("hits", e, args) = CfiRoundHits(s)
  <2> DEFINE h == f("hits")
  <2>1. /\ h[1] = LinearHits(s + 1) /\ h[2] = TemplateHits(s + 2)
        /\ h[3] = TowerHits(s + 3) /\ h[4] = PolyHits(s + 4)
    BY <1>2, <1>4, <1>7, LinearAmount, TemplateAmount, TowerAmount, PolyAmount
  <2>2. /\ h[5] = TableHits(s + 5) /\ h[7] = ContainerHits(s + 7) /\ h[10] = CleanupHits(s + 10)
    BY <1>2, <1>4, <1>7, TableAmount, ContainerAmount, CleanupAmount
  <2>3. h[8] = 0 /\ h[9] = 0
    BY <1>2, <1>4, <1>6, <1>7
  <2>4. h[6] = Bit((s + 180) % 4 = 0)
    <3>1. s + 6 \in Int /\ (s + 6) + 174 = s + 180
      OBVIOUS
    <3>2. ProgramAmount("hits", e, "program06", << s + 6 >>) = Bit(((s + 6) + 174) % 4 = 0)
      BY <1>6, <3>1
    <3>3. h[6] = ProgramAmount("hits", e, "program06", << s + 6 >>)
      BY <1>2, <1>4, <1>7
    <3> QED
      BY <3>1, <3>2, <3>3
  <2>5. RoundAmount("hits", e, args) = Quad(h, 1) + Quad(h, 5) + h[9] + h[10]
    BY <1>5
  <2>6. \A k \in 1 .. 10 : h[k] \in Int
    BY <1>2, <1>5
  <2> HIDE DEF h
  <2> QED
    BY <2>1, <2>2, <2>3, <2>4, <2>5, <2>6 DEF CfiRoundHits, Quad
<1>9. RoundAmount("walks", e, args) = -40
  <2> DEFINE h == f("walks")
  <2>1. h[1] = -16 /\ h[2] = 0 /\ h[3] = 0 /\ h[4] = 0
    BY <1>2, <1>4, <1>7, LinearAmount, TemplateAmount, TowerAmount, PolyAmount
  <2>2. h[5] = -24 /\ h[7] = 0 /\ h[10] = 0
    BY <1>2, <1>4, <1>7, TableAmount, ContainerAmount, CleanupAmount
  <2>3. h[6] = 0 /\ h[8] = 0 /\ h[9] = 0
    BY <1>2, <1>4, <1>6, <1>7
  <2>4. RoundAmount("walks", e, args) = Quad(h, 1) + Quad(h, 5) + h[9] + h[10]
    BY <1>5
  <2> HIDE DEF h
  <2> QED
    BY <2>1, <2>2, <2>3, <2>4 DEF Quad
<1> QED
  BY <1>8, <1>9 DEF args

\* which gives these for the rounds of one, two and three iterations.
LEMMA CfiRoundValues ==
  /\ CfiRoundHits(17) = 6 /\ CfiRoundHits(274) = 10 /\ CfiRoundHits(531) = 5
  /\ CfiRoundHits(34) = 6 /\ CfiRoundHits(291) = 5 /\ CfiRoundHits(548) = 3
  /\ CfiRoundHits(805) = 12 /\ CfiRoundHits(51) = 7 /\ CfiRoundHits(308) = 4
  /\ CfiRoundHits(565) = 11 /\ CfiRoundHits(822) = 1 /\ CfiRoundHits(1079) = 5
<1>1. CfiRoundHits(17) = 6
  BY LinearValues, TemplateValues, TowerValues, PolyValues, TableValues, ContainerValues,
     CleanupValues DEF CfiRoundHits, Bit
<1>2. CfiRoundHits(274) = 10
  BY LinearValues, TemplateValues, TowerValues, PolyValues, TableValues, ContainerValues,
     CleanupValues DEF CfiRoundHits, Bit
<1>3. CfiRoundHits(531) = 5
  BY LinearValues, TemplateValues, TowerValues, PolyValues, TableValues, ContainerValues,
     CleanupValues DEF CfiRoundHits, Bit
<1>4. CfiRoundHits(34) = 6
  BY LinearValues, TemplateValues, TowerValues, PolyValues, TableValues, ContainerValues,
     CleanupValues DEF CfiRoundHits, Bit
<1>5. CfiRoundHits(291) = 5
  BY LinearValues, TemplateValues, TowerValues, PolyValues, TableValues, ContainerValues,
     CleanupValues DEF CfiRoundHits, Bit
<1>6. CfiRoundHits(548) = 3
  BY LinearValues, TemplateValues, TowerValues, PolyValues, TableValues, ContainerValues,
     CleanupValues DEF CfiRoundHits, Bit
<1>7. CfiRoundHits(805) = 12
  BY LinearValues, TemplateValues, TowerValues, PolyValues, TableValues, ContainerValues,
     CleanupValues DEF CfiRoundHits, Bit
<1>8. CfiRoundHits(51) = 7
  BY LinearValues, TemplateValues, TowerValues, PolyValues, TableValues, ContainerValues,
     CleanupValues DEF CfiRoundHits, Bit
<1>9. CfiRoundHits(308) = 4
  BY LinearValues, TemplateValues, TowerValues, PolyValues, TableValues, ContainerValues,
     CleanupValues DEF CfiRoundHits, Bit
<1>10. CfiRoundHits(565) = 11
  BY LinearValues, TemplateValues, TowerValues, PolyValues, TableValues, ContainerValues,
     CleanupValues DEF CfiRoundHits, Bit
<1>11. CfiRoundHits(822) = 1
  BY LinearValues, TemplateValues, TowerValues, PolyValues, TableValues, ContainerValues,
     CleanupValues DEF CfiRoundHits, Bit
<1>12. CfiRoundHits(1079) = 5
  BY LinearValues, TemplateValues, TowerValues, PolyValues, TableValues, ContainerValues,
     CleanupValues DEF CfiRoundHits, Bit
<1> QED
  BY <1>1, <1>2, <1>3, <1>4, <1>5, <1>6, <1>7, <1>8, <1>9, <1>10, <1>11, <1>12

\* What a round of the extended suite throws in the programs that sweep, by its seed,
ExtRoundHits(s) ==
  WideHits(s + 11) + MemberHits(s + 12) + TupleHits(s + 14) + DequeHits(s + 15)
  + HeapHits(s + 18) + CallbackHits(s + 19)

\* so that its amounts are these,
LEMMA ExtRoundAmount ==
  ASSUME NEW e, e = ExtEntry, NEW s \in Int
  PROVE  /\ RoundAmount("throws", e, << s >>) = 0 - ExtRoundHits(s)
         /\ RoundAmount("walks", e, << s >>) = -90
<1> DEFINE args == << s >>
           body == SuiteBody(e, "runAllPrograms", args, NoException)
           n == Len(body)
           f(m) == [k \in 1 .. n |-> ProgramAmount(m, e, body[k].fn, body[k].args)]
<1>1. body = RunAllExtPrograms(s)
  BY DEF SuiteBody, ExtBody, BasicEntry, CfiEntry, DeepEntry, ExtEntry, PluginEntry, StressEntry
<1> HIDE DEF body
<1>2. /\ n \in Nat /\ n = 10
      /\ \A k \in 1 .. n : body[k].fn = ExtPrograms[k] /\ body[k].args = << s + 10 + k >>
  BY <1>1 DEF RunAllExtPrograms, Call
<1>3. \A m : RoundAmount(m, e, args) = Total(f(m), n)
  BY DEF RoundAmount, body
<1> HIDE DEF n
<1>4. \A m : \A k \in 1 .. n : f(m)[k] = ProgramAmount(m, e, ExtPrograms[k], << s + 10 + k >>)
  BY <1>2
<1> HIDE DEF f
<1>5. ASSUME NEW m \in {"throws", "walks"}
      PROVE  /\ RoundAmount(m, e, args) =
                  Quad(f(m), 1) + Quad(f(m), 5) + f(m)[9] + f(m)[10]
             /\ \A k \in 1 .. n : f(m)[k] \in Int
  <2>1. \A k \in 1 .. 10 : ExtPrograms[k] \in ExtRuns \cup {"program16", "program17"}
    BY DEF ExtPrograms, ExtRuns
  <2>2. \A fn \in ExtRuns \cup {"program16", "program17"} : \A a : ProgramAmount(m, e, fn, a) \in Int
    BY ExtAmounts DEF Seeded
  <2>3. ASSUME NEW k \in 1 .. n PROVE f(m)[k] \in Int
    <3>1. ExtPrograms[k] \in ExtRuns \cup {"program16", "program17"}
      BY <1>2, <2>1
    <3>2. f(m)[k] = ProgramAmount(m, e, ExtPrograms[k], << s + 10 + k >>)
      BY <1>4
    <3> QED
      BY <2>2, <3>1, <3>2
  <2> QED
    BY <1>2, <1>3, <2>3, Totals
<1>6. ASSUME NEW fn \in {"program13", "program16", "program17", "program20"}, NEW a
      PROVE  ProgramAmount("throws", e, fn, a) = 0 /\ ProgramAmount("walks", e, fn, a) = 0
  <2>1. \A m : ProgramAmount(m, e, fn, a) = CaseAmount(m, fn, a)
    BY <1>6 DEF ProgramAmount, Swept
  <2>2. /\ CaseAmount("walks", fn, a) = 0 - Bit(fn \in Walked)
        /\ CaseAmount("throws", fn, a) = 0 - Bit(ExtHits(fn, a))
    <3>1. CaseAmount("walks", fn, a) = 0 - Bit(fn \in Walked)
      BY DEF CaseAmount
    <3>2. CaseAmount("throws", fn, a) = 0 - Bit(ExtHits(fn, a))
      BY DEF CaseAmount
    <3> QED
      BY <3>1, <3>2
  <2>3. Bit(fn \in Walked) = 0
    BY <1>6 DEF Walked, Bit
  <2>4. Bit(ExtHits(fn, a)) = 0
    BY <1>6 DEF ExtHits, Bit
  <2> QED
    BY <2>1, <2>2, <2>3, <2>4
<1>7. /\ ExtPrograms[1] = "program11" /\ ExtPrograms[2] = "program12" /\ ExtPrograms[3] = "program13"
      /\ ExtPrograms[4] = "program14" /\ ExtPrograms[5] = "program15" /\ ExtPrograms[6] = "program16"
      /\ ExtPrograms[7] = "program17" /\ ExtPrograms[8] = "program18" /\ ExtPrograms[9] = "program19"
      /\ ExtPrograms[10] = "program20"
  BY DEF ExtPrograms
<1>8. \A m : /\ f(m)[1] = ProgramAmount(m, e, "program11", << s + 11 >>)
             /\ f(m)[2] = ProgramAmount(m, e, "program12", << s + 12 >>)
             /\ f(m)[4] = ProgramAmount(m, e, "program14", << s + 14 >>)
             /\ f(m)[5] = ProgramAmount(m, e, "program15", << s + 15 >>)
             /\ f(m)[8] = ProgramAmount(m, e, "program18", << s + 18 >>)
             /\ f(m)[9] = ProgramAmount(m, e, "program19", << s + 19 >>)
  <2>1. /\ s + 10 + 1 = s + 11 /\ s + 10 + 2 = s + 12 /\ s + 10 + 4 = s + 14
        /\ s + 10 + 5 = s + 15 /\ s + 10 + 8 = s + 18 /\ s + 10 + 9 = s + 19
    OBVIOUS
  <2> QED
    BY <1>2, <1>4, <1>7, <2>1
<1>9. \A m \in {"throws", "walks"} :
        f(m)[3] = 0 /\ f(m)[6] = 0 /\ f(m)[7] = 0 /\ f(m)[10] = 0
  BY <1>2, <1>4, <1>6, <1>7
<1>10. RoundAmount("throws", e, args) = 0 - ExtRoundHits(s)
  <2> DEFINE h == f("throws")
  <2>1. h[1] = 0 - WideHits(s + 11) /\ h[2] = 0 - MemberHits(s + 12) /\ h[4] = 0 - TupleHits(s + 14)
    BY <1>8, WideAmount, MemberAmount, TupleAmount
  <2>2. h[5] = 0 - DequeHits(s + 15) /\ h[8] = 0 - HeapHits(s + 18) /\ h[9] = 0 - CallbackHits(s + 19)
    BY <1>8, DequeAmount, HeapAmount, CallbackAmount
  <2>3. h[3] = 0 /\ h[6] = 0 /\ h[7] = 0 /\ h[10] = 0
    BY <1>9
  <2>4. RoundAmount("throws", e, args) = Quad(h, 1) + Quad(h, 5) + h[9] + h[10]
    BY <1>5
  <2>5. /\ WideHits(s + 11) \in Int /\ MemberHits(s + 12) \in Int /\ TupleHits(s + 14) \in Int
        /\ DequeHits(s + 15) \in Int /\ HeapHits(s + 18) \in Int /\ CallbackHits(s + 19) \in Int
    BY DEF WideHits, MemberHits, TupleHits, DequeHits, HeapHits, CallbackHits, Four, WideHit, MemberHit, TupleHit, DequeHit, HeapHit, CallbackHit, Bit
  <2> HIDE DEF h
  <2> QED
    BY <2>1, <2>2, <2>3, <2>4, <2>5 DEF ExtRoundHits, Quad
<1>11. RoundAmount("walks", e, args) = -90
  <2> DEFINE h == f("walks")
  <2>1. h[1] = -20 /\ h[2] = -12 /\ h[4] = -10
    BY <1>8, WideAmount, MemberAmount, TupleAmount
  <2>2. h[5] = -8 /\ h[8] = -8 /\ h[9] = -32
    BY <1>8, DequeAmount, HeapAmount, CallbackAmount
  <2>3. h[3] = 0 /\ h[6] = 0 /\ h[7] = 0 /\ h[10] = 0
    BY <1>9
  <2>4. RoundAmount("walks", e, args) = Quad(h, 1) + Quad(h, 5) + h[9] + h[10]
    BY <1>5
  <2> HIDE DEF h
  <2> QED
    BY <2>1, <2>2, <2>3, <2>4 DEF Quad
<1> QED
  BY <1>10, <1>11 DEF args

\* which gives these for the rounds of one and two iterations.
LEMMA ExtRoundValues ==
  /\ ExtRoundHits(19) = 3 /\ ExtRoundHits(332) = 5 /\ ExtRoundHits(645) = 4
  /\ ExtRoundHits(38) = 7 /\ ExtRoundHits(351) = 6 /\ ExtRoundHits(664) = 6
  /\ ExtRoundHits(977) = 4
<1>1. ExtRoundHits(19) = 3
  BY WideValues, MemberValues, TupleValues, DequeValues, HeapValues, CallbackValues
     DEF ExtRoundHits
<1>2. ExtRoundHits(332) = 5
  BY WideValues, MemberValues, TupleValues, DequeValues, HeapValues, CallbackValues
     DEF ExtRoundHits
<1>3. ExtRoundHits(645) = 4
  BY WideValues, MemberValues, TupleValues, DequeValues, HeapValues, CallbackValues
     DEF ExtRoundHits
<1>4. ExtRoundHits(38) = 7
  BY WideValues, MemberValues, TupleValues, DequeValues, HeapValues, CallbackValues
     DEF ExtRoundHits
<1>5. ExtRoundHits(351) = 6
  BY WideValues, MemberValues, TupleValues, DequeValues, HeapValues, CallbackValues
     DEF ExtRoundHits
<1>6. ExtRoundHits(664) = 6
  BY WideValues, MemberValues, TupleValues, DequeValues, HeapValues, CallbackValues
     DEF ExtRoundHits
<1>7. ExtRoundHits(977) = 4
  BY WideValues, MemberValues, TupleValues, DequeValues, HeapValues, CallbackValues
     DEF ExtRoundHits
<1> QED
  BY <1>1, <1>2, <1>3, <1>4, <1>5, <1>6, <1>7

\* What calls of the cfi suite for one, two and three iterations come to:
\* exceptions, and captures outside destructors.
LEMMA CfiWork ==
  ASSUME NEW e, e = CfiEntry
  PROVE  /\ SeededWork("hits", e, e, << 1 >>) = 21
         /\ SeededWork("hits", e, e, << 2 >>) = 26
         /\ SeededWork("hits", e, e, << 3 >>) = 28
         /\ \A n \in {1, 2, 3} : SeededWork("walks", e, e, << n >>) = -40 * (n + 2)
<1>1. ASSUME NEW n \in {1, 2, 3}, NEW m \in {"hits", "walks"}
      PROVE  \E f : /\ SeededWork(m, e, e, << n >>) = Total(f, n + 2)
                    /\ \A k \in 1 .. n + 2 :
                         f[k] \in Int /\ f[k] = RoundAmount(m, e, << (k - 1) * 257 + n * 17 >>)
  <2> DEFINE args == << n >>
             rounds == SuiteBody(e, e, args, NoException)
             w == Len(rounds)
             f == [k \in 1 .. w |-> RoundAmount(m, e, rounds[k].args)]
  <2>1. rounds = CfiRounds(n)
    BY DEF SuiteBody, CfiBody, BasicEntry, CfiEntry, DeepEntry, ExtEntry, PluginEntry, StressEntry
  <2>2. SeededWork(m, e, e, args) = Total(f, w)
    <3>1. e \notin {"round_try", "runAllPrograms"}
      BY DEF CfiEntry
    <3> QED
      BY <3>1 DEF SeededWork
  <2> HIDE DEF rounds
  <2>3. w = n + 2 /\ \A k \in 1 .. n + 2 : rounds[k].args = << (k - 1) * 257 + n * 17 >>
    BY <2>1 DEF CfiRounds, Try
  <2> HIDE DEF w
  <2>4. \A k \in 1 .. n + 2 : f[k] = RoundAmount(m, e, << (k - 1) * 257 + n * 17 >>)
    BY <2>3
  <2>5. \A a : RoundAmount(m, e, a) \in Int
    BY CfiAmounts DEF Seeded
  <2> HIDE DEF f
  <2> QED
    BY <2>2, <2>3, <2>4, <2>5
<1>2. SeededWork("hits", e, e, << 1 >>) = 21
  <2> DEFINE n == 1
  <2>1. PICK f : /\ SeededWork("hits", e, e, << n >>) = Total(f, n + 2)
                 /\ \A k \in 1 .. n + 2 :
                      f[k] \in Int /\ f[k] = RoundAmount("hits", e, << (k - 1) * 257 + n * 17 >>)
    BY <1>1
  <2>2. /\ f[1] = RoundAmount("hits", e, << 17 >>)
        /\ f[2] = RoundAmount("hits", e, << 274 >>)
        /\ f[3] = RoundAmount("hits", e, << 531 >>)
    BY <2>1
  <2>3. Total(f, n + 2) = f[1] + f[2] + f[3]
    <3> DEFINE w == n + 2
    <3>1. w \in Nat /\ w = 3 /\ \A k \in 1 .. w : f[k] \in Int
      BY <2>1
    <3> HIDE DEF w
    <3>2. Total(f, w) = f[1] + f[2] + f[3]
      BY <3>1, Totals
    <3> QED
      BY <3>2 DEF w
  <2>4. f[1] = CfiRoundHits(17) /\ f[2] = CfiRoundHits(274) /\ f[3] = CfiRoundHits(531)
    BY <2>2, CfiRoundAmount
  <2> QED
    BY <2>1, <2>3, <2>4, CfiRoundValues DEF Quad
<1>3. SeededWork("hits", e, e, << 2 >>) = 26
  <2> DEFINE n == 2
  <2>1. PICK f : /\ SeededWork("hits", e, e, << n >>) = Total(f, n + 2)
                 /\ \A k \in 1 .. n + 2 :
                      f[k] \in Int /\ f[k] = RoundAmount("hits", e, << (k - 1) * 257 + n * 17 >>)
    BY <1>1
  <2>2. /\ f[1] = RoundAmount("hits", e, << 34 >>)
        /\ f[2] = RoundAmount("hits", e, << 291 >>)
        /\ f[3] = RoundAmount("hits", e, << 548 >>)
        /\ f[4] = RoundAmount("hits", e, << 805 >>)
    BY <2>1
  <2>3. Total(f, n + 2) = Quad(f, 1)
    <3> DEFINE w == n + 2
    <3>1. w \in Nat /\ w = 4 /\ \A k \in 1 .. w : f[k] \in Int
      BY <2>1
    <3> HIDE DEF w
    <3>2. Total(f, w) = Quad(f, 1)
      BY <3>1, Totals
    <3> QED
      BY <3>2 DEF w
  <2>4. f[1] = CfiRoundHits(34) /\ f[2] = CfiRoundHits(291) /\ f[3] = CfiRoundHits(548) /\ f[4] = CfiRoundHits(805)
    BY <2>2, CfiRoundAmount
  <2> QED
    BY <2>1, <2>3, <2>4, CfiRoundValues DEF Quad
<1>4. SeededWork("hits", e, e, << 3 >>) = 28
  <2> DEFINE n == 3
  <2>1. PICK f : /\ SeededWork("hits", e, e, << n >>) = Total(f, n + 2)
                 /\ \A k \in 1 .. n + 2 :
                      f[k] \in Int /\ f[k] = RoundAmount("hits", e, << (k - 1) * 257 + n * 17 >>)
    BY <1>1
  <2>2. /\ f[1] = RoundAmount("hits", e, << 51 >>)
        /\ f[2] = RoundAmount("hits", e, << 308 >>)
        /\ f[3] = RoundAmount("hits", e, << 565 >>)
        /\ f[4] = RoundAmount("hits", e, << 822 >>)
        /\ f[5] = RoundAmount("hits", e, << 1079 >>)
    BY <2>1
  <2>3. Total(f, n + 2) = Quad(f, 1) + f[5]
    <3> DEFINE w == n + 2
    <3>1. w \in Nat /\ w = 5 /\ \A k \in 1 .. w : f[k] \in Int
      BY <2>1
    <3> HIDE DEF w
    <3>2. Total(f, w) = Quad(f, 1) + f[5]
      BY <3>1, Totals
    <3> QED
      BY <3>2 DEF w
  <2>4. f[1] = CfiRoundHits(51) /\ f[2] = CfiRoundHits(308) /\ f[3] = CfiRoundHits(565) /\ f[4] = CfiRoundHits(822) /\ f[5] = CfiRoundHits(1079)
    BY <2>2, CfiRoundAmount
  <2> QED
    BY <2>1, <2>3, <2>4, CfiRoundValues DEF Quad
<1>5. ASSUME NEW n \in {1, 2, 3} PROVE SeededWork("walks", e, e, << n >>) = -40 * (n + 2)
  <2>1. PICK f : /\ SeededWork("walks", e, e, << n >>) = Total(f, n + 2)
                 /\ \A k \in 1 .. n + 2 :
                      f[k] \in Int /\ f[k] = RoundAmount("walks", e, << (k - 1) * 257 + n * 17 >>)
    BY <1>1
  <2>2. \A k \in 1 .. n + 2 : f[k] = -40
    <3>1. ASSUME NEW k \in 1 .. n + 2 PROVE (k - 1) * 257 + n * 17 \in Int
      OBVIOUS
    <3> QED
      BY <2>1, <3>1, CfiRoundAmount
  <2> DEFINE w == n + 2
  <2>3. w \in Nat /\ w \in {3, 4, 5} /\ \A k \in 1 .. w : f[k] \in Int
    <3>1. w \in Nat /\ w \in {3, 4, 5}
      OBVIOUS
    <3> QED
      BY <2>1, <3>1
  <2> HIDE DEF w
  <2>4. /\ w = 3 => Total(f, w) = f[1] + f[2] + f[3]
        /\ w = 4 => Total(f, w) = Quad(f, 1)
        /\ w = 5 => Total(f, w) = Quad(f, 1) + f[5]
    BY <2>3, Totals
  <2> QED
    BY <2>1, <2>2, <2>3, <2>4 DEF Quad, w
<1> QED
  BY <1>2, <1>3, <1>4, <1>5

\* What calls of the extended suite for one and two iterations come to:
\* exceptions, and captures outside destructors.
LEMMA ExtWork ==
  ASSUME NEW e, e = ExtEntry
  PROVE  /\ SeededWork("throws", e, e, << 1 >>) = -12
         /\ SeededWork("throws", e, e, << 2 >>) = -23
         /\ \A n \in {1, 2} : SeededWork("walks", e, e, << n >>) = -90 * (n + 2)
<1>1. ASSUME NEW n \in {1, 2}, NEW m \in {"throws", "walks"}
      PROVE  \E f : /\ SeededWork(m, e, e, << n >>) = Total(f, n + 2)
                    /\ \A k \in 1 .. n + 2 :
                         f[k] \in Int /\ f[k] = RoundAmount(m, e, << (k - 1) * 313 + n * 19 >>)
  <2> DEFINE args == << n >>
             rounds == SuiteBody(e, e, args, NoException)
             w == Len(rounds)
             f == [k \in 1 .. w |-> RoundAmount(m, e, rounds[k].args)]
  <2>1. rounds = ExtRounds(n)
    BY DEF SuiteBody, ExtBody, BasicEntry, CfiEntry, DeepEntry, ExtEntry, PluginEntry, StressEntry
  <2>2. SeededWork(m, e, e, args) = Total(f, w)
    <3>1. e \notin {"round_try", "runAllPrograms"}
      BY DEF ExtEntry
    <3> QED
      BY <3>1 DEF SeededWork
  <2> HIDE DEF rounds
  <2>3. w = n + 2 /\ \A k \in 1 .. n + 2 : rounds[k].args = << (k - 1) * 313 + n * 19 >>
    BY <2>1 DEF ExtRounds, Try
  <2> HIDE DEF w
  <2>4. \A k \in 1 .. n + 2 : f[k] = RoundAmount(m, e, << (k - 1) * 313 + n * 19 >>)
    BY <2>3
  <2>5. \A a : RoundAmount(m, e, a) \in Int
    BY ExtAmounts DEF Seeded
  <2> HIDE DEF f
  <2> QED
    BY <2>2, <2>3, <2>4, <2>5
<1>2. SeededWork("throws", e, e, << 1 >>) = -12
  <2> DEFINE n == 1
  <2>1. PICK f : /\ SeededWork("throws", e, e, << n >>) = Total(f, n + 2)
                 /\ \A k \in 1 .. n + 2 :
                      f[k] \in Int /\ f[k] = RoundAmount("throws", e, << (k - 1) * 313 + n * 19 >>)
    BY <1>1
  <2>2. /\ f[1] = RoundAmount("throws", e, << 19 >>)
        /\ f[2] = RoundAmount("throws", e, << 332 >>)
        /\ f[3] = RoundAmount("throws", e, << 645 >>)
    BY <2>1
  <2>3. Total(f, n + 2) = f[1] + f[2] + f[3]
    <3> DEFINE w == n + 2
    <3>1. w \in Nat /\ w = 3 /\ \A k \in 1 .. w : f[k] \in Int
      BY <2>1
    <3> HIDE DEF w
    <3>2. Total(f, w) = f[1] + f[2] + f[3]
      BY <3>1, Totals
    <3> QED
      BY <3>2 DEF w
  <2>4. f[1] = 0 - ExtRoundHits(19) /\ f[2] = 0 - ExtRoundHits(332) /\ f[3] = 0 - ExtRoundHits(645)
    BY <2>2, ExtRoundAmount
  <2> QED
    BY <2>1, <2>3, <2>4, ExtRoundValues DEF Quad
<1>3. SeededWork("throws", e, e, << 2 >>) = -23
  <2> DEFINE n == 2
  <2>1. PICK f : /\ SeededWork("throws", e, e, << n >>) = Total(f, n + 2)
                 /\ \A k \in 1 .. n + 2 :
                      f[k] \in Int /\ f[k] = RoundAmount("throws", e, << (k - 1) * 313 + n * 19 >>)
    BY <1>1
  <2>2. /\ f[1] = RoundAmount("throws", e, << 38 >>)
        /\ f[2] = RoundAmount("throws", e, << 351 >>)
        /\ f[3] = RoundAmount("throws", e, << 664 >>)
        /\ f[4] = RoundAmount("throws", e, << 977 >>)
    BY <2>1
  <2>3. Total(f, n + 2) = Quad(f, 1)
    <3> DEFINE w == n + 2
    <3>1. w \in Nat /\ w = 4 /\ \A k \in 1 .. w : f[k] \in Int
      BY <2>1
    <3> HIDE DEF w
    <3>2. Total(f, w) = Quad(f, 1)
      BY <3>1, Totals
    <3> QED
      BY <3>2 DEF w
  <2>4. f[1] = 0 - ExtRoundHits(38) /\ f[2] = 0 - ExtRoundHits(351) /\ f[3] = 0 - ExtRoundHits(664) /\ f[4] = 0 - ExtRoundHits(977)
    BY <2>2, ExtRoundAmount
  <2> QED
    BY <2>1, <2>3, <2>4, ExtRoundValues DEF Quad
<1>4. ASSUME NEW n \in {1, 2} PROVE SeededWork("walks", e, e, << n >>) = -90 * (n + 2)
  <2>1. PICK f : /\ SeededWork("walks", e, e, << n >>) = Total(f, n + 2)
                 /\ \A k \in 1 .. n + 2 :
                      f[k] \in Int /\ f[k] = RoundAmount("walks", e, << (k - 1) * 313 + n * 19 >>)
    BY <1>1
  <2>2. \A k \in 1 .. n + 2 : f[k] = -90
    <3>1. ASSUME NEW k \in 1 .. n + 2 PROVE (k - 1) * 313 + n * 19 \in Int
      OBVIOUS
    <3> QED
      BY <2>1, <3>1, ExtRoundAmount
  <2> DEFINE w == n + 2
  <2>3. w \in Nat /\ w \in {3, 4} /\ \A k \in 1 .. w : f[k] \in Int
    <3>1. w \in Nat /\ w \in {3, 4}
      OBVIOUS
    <3> QED
      BY <2>1, <3>1
  <2> HIDE DEF w
  <2>4. /\ w = 3 => Total(f, w) = f[1] + f[2] + f[3]
        /\ w = 4 => Total(f, w) = Quad(f, 1)
        /\ w = 5 => Total(f, w) = Quad(f, 1) + f[5]
    BY <2>3, Totals
  <2> QED
    BY <2>1, <2>2, <2>3, <2>4 DEF Quad, w
<1> QED
  BY <1>2, <1>3, <1>4

\* A report of the two suites has counted what the seeds make of its call: in the cfi suite
\* exactly so many exceptions, in the extended suite so many or more, each of them caught,
\* and so many captures or more besides those of the destructors.
LEMMA SeedReport ==
  ASSUME SuiteInv, NEW e, e = suite.entry, e \in {CfiEntry, ExtEntry},
         NEW c \in 1 .. Len(reports),
         NEW n, n = reports[c].iterations, NEW m, m = reports[c].metrics
  PROVE  /\ m.events["thrown"] \in Nat /\ m.events["caught"] \in Nat
         /\ m.captures \in Nat /\ m.destructors \in Nat
         /\ m.events["caught"] >= m.events["thrown"]
         /\ e = CfiEntry => m.events["thrown"] = SeededWork("hits", e, e, << n >>)
         /\ e = ExtEntry => /\ SeededWork("throws", e, e, << n >>) \in Int
                            /\ SeededWork("throws", e, e, << n >>) >= 0 - m.events["thrown"]
         /\ SeededWork("walks", e, e, << n >>) \in Int
         /\ SeededWork("walks", e, e, << n >>) >= m.destructors - m.captures
<1> USE DEF BasicEntry, CfiEntry, DeepEntry, ExtEntry, PluginEntry, StressEntry
<1>1. /\ m \in Metrics /\ n \in Nat \ {0}
      /\ \A account \in Ledgers(e) :
           Covers(account, Work(account, e, e, << n >>), Tally(account, m, 0))
      /\ m.events["thrown"] \in Nat /\ m.events["caught"] \in Nat /\ m.events["rethrows"] \in Nat
  BY ReportSettled
<1>2. m.captures \in Nat /\ m.destructors \in Nat
  BY <1>1 DEF Metrics
<1>3. /\ {"pending", "walks"} \subseteq Ledgers(e)
      /\ e = CfiEntry => "hits" \in SeedAccounts(e) /\ "hits" \in Ledgers(e)
      /\ e = ExtEntry => "throws" \in SeedAccounts(e) /\ "throws" \in Ledgers(e)
      /\ "walks" \in SeedAccounts(e)
  BY DEF Accounts, Ledgers, SeedAccounts
<1>4. m.events["caught"] >= m.events["thrown"]
  <2>1. Work("pending", e, e, << n >>) = 0
    BY <1>1, SuiteOf, NoFlow DEF Flows
  <2>2. 0 = Tally("pending", m, 0)
    BY <1>1, <1>3, <2>1 DEF Covers, Exact
  <2> QED
    BY <1>1, <2>2 DEF Tally
<1>5. ASSUME e = CfiEntry
      PROVE  m.events["thrown"] = SeededWork("hits", e, e, << n >>)
  <2>1. Work("hits", e, e, << n >>) = SeededWork("hits", e, e, << n >>)
    BY <1>3, <1>5, SeedWorks
  <2>2. Work("hits", e, e, << n >>) = Tally("hits", m, 0)
    BY <1>1, <1>3, <1>5 DEF Covers, Exact
  <2>3. Tally("hits", m, 0) = m.events["thrown"]
    BY DEF Tally
  <2> QED
    BY <2>1, <2>2, <2>3
<1>6. ASSUME e = ExtEntry
      PROVE  /\ SeededWork("throws", e, e, << n >>) \in Int
             /\ SeededWork("throws", e, e, << n >>) >= 0 - m.events["thrown"]
  <2>1. Work("throws", e, e, << n >>) = SeededWork("throws", e, e, << n >>)
    BY <1>3, <1>6, SeedWorks
  <2>2. Covers("throws", Work("throws", e, e, << n >>), Tally("throws", m, 0))
    BY <1>1, <1>3, <1>6
  <2>3. Tally("throws", m, 0) = 0 - m.events["thrown"]
    BY DEF Tally
  <2> QED
    BY <2>1, <2>2, <2>3 DEF Covers
<1>7. /\ SeededWork("walks", e, e, << n >>) \in Int
      /\ SeededWork("walks", e, e, << n >>) >= m.destructors - m.captures
  <2>1. Work("walks", e, e, << n >>) = SeededWork("walks", e, e, << n >>)
    BY <1>3, SeedWorks
  <2>2. Covers("walks", Work("walks", e, e, << n >>), Tally("walks", m, 0))
    BY <1>1, <1>3
  <2>3. Tally("walks", m, 0) = m.destructors - m.captures
    BY DEF Tally
  <2> QED
    BY <2>1, <2>2, <2>3 DEF Covers
<1> QED
  BY <1>1, <1>2, <1>4, <1>5, <1>6, <1>7

\* The verdicts on such counts.
LEMMA CfiAccepts ==
  ASSUME NEW m, NEW n \in {1, 2}, NEW strict,
         m.captures \in Nat, m.destructors = 170 * (n + 2), m.events["programs"] = 10 * (n + 2),
         m.events["thrown"] \in Nat, m.events["caught"] \in Nat,
         m.events["caught"] >= m.events["thrown"],
         m.events["thrown"] = (IF n = 1 THEN 21 ELSE 26),
         -40 * (n + 2) >= m.destructors - m.captures,
         TraceVerdict(m, strict, 44, 45) = 0
  PROVE  CfiVerdict(m, n, strict) = 0
<1>1. CASE n = 1
  <2>1. ~FewExceptions(m, n * 12)
    BY <1>1 DEF FewExceptions
  <2>2. /\ ~(m.events["programs"] < n * 10) /\ ~(m.captures < n * 420)
        /\ ~(m.destructors < n * 260)
    BY <1>1
  <2> QED
    BY <2>1, <2>2 DEF CfiVerdict
<1>2. CASE n = 2
  <2>1. ~FewExceptions(m, n * 12)
    BY <1>2 DEF FewExceptions
  <2>2. /\ ~(m.events["programs"] < n * 10) /\ ~(m.captures < n * 420)
        /\ ~(m.destructors < n * 260)
    BY <1>2
  <2> QED
    BY <2>1, <2>2 DEF CfiVerdict
<1> QED
  BY <1>1, <1>2

\* So does the extended suite.
LEMMA ExtAccepts ==
  ASSUME NEW m, NEW n \in {1, 2}, NEW strict,
         m.captures \in Nat, m.destructors = 176 * (n + 2), m.events["programs"] = 10 * (n + 2),
         m.events["thrown"] \in Nat, m.events["caught"] \in Nat,
         m.events["caught"] >= m.events["thrown"],
         m.events["thrown"] >= (IF n = 1 THEN 12 ELSE 23),
         -90 * (n + 2) >= m.destructors - m.captures,
         TraceVerdict(m, strict, 54, 55) = 0
  PROVE  ExtVerdict(m, n, strict) = 0
<1>1. CASE n = 1
  <2>1. ~FewExceptions(m, n * 10)
    BY <1>1 DEF FewExceptions
  <2>2. /\ ~(m.events["programs"] < n * 10) /\ ~(m.captures < n * 520)
        /\ ~(m.destructors < n * 300)
    BY <1>1
  <2> QED
    BY <2>1, <2>2 DEF ExtVerdict
<1>2. CASE n = 2
  <2>1. ~FewExceptions(m, n * 10)
    BY <1>2 DEF FewExceptions
  <2>2. /\ ~(m.events["programs"] < n * 10) /\ ~(m.captures < n * 520)
        /\ ~(m.destructors < n * 300)
    BY <1>2
  <2> QED
    BY <2>1, <2>2 DEF ExtVerdict
<1> QED
  BY <1>1, <1>2

\* The cfi suite and the extended suite pass a sound call for one and two iterations and
\* no other: the seeds of those rounds throw enough, 28 exceptions in the five rounds of
\* three iterations are fewer than 36, and beyond that the destructors are too few.
THEOREM SoundCallsPassUpToTwo ==
  (\A s \in Suites : s.entry \in {CfiEntry, ExtEntry}) /\ RoomForTraces
    /\ RunsSuites /\ Spec => []PassesUpToTwo
<1> DEFINE J == (\A s \in Suites : s.entry \in {CfiEntry, ExtEntry}) /\ RoomForTraces
<1>1. J /\ [Next]_vars => J'
  BY DEF RoomForTraces
<1>2. Init => WholeInv
  BY DEF Init, WholeInv
<1>3. J /\ SuiteInv /\ WholeInv /\ [Next]_vars => WholeInv'
  BY WholeStep DEF SuiteInv
<1>4. J /\ SuiteInv /\ WholeInv => PassesUpToTwo
  <2> SUFFICES ASSUME J, SuiteInv, WholeInv, NEW c \in 1 .. Len(reports), Sound(c)
               PROVE  Rc(reports[c]) = 0 <=> reports[c].iterations <= 2
    BY DEF PassesUpToTwo
  <2>1. PICK e : e = suite.entry
    OBVIOUS
  <2> DEFINE n == reports[c].iterations
             m == reports[c].metrics
  <2>2. e \in {CfiEntry, ExtEntry} /\ CfiEntry # ExtEntry
    BY <2>1 DEF SuiteInv, IInv, TypeOK, CfiEntry, ExtEntry
  <2>3. Rc(reports[c]) = SuiteVerdict(e, m, n, Strict)
    BY <2>1 DEF Rc, SuiteInv, RunsSuites, IInv, TypeOK
  <2>4. /\ m \in Metrics /\ n \in Nat \ {0} /\ m.events["programs"] = 10 * (n + 2)
        /\ m.destructors = (IF e = CfiEntry THEN 170 ELSE 176) * (n + 2)
    BY <2>1, <2>2, CfiReport
  <2>5. /\ m.captures \in Nat /\ m.destructors \in Nat /\ m.minDepth \in Nat /\ m.shallow \in Nat
        /\ m.own \in Nat
    BY <2>4 DEF Metrics
  <2>6. TracesWhole(c, m) /\ m.captures >= m.destructors /\ ((m.minDepth < 5) <=> (m.shallow > 0))
    BY DEF WholeInv
  <2>7. m.minDepth >= 5 /\ m.shallow = 0 /\ (Strict => m.own = m.captures)
    <3>1. Whole(c, m) /\ (Strict => unwinder.named)
      BY DEF Sound, Whole
    <3> QED
      BY <2>5, <2>6, <3>1 DEF TracesWhole
  <2>8. m.captures > 0
    <3>1. (IF e = CfiEntry THEN 170 ELSE 176) * (n + 2) > 0
      BY <2>2, <2>4
    <3> QED
      BY <2>4, <2>5, <2>6, <3>1
  <2>9. ASSUME NEW shallow, NEW unnamed
        PROVE  TraceVerdict(m, Strict, shallow, unnamed) = 0
    BY <2>5, <2>7, <2>8 DEF TraceVerdict
  <2>10. /\ m.events["thrown"] \in Nat /\ m.events["caught"] \in Nat
         /\ m.events["caught"] >= m.events["thrown"]
         /\ e = CfiEntry => m.events["thrown"] = SeededWork("hits", e, e, << n >>)
         /\ e = ExtEntry => /\ SeededWork("throws", e, e, << n >>) \in Int
                            /\ SeededWork("throws", e, e, << n >>) >= 0 - m.events["thrown"]
         /\ SeededWork("walks", e, e, << n >>) >= m.destructors - m.captures
    BY <2>1, <2>2, SeedReport
  <2>11. /\ e = CfiEntry => SuiteVerdict(e, m, n, Strict) = CfiVerdict(m, n, Strict)
         /\ e = ExtEntry => SuiteVerdict(e, m, n, Strict) = ExtVerdict(m, n, Strict)
    BY DEF SuiteVerdict, BasicEntry, CfiEntry, DeepEntry, ExtEntry, PluginEntry, StressEntry
  <2> HIDE DEF n, m
  <2>12. CASE e = CfiEntry
    <3>1. CASE n \in {1, 2}
      <4>1. m.events["thrown"] = (IF n = 1 THEN 21 ELSE 26)
        BY <2>10, <2>12, <3>1, CfiWork
      <4>2. SeededWork("walks", e, e, << n >>) = -40 * (n + 2)
        BY <2>12, <3>1, CfiWork
      <4>3. m.destructors = 170 * (n + 2) /\ -40 * (n + 2) >= m.destructors - m.captures
        BY <2>2, <2>4, <2>10, <2>12, <4>2
      <4>4. CfiVerdict(m, n, Strict) = 0
        <5>1. TraceVerdict(m, Strict, 44, 45) = 0
          BY <2>9
        <5> QED
          BY <2>4, <2>5, <2>10, <3>1, <4>1, <4>3, <5>1, CfiAccepts
      <4> QED
        BY <2>3, <2>11, <2>12, <3>1, <4>4 DEF n
    <3>2. CASE n = 3
      <4>1. m.events["thrown"] = 28
        BY <2>10, <2>12, <3>2, CfiWork
      <4>2. FewExceptions(m, n * 12)
        BY <3>2, <4>1 DEF FewExceptions
      <4>3. CfiVerdict(m, n, Strict) # 0
        BY <4>2 DEF CfiVerdict
      <4> QED
        BY <2>3, <2>11, <2>12, <3>2, <4>3 DEF n
    <3>3. CASE n >= 4
      <4>1. CfiVerdict(m, n, Strict) # 0
        BY <2>4, <2>12, <3>3, WorkloadOutgrown, MachineAssumption
      <4> QED
        BY <2>3, <2>4, <2>11, <2>12, <3>3, <4>1 DEF n
    <3> QED
      BY <2>4, <3>1, <3>2, <3>3
  <2>13. CASE e = ExtEntry
    <3>1. CASE n \in {1, 2}
      <4>1. SeededWork("throws", e, e, << n >>) = (IF n = 1 THEN -12 ELSE -23)
        BY <2>13, <3>1, ExtWork
      <4>2. m.events["thrown"] >= (IF n = 1 THEN 12 ELSE 23)
        BY <2>10, <2>13, <4>1
      <4>3. SeededWork("walks", e, e, << n >>) = -90 * (n + 2)
        BY <2>13, <3>1, ExtWork
      <4>4. m.destructors = 176 * (n + 2) /\ -90 * (n + 2) >= m.destructors - m.captures
        BY <2>2, <2>4, <2>10, <2>13, <4>3
      <4>5. ExtVerdict(m, n, Strict) = 0
        <5>1. TraceVerdict(m, Strict, 54, 55) = 0
          BY <2>9
        <5> QED
          BY <2>4, <2>5, <2>10, <3>1, <4>2, <4>4, <5>1, ExtAccepts
      <4> QED
        BY <2>3, <2>11, <2>13, <3>1, <4>5 DEF n
    <3>2. CASE n >= 3
      <4>1. ExtVerdict(m, n, Strict) # 0
        BY <2>2, <2>4, <2>13, <3>2, WorkloadOutgrown, MachineAssumption
      <4> QED
        BY <2>3, <2>4, <2>11, <2>13, <3>2, <4>1 DEF n
    <3> QED
      BY <2>4, <3>1, <3>2
  <2> QED
    BY <2>2, <2>12, <2>13
<1> HIDE DEF J
<1>5. J /\ RunsSuites /\ Spec => []PassesUpToTwo
  BY <1>1, <1>2, <1>3, <1>4, SuitesHold, PTL DEF Spec
<1> QED
  BY <1>5 DEF J
=============================================================================
