----------------------------- MODULE Contracts ------------------------------
(***************************************************************************)
(* What each function, try block and catch clause of the suites promises:  *)
(* the exceptions that enter it, those that may leave it, and how much it  *)
(* adds to a few accounts on every path through it.                        *)
(***************************************************************************)
EXTENDS Seeds

(***************************************************************************)
(* The hypothesis of the theorems on the suites: the machine runs them.    *)
(***************************************************************************)
Counters == {"thrown", "caught", "rethrows", "programs"}

RunsSuites ==
  /\ Counters \subseteq Events
  /\ \A s \in Suites :
       /\ s.entry \in {BasicEntry, CfiEntry, DeepEntry, ExtEntry, PluginEntry, StressEntry}
       /\ \A fn, args, exc : Body(s.entry, fn, args, exc) = SuiteBody(s.entry, fn, args, exc)
       /\ \A fn, type : Catches(s.entry, fn, type) = SuiteCatches(s.entry, fn, type)
       /\ \A m, n, strict : Verdict(s.entry, m, n, strict) = SuiteVerdict(s.entry, m, n, strict)

(***************************************************************************)
(* Enters: the types a scope is entered with, "none" for a call or a try   *)
(* block.  A scope that no program has, or that is never entered with such *)
(* arguments, has {}.                                                      *)
(***************************************************************************)
Counted(args) == Len(args) = 1 /\ args[1] \in Nat \ {0}
OnlyIf(condition, types) == IF condition THEN types ELSE {}

BasicEnters(fn, args) ==
  CASE fn \in {"mid_catch", "bridge2_catch", "base_catch"} -> {"LeafError"}
    [] fn = "branch_catch"                                 -> {"BranchError"}
    [] fn \in {BasicEntry, "entry_try", "dispatchRoots", "runRethrowTower"} ->
         OnlyIf(Counted(args), {"none"})
    [] fn \in {"dispatch_try", "repeated_root", "root_try", "repeated_mid", "mid_try",
               "repeated_leaf", "rethrowBridge1", "bridge1_try", "rethrowBridge2",
               "bridge2_try", "rethrowLeaf"}               -> {"none"}
    [] OTHER                                               -> {}

CfiEnters(fn, args) ==
  CASE fn \in {"soft_catch", "tower_mid_catch", "tower_root_catch", "recursor_catch"} ->
         {"SoftCfiError"}
    [] fn = "hard_catch"  -> {"HardCfiError"}
    [] fn = "table_catch" -> {"TableCfiError"}
    [] fn = CfiEntry      -> OnlyIf(Counted(args), {"none"})
    [] fn = "Recursor"    -> OnlyIf(Len(args) > 0 /\ args[1] \in Nat, {"none"})
    [] fn \in {"round_try", "runAllPrograms", "program01", "program02", "program03",
               "program04", "program05", "program06", "program07", "program08", "program09",
               "program10", "linear_try", "linearCase", "template_try", "templateCandidate",
               "towerRoot", "tower_root_try", "towerMid", "tower_mid_try", "towerLeaf",
               "poly_try", "PolyNode::eval", "table_try", "tableCase", "recursor_try",
               "container_try", "containerCase", "variantCase", "cleanup_lambda",
               "cleanup_try", "cleanupCase"} -> {"none"}
    [] OTHER              -> {}

DeepEnters(fn, args) ==
  CASE fn = "recursor_catch" -> {"RecursiveError"}
    [] fn \in {"node_catch", "tuple_catch"} -> {"NodeError"}
    [] fn \in {"node_container_catch", "container_catch"} -> {"ContainerError"}
    [] fn = DeepEntry        -> OnlyIf(Counted(args), {"none"})
    [] fn \in {"runDeepIteration", "recursor_try", "DeepRecursor", "tuple_try",
               "runOptionalTupleCase", "runNodeGraph", "node_try", "Node::eval",
               "container_try", "runContainerCase", "visitVariant"} -> {"none"}
    [] OTHER                 -> {}

ExtEnters(fn, args) ==
  CASE fn = "minor_catch"    -> {"MinorExtError"}
    [] fn \in {"major_catch", "epilogue_catch"} -> {"MajorExtError"}
    [] fn = "callback_catch" -> {"CallbackExtError"}
    [] fn = "ladder_catch"   -> OnlyIf(args[1] = 1, {"MinorExtError"})
    [] fn = ExtEntry         -> OnlyIf(Counted(args), {"none"})
    [] fn = "ExtRecursor"    -> OnlyIf(args[1] \in Nat, {"none"})
    [] fn = "ladder_try"     -> OnlyIf(args[1] \in Nat \ {0}, {"none"})
    [] fn \in {"round_try", "runAllPrograms", "program16"} ->
         OnlyIf(args[Len(args)] \in Int, {"none"})
    [] fn \in {"program11", "program12", "program13", "program14", "program15", "program17",
               "program18", "program19", "program20", "wide_try", "wideCase", "member_try",
               "MemberCluster::op", "scope_try", "scopeCase", "scope_mid", "scope_inner",
               "nested", "tuple_try", "tupleCase", "deque_try", "dequeCase", "switch_try",
               "ladder_root_try", "heap_try", "optionalHeapCase", "callback_try",
               "callbackCase", "epilogue_root_try", "epilogueCase", "epilogue_try"} -> {"none"}
    [] OTHER                 -> {}

PluginEnters(fn, args) ==
  CASE fn = "case_catch" -> {"PluginError"}
    [] fn = PluginEntry  -> OnlyIf(Counted(args), {"none"})
    [] fn \in {"case_try", "pluginCase"} -> {"none"}
    [] OTHER             -> {}

StressEnters(fn, args) ==
  CASE fn \in {"vector_catch", "matrix_catch"} -> {"VectorError"}
    [] fn = "virtual_catch" -> {"VirtualError"}
    [] fn = "pointer_catch" -> {"PointerError"}
    [] fn = "error_catch"   -> {"VectorError", "ThreadError"}
    [] fn \in {StressEntry, "entry_try", "runLongStressBody", "runThreadedStress"} ->
         OnlyIf(Counted(args), {"none"})
    [] fn = "threadWorker"  -> OnlyIf(args[2] \in Nat, {"none"})
    [] fn \in {"long_try", "runVectorTable", "vector_try", "vectorCase", "runVirtualMatrix",
               "matrix_try", "act", "runPointerTable", "pointer_try", "pointerCase",
               "runTemplateTower", "TemplateStepper", "worker_try"} -> {"none"}
    [] OTHER                -> {}

Enters(entry, fn, args) ==
  CASE entry = BasicEntry  -> BasicEnters(fn, args)
    [] entry = CfiEntry    -> CfiEnters(fn, args)
    [] entry = DeepEntry   -> DeepEnters(fn, args)
    [] entry = ExtEntry    -> ExtEnters(fn, args)
    [] entry = PluginEntry -> PluginEnters(fn, args)
    [] entry = StressEntry -> StressEnters(fn, args)

(***************************************************************************)
(* Raises: the types that may be in flight while a scope is the innermost. *)
(***************************************************************************)
BasicRaises(fn, args) ==
  CASE fn \in {"repeated_leaf", "mid_try", "repeated_mid", "root_try",
               "rethrowLeaf", "bridge2_try", "rethrowBridge2", "bridge1_try"} ->
         {"LeafError", "BranchError"}
    [] fn \in {"mid_catch", "bridge2_catch"} -> {"LeafError"}
    [] OTHER -> {}

CfiRaises(fn, args) ==
  CASE fn \in {"linearCase", "linear_try", "towerLeaf", "tower_mid_try", "tower_mid_catch",
               "towerMid", "tower_root_try", "Recursor", "recursor_try"} -> {"SoftCfiError"}
    [] fn \in {"templateCandidate", "template_try", "PolyNode::eval", "poly_try",
               "cleanupCase", "cleanup_try"} -> {"HardCfiError"}
    [] fn \in {"tableCase", "table_try", "containerCase", "container_try"} -> {"TableCfiError"}
    [] OTHER -> {}

DeepRaises(fn, args) ==
  CASE fn \in {"DeepRecursor", "recursor_try"} -> {"RecursiveError"}
    [] fn \in {"runContainerCase", "container_try"} -> {"ContainerError"}
    [] fn \in {"Node::eval", "node_try"} -> {"ContainerError", "NodeError"}
    [] fn \in {"node_catch", "runNodeGraph", "runOptionalTupleCase", "tuple_try"} -> {"NodeError"}
    [] OTHER -> {}

ExtRaises(fn, args) ==
  CASE fn \in {"wideCase", "wide_try", "tupleCase", "tuple_try", "switch_try"} -> {"MinorExtError"}
    [] fn \in {"MemberCluster::op", "member_try", "scope_inner", "scope_mid", "scopeCase",
               "scope_try", "optionalHeapCase", "heap_try", "epilogue_try", "epilogue_catch",
               "epilogueCase", "epilogue_root_try"} -> {"MajorExtError"}
    [] fn \in {"dequeCase", "deque_try", "callbackCase", "callback_try"} -> {"CallbackExtError"}
    [] fn = "ExtRecursor" -> OnlyIf(args[1] = 0, {"MinorExtError"})
    [] fn = "ladder_try"  -> OnlyIf(args[1] = 1, {"MinorExtError"})
    [] OTHER -> {}

PluginRaises(fn, args) == IF fn \in {"pluginCase", "case_try"} THEN {"PluginError"} ELSE {}

StressRaises(fn, args) ==
  CASE fn \in {"vectorCase", "vector_try", "matrix_catch", "runVirtualMatrix", "long_try"} ->
         {"VectorError"}
    [] fn \in {"pointerCase", "pointer_try"} -> {"PointerError"}
    [] fn \in {"act", "matrix_try"} -> {"VectorError", "VirtualError"}
    [] fn = "worker_try" -> {"ThreadError"}
    [] OTHER -> {}

Raises(entry, fn, args) ==
  CASE entry = BasicEntry  -> BasicRaises(fn, args)
    [] entry = CfiEntry    -> CfiRaises(fn, args)
    [] entry = DeepEntry   -> DeepRaises(fn, args)
    [] entry = ExtEntry    -> ExtRaises(fn, args)
    [] entry = PluginEntry -> PluginRaises(fn, args)
    [] entry = StressEntry -> StressRaises(fn, args)

\* What leaves a scope: what it raises and does not catch, and what its clauses raise.
Leaks(entry, fn, args) ==
  {t \in Raises(entry, fn, args) : Catches(entry, fn, t) = "none"} \cup
  UNION {Raises(entry, Catches(entry, fn, t), args) :
           t \in {u \in Raises(entry, fn, args) : Catches(entry, fn, u) # "none"}}

(***************************************************************************)
(* Accounts of the counters of a call.                                     *)
(*   guards      guards constructed                                        *)
(*   programs    programs_completed                                        *)
(*   traces      captures made outside destructors                         *)
(*   pending     thrown and rethrown less caught                           *)
(*   hits        exceptions_thrown                                         *)
(*   throws      exceptions_thrown, negated                                *)
(*   walks       captures made outside destructors, negated                *)
(*   uncaught    thrown less caught                                        *)
(*   overcaught  caught less thrown and rethrown                           *)
(* The first five are exact; the others have an upper bound.               *)
(***************************************************************************)
Accounts(entry) ==
  CASE entry = BasicEntry             -> {"guards", "throws", "pending"}
    [] entry \in {CfiEntry, ExtEntry} -> {"guards", "programs", "pending"}
    [] entry = DeepEntry              -> {"pending"}
    [] entry = PluginEntry            -> {"guards", "traces", "pending"}
    [] entry = StressEntry            -> {"uncaught", "overcaught"}

\* Those that the seeds decide.
SeedAccounts(entry) ==
  CASE entry = CfiEntry -> {"hits", "walks"}
    [] entry = ExtEntry -> {"throws", "walks"}
    [] OTHER            -> {}

Ledgers(entry) == Accounts(entry) \cup SeedAccounts(entry)

AllAccounts == {"guards", "programs", "traces", "throws", "pending", "uncaught", "overcaught"}
AllLedgers == AllAccounts \cup {"hits", "walks"}
Exact == {"guards", "programs", "traces", "pending", "hits"}

Covers(account, x, y) == x \in Int /\ y \in Int /\ x >= y /\ (account \in Exact => x = y)

\* The account of a call with metrics m and alive live guards.
Tally(account, m, alive) ==
  LET e == m.events
  IN  CASE account = "guards"     -> m.destructors + alive
        [] account = "programs"   -> e["programs"]
        [] account = "traces"     -> m.captures - m.destructors
        [] account = "hits"       -> e["thrown"]
        [] account = "throws"     -> 0 - e["thrown"]
        [] account = "walks"      -> m.destructors - m.captures
        [] account = "pending"    -> e["thrown"] + e["rethrows"] - e["caught"]
        [] account = "uncaught"   -> e["thrown"] - e["caught"]
        [] account = "overcaught" -> e["caught"] - e["thrown"] - e["rethrows"]

\* What a statement other than a call, a try block or a throw adds.
CountCost(account, event) ==
  CASE account = "programs" /\ event = "programs"                       -> 1
    [] account = "hits" /\ event = "thrown"                             -> 1
    [] account = "throws" /\ event = "thrown"                           -> -1
    [] account = "pending" /\ event \in {"thrown", "rethrows"}          -> 1
    [] account = "pending" /\ event = "caught"                          -> -1
    [] account = "uncaught" /\ event = "thrown"                         -> 1
    [] account = "uncaught" /\ event = "caught"                         -> -1
    [] account = "overcaught" /\ event \in {"thrown", "rethrows"}       -> -1
    [] account = "overcaught" /\ event = "caught"                       -> 1
    [] OTHER                                                            -> 0

Cost(account, s) ==
  CASE s.op = "guard"   -> IF account = "guards" THEN 1 ELSE 0
    [] s.op = "capture" -> CASE account = "traces" -> 1
                             [] account = "walks"  -> -1
                             [] OTHER              -> 0
    [] s.op = "count"   -> CountCost(account, s.event)

\* What the clause that takes an exception is to add, as long as it is in flight.
Fare(account) ==
  CASE account \in {"pending", "uncaught"}  -> -1
    [] account \in {"overcaught", "traces"} -> 1
    [] OTHER                                -> 0

(***************************************************************************)
(* Work: what a scope adds, with the calls it makes, however it ends.      *)
(***************************************************************************)
BasicGuards(fn, args) ==
  CASE fn \in {"repeated_leaf", "mid_try", "rethrowLeaf", "bridge2_try"}     -> 1
    [] fn \in {"repeated_mid", "root_try", "rethrowBridge2", "bridge1_try"}  -> 2
    [] fn \in {"repeated_root", "dispatch_try", "rethrowBridge1"}            -> 3
    [] fn = "dispatchRoots"             -> 144 * args[1]
    [] fn = "runRethrowTower"           -> 48 * args[1]
    [] fn \in {BasicEntry, "entry_try"} -> 192 * args[1]
    [] OTHER                            -> 0

BasicThrows(fn, args) ==
  CASE fn \in {"rethrowLeaf", "bridge2_try", "rethrowBridge2", "bridge1_try",
               "rethrowBridge1"}                           -> -1
    [] fn \in {"runRethrowTower", "entry_try", BasicEntry} -> -16 * args[1]
    [] OTHER                                               -> 0

CfiGuards(fn, args) ==
  CASE fn \in {"linearCase", "linear_try", "templateCandidate", "template_try", "towerLeaf",
               "tower_mid_try", "PolyNode::eval", "poly_try", "tableCase", "table_try",
               "containerCase", "container_try", "variantCase", "cleanup_lambda",
               "program09"}                          -> 1
    [] fn \in {"towerMid", "tower_root_try"}         -> 2
    [] fn = "towerRoot"                              -> 3
    [] fn \in {"cleanupCase", "cleanup_try"}         -> 4
    [] fn = "program08"                              -> 8
    [] fn = "program04"                              -> 10
    [] fn = "program07"                              -> 12
    [] fn \in {"program01", "program02"}             -> 16
    [] fn \in {"program06", "recursor_try"}          -> 19
    [] fn \in {"program03", "program05"}             -> 24
    [] fn = "program10"                              -> 40
    [] fn = "Recursor"                               -> args[1] + 1
    [] fn \in {"runAllPrograms", "round_try"}        -> 170
    [] fn = CfiEntry                                 -> 170 * (args[1] + 2)
    [] OTHER                                         -> 0

ExtGuards(fn, args) ==
  CASE fn \in {"wideCase", "wide_try", "MemberCluster::op", "member_try", "nested", "tupleCase",
               "tuple_try", "dequeCase", "deque_try", "optionalHeapCase", "heap_try",
               "callbackCase", "callback_try", "epilogue_try", "program16"} -> 1
    [] fn \in {"scope_inner", "epilogueCase", "epilogue_root_try"} -> 2
    [] fn = "scope_mid"                              -> 3
    [] fn \in {"scopeCase", "scope_try"}             -> 4
    [] fn \in {"program15", "program18"}             -> 8
    [] fn = "program14"                              -> 10
    [] fn = "program12"                              -> 12
    [] fn \in {"program17", "ladder_root_try"}       -> 17
    [] fn \in {"program11", "program20"}             -> 20
    [] fn = "program19"                              -> 32
    [] fn = "program13"                              -> 48
    [] fn = "ExtRecursor"                            -> args[1] + 1
    [] fn = "ladder_try"                             -> args[1]
    [] fn \in {"runAllPrograms", "round_try"}        -> 176
    [] fn = ExtEntry                                 -> 176 * (args[1] + 2)
    [] OTHER                                         -> 0

PluginGuards(fn, args) ==
  CASE fn \in {"pluginCase", "case_try"} -> 1
    [] fn = PluginEntry                  -> 32 * args[1]
    [] OTHER                             -> 0

PluginTraces(fn, args) ==
  CASE fn \in {"pluginCase", "case_try"} -> 2
    [] fn = PluginEntry                  -> 64 * args[1]
    [] OTHER                             -> 1

CompletedPrograms(fn, args) ==
  CASE fn \in {"program01", "program02", "program03", "program04", "program05", "program06",
               "program07", "program08", "program09", "program10", "program11", "program12",
               "program13", "program14", "program15", "program16", "program17", "program18",
               "program19", "program20", "recursor_try", "recursor_catch",
               "ladder_root_try"}             -> 1
    [] fn \in {"runAllPrograms", "round_try"} -> 10
    [] fn \in {CfiEntry, ExtEntry}            -> 10 * (args[1] + 2)
    [] OTHER                                  -> 0

Guards(entry, fn, args) ==
  CASE entry = BasicEntry  -> BasicGuards(fn, args)
    [] entry = CfiEntry    -> CfiGuards(fn, args)
    [] entry = ExtEntry    -> ExtGuards(fn, args)
    [] entry = PluginEntry -> PluginGuards(fn, args)

Work(account, entry, fn, args) ==
  CASE account = "guards"   -> Guards(entry, fn, args)
    [] account = "programs" -> CompletedPrograms(fn, args)
    [] account = "traces"   -> PluginTraces(fn, args)
    [] account = "throws" /\ entry = BasicEntry -> BasicThrows(fn, args)
    [] account \in SeedAccounts(entry)          -> SeededWork(account, entry, fn, args)
    [] OTHER                -> IF "none" \in Enters(entry, fn, args) THEN 0 ELSE Fare(account)

\* What is still to be added for a scope in which an exception of type t is in flight.
Settled(account, entry, fn, args, t) ==
  IF Catches(entry, fn, t) = "none" THEN Fare(account)
  ELSE Work(account, entry, Catches(entry, fn, t), args)

(***************************************************************************)
(* The rules.  A statement keeps to the exceptions of its scope, and the   *)
(* amount left before it covers what it adds and the amount left after it, *)
(* or, when it ends in an exception, what the exception settles.           *)
(***************************************************************************)
Contained(entry, fn, args, exc, s) ==
  /\ s.op \in {"call", "try"} =>
       /\ "none" \in Enters(entry, s.fn, s.args)
       /\ Leaks(entry, s.fn, s.args) \subseteq Raises(entry, fn, args)
  /\ s.op = "throw" => s.exc.type \in Raises(entry, fn, args)
  /\ s.op = "rethrow" => exc.type \in Raises(entry, fn, args)

Balanced(account, entry, fn, args, exc, s, before, after) ==
  /\ s.op \in {"guard", "capture", "count"} =>
       Covers(account, before, Cost(account, s) + after)
  /\ s.op \in {"call", "try"} =>
       /\ Covers(account, before, Work(account, entry, s.fn, s.args) + after)
       /\ \A t \in Leaks(entry, s.fn, s.args) :
            Covers(account, after + Fare(account), Settled(account, entry, fn, args, t))
       /\ account = "pending" => after = 0
  /\ s.op = "throw" => Covers(account, before, Settled(account, entry, fn, args, s.exc.type))
  /\ s.op = "rethrow" => Covers(account, before, Settled(account, entry, fn, args, exc.type))

\* left[i] is what the scope is to add from its statement i on.
IsPlan(account, entry, fn, args, exc, left) ==
  LET body == Body(entry, fn, args, exc)
  IN  /\ left \in [1 .. Len(body) + 1 -> Int]
      /\ left[1] = Work(account, entry, fn, args)
      /\ left[Len(body) + 1] = 0
      /\ \A i \in 1 .. Len(body) :
           Balanced(account, entry, fn, args, exc, body[i], left[i], left[i + 1])

\* The clauses of a scope take what they are entered with, and catch nothing themselves.
ClausesKept(entry, fn, args) ==
  \A t \in Raises(entry, fn, args) :
    LET clause == Catches(entry, fn, t)
    IN  clause # "none" =>
          /\ t \in Enters(entry, clause, args) /\ "none" \notin Enters(entry, clause, args)
          /\ \A u \in Raises(entry, clause, args) : Catches(entry, clause, u) = "none"

\* A scope keeps its contract.
Keeps(entry, fn, args, exc) ==
  LET body == Body(entry, fn, args, exc)
  IN  /\ Len(body) \in Nat
      /\ \A i \in 1 .. Len(body) : Contained(entry, fn, args, exc, body[i])
      /\ \A account \in Accounts(entry) :
           \E left : IsPlan(account, entry, fn, args, exc, left)
      /\ ClausesKept(entry, fn, args)

\* The program of a suite keeps its contracts, but for those its seeds decide.
Orderly(entry) ==
  /\ \A n \in Nat \ {0} :
       "none" \in Enters(entry, entry, << n >>) /\ Raises(entry, entry, << n >>) = {}
  /\ \A fn \in STRING, args \in Seq(Int), exc \in MaybeException :
       exc.type \in Enters(entry, fn, args) => Keeps(entry, fn, args, exc)

\* It keeps them all.
Disciplined(entry) ==
  /\ Orderly(entry)
  /\ \A fn \in STRING, args \in Seq(Int), exc \in MaybeException :
       exc.type \in Enters(entry, fn, args) =>
         \A account \in SeedAccounts(entry) :
           \E left : IsPlan(account, entry, fn, args, exc, left)
=============================================================================
