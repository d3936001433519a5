------------------------------ MODULE CfiSuite ------------------------------
(***************************************************************************)
(* src/cfi_unwind_candidate_cases.cpp as a program for UnwindMachine.  A   *)
(* macro or template instantiated for several IDs is one function with the *)
(* ID as its first argument.  The lists hold an <<id, seed>> per call that *)
(* a program makes through its table of functions.                         *)
(***************************************************************************)
EXTENDS UnwindCode, SuiteVerdicts, FiniteSets

CfiEntry == "run_unwind_cfi_suite"
CfiEvents == {"thrown", "caught", "rethrows", "programs"}

(* ------------------------- the case functions ------------------------- *)

LinearCase(id, seed) ==
  << Guard, Capture >> \o
  (IF (seed + id) % 16 = id % 4 THEN Raise("SoftCfiError", seed + id + 1000)
   ELSE << Capture >>)

\* seed ^ id, for id in 0 .. 15: the four low bits differ where those of id are set.
XorLow(seed, id) ==
  LET differ(weight) == weight * (((seed \div weight) + (id \div weight)) % 2)
  IN  seed - (seed % 16) + differ(8) + differ(4) + differ(2) + differ(1)

TemplateCandidate(id, seed) ==
  << Guard, Capture >> \o
  (IF XorLow(seed, id) % 17 = 5 THEN Raise("HardCfiError", seed + id + 1200) ELSE << >>)

TowerLeaf(id, seed) ==
  << Guard, Capture >> \o
  (IF (seed + id) % 8 = id % 2 THEN Raise("SoftCfiError", seed + id + 1400) ELSE << >>)

TowerMidTry(id, seed) == << Capture, Call("towerLeaf", << id, seed + 3 >>) >>

\* Mutant of TowerMidCatch: the rethrow is counted before it is decided.
TowerMidCatchEager(id, error) ==
  Caught \o << Count("rethrows") >> \o
  (IF (error.code + id) % 4 = 0 THEN << [op |-> "rethrow"] >> ELSE << >>)

TowerMidCatch(id, error) ==
  Caught \o (IF (error.code + id) % 4 = 0 THEN Reraise ELSE << >>)

TowerRootTry(id, seed) == << Capture, Call("towerMid", << id, seed + 5 >>) >>

PolyEval(id, seed) ==
  << Guard, Capture >> \o
  (IF (seed + id) % 19 = 7 THEN Raise("HardCfiError", seed + id + 1500) ELSE << >>)

TableCase(id, seed) ==
  << Guard, Capture >> \o
  (IF (seed + id) % 23 = 9 THEN Raise("TableCfiError", seed + id + 1700) ELSE << >>)

Recursor(id, seed) ==
  << Guard, Capture >> \o
  (IF id > 0 THEN << Call("Recursor", << id - 1, seed + id >>) >>
   ELSE IF seed % 4 = 0 THEN Raise("SoftCfiError", seed + 1900)
   ELSE << >>)

ContainerCase(id, seed) ==
  << Guard, Capture >> \o
  (IF (seed + id) % 29 = 11 THEN Raise("TableCfiError", seed + id + 2000) ELSE << >>)

\* The lambda of cleanupCase is as plain.
VariantCase == << Guard, Capture >>

\* Mutant of CleanupCase: the last guard is constructed after the throw.
CleanupCaseLate(id, seed) ==
  << Guard, Guard, Capture, Call("cleanup_lambda", << id, seed >>) >> \o
  (IF (seed + id) % 8 = 3 THEN Raise("HardCfiError", seed + id + 2500)
   ELSE << Guard, Capture >>)

CleanupCase(id, seed) ==
  << Guard, Guard, Guard, Capture, Call("cleanup_lambda", << id, seed >>) >> \o
  (IF (seed + id) % 8 = 3 THEN Raise("HardCfiError", seed + id + 2500)
   ELSE << Capture >>)

(* ---------------------------- the programs ---------------------------- *)

LinearBlocks(seed) == Sweep("try", "linear_try", 16, seed, 13) \o Finished
TemplateClones(seed) == Sweep("try", "template_try", 16, seed, 7) \o Finished
RethrowTowers(seed) == Sweep("call", "towerRoot", 8, seed, 11) \o Finished
VirtualDispatch(seed) == Sweep("try", "poly_try", 10, seed, 17) \o Finished

\* step picks the table entry, and the seed moves with the step.
FunctionPointerTable(seed) ==
  [k \in 1 .. 24 |->
     Try("table_try", << (seed + (k - 1) * 5) % 16, seed + k - 1 >>)] \o Finished

\* Finished in the try block and in its clause.
RecursiveFrames(seed) == << Call("Recursor", << 18, seed + 3 >>) >> \o Finished

ContainerAlgorithms(seed) == Sweep("try", "container_try", 12, seed, 19) \o Finished
VariantOptional(seed) == Sweep("call", "variantCase", 8, seed, 23) \o Finished

\* The 40 turns of the switch: half of its cases capture, half only mix.
SwitchForest(seed) ==
  LET traced == {i \in 0 .. 39 : (seed + i) % 16 \in {0, 1, 2, 3, 8, 9, 12, 13}}
  IN  << Guard >> \o [k \in 1 .. Cardinality(traced) |-> Capture] \o Finished

CleanupStorm(seed) == Sweep("try", "cleanup_try", 10, seed, 29) \o Finished

Programs == << "program01", "program02", "program03", "program04", "program05",
               "program06", "program07", "program08", "program09", "program10" >>

RunAllPrograms(seed) == [k \in 1 .. 10 |-> Call(Programs[k], << seed + k >>)]

\* Mutant of CfiRounds: the spare rounds are missing.
CfiRoundsExact(count) ==
  [k \in 1 .. count |-> Try("round_try", << (k - 1) * 257 + count * 17 >>)]

\* The exported function runs two rounds more than it was asked for.
CfiRounds(count) ==
  [k \in 1 .. count + 2 |-> Try("round_try", << (k - 1) * 257 + count * 17 >>)]

CfiBody(fn, args, exc) ==
  LET id   == args[1]
      seed == args[Len(args)]
  IN  CASE fn = CfiEntry           -> CfiRounds(seed)
        [] fn = "round_try"        -> << Call("runAllPrograms", args) >>
        [] fn = "runAllPrograms"   -> RunAllPrograms(seed)
        [] fn = "linear_try"       -> << Call("linearCase", args) >>
        [] fn = "linearCase"       -> LinearCase(id, seed)
        [] fn = "template_try"     -> << Call("templateCandidate", args) >>
        [] fn = "templateCandidate" -> TemplateCandidate(id, seed)
        [] fn = "towerRoot"        -> << Guard, Try("tower_root_try", args) >>
        [] fn = "tower_root_try"   -> TowerRootTry(id, seed)
        [] fn = "towerMid"         -> << Guard, Try("tower_mid_try", args) >>
        [] fn = "tower_mid_try"    -> TowerMidTry(id, seed)
        [] fn = "tower_mid_catch"  -> TowerMidCatch(id, exc)
        [] fn = "towerLeaf"        -> TowerLeaf(id, seed)
        [] fn = "poly_try"         -> << Call("PolyNode::eval", args) >>
        [] fn = "PolyNode::eval"   -> PolyEval(id, seed)
        [] fn = "table_try"        -> << Call("tableCase", args) >>
        [] fn = "tableCase"        -> TableCase(id, seed)
        [] fn = "recursor_try"     -> RecursiveFrames(seed)
        [] fn = "recursor_catch"   -> Caught \o Finished
        [] fn = "Recursor"         -> Recursor(id, seed)
        [] fn = "container_try"    -> << Call("containerCase", args) >>
        [] fn = "containerCase"    -> ContainerCase(id, seed)
        [] fn \in {"variantCase", "cleanup_lambda"} -> VariantCase
        [] fn = "cleanup_try"      -> << Call("cleanupCase", args) >>
        [] fn = "cleanupCase"      -> CleanupCase(id, seed)
        [] fn = "program01"        -> LinearBlocks(seed)
        [] fn = "program02"        -> TemplateClones(seed)
        [] fn = "program03"        -> RethrowTowers(seed)
        [] fn = "program04"        -> VirtualDispatch(seed)
        [] fn = "program05"        -> FunctionPointerTable(seed)
        [] fn = "program06"        -> << Try("recursor_try", << seed >>) >>
        [] fn = "program07"        -> ContainerAlgorithms(seed)
        [] fn = "program08"        -> VariantOptional(seed)
        [] fn = "program09"        -> SwitchForest(seed)
        [] fn = "program10"        -> CleanupStorm(seed)
        [] OTHER                   -> Caught

\* Mutant of CfiCatches: program10 catches the wrong type.
CfiCatchesSwapped(fn, type) ==
  CASE fn = "linear_try" /\ type = "SoftCfiError"     -> "soft_catch"
    [] fn = "tower_mid_try" /\ type = "SoftCfiError"  -> "tower_mid_catch"
    [] fn \in {"recursor_try", "cleanup_try"}
       /\ type = "SoftCfiError"                       -> "recursor_catch"
    [] fn \in {"template_try", "poly_try"}
       /\ type = "HardCfiError"                       -> "hard_catch"
    [] fn \in {"table_try", "container_try"}
       /\ type = "TableCfiError"                      -> "table_catch"
    [] fn = "tower_root_try"                          -> "tower_root_catch"
    [] fn = "round_try"                               -> "round_catch"
    [] OTHER                                          -> "none"

(***************************************************************************)
(* The catch clauses.  SoftCfiError, HardCfiError and TableCfiError derive *)
(* from CfiError and not from each other.                                  *)
(***************************************************************************)
CfiCatches(fn, type) ==
  CASE fn = "linear_try" /\ type = "SoftCfiError"     -> "soft_catch"
    [] fn = "tower_mid_try" /\ type = "SoftCfiError"  -> "tower_mid_catch"
    [] fn = "recursor_try" /\ type = "SoftCfiError"   -> "recursor_catch"
    [] fn \in {"template_try", "poly_try", "cleanup_try"}
       /\ type = "HardCfiError"                       -> "hard_catch"
    [] fn \in {"table_try", "container_try"}
       /\ type = "TableCfiError"                      -> "table_catch"
    [] fn = "tower_root_try"                          -> "tower_root_catch"
    [] fn = "round_try"                               -> "round_catch"
    [] OTHER                                          -> "none"
=============================================================================
