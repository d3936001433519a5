----------------------------- MODULE DeepSuite ------------------------------
(***************************************************************************)
(* src/cfi_unwind_deep_cases.cpp as a program for UnwindMachine.  Which    *)
(* alternative a variant holds has no effect on control.  The exported     *)
(* function has no try block of its own.                                   *)
(***************************************************************************)
EXTENDS UnwindCode, SuiteVerdicts, FiniteSets

DeepEntry == "run_unwind_deep_suite"
DeepEvents == {"thrown", "caught", "rethrows", "visits", "recursion_entries"}

\* std::to_string(n).size() for n >= 0
Digits(n) == 1 + Cardinality({k \in 1 .. 9 : 10 ^ k <= n})

VisitVariant == << Count("visits"), Capture >>

RunContainerCase(seed) ==
  << Guard >> \o [i \in 1 .. 14 |-> Call("visitVariant", << >>)] \o
  (IF seed % 29 = 7 THEN Raise("ContainerError", seed + 700) ELSE << Capture >>)

NodeEval(id, seed) ==
  << Guard, Capture, Call("runContainerCase", << seed + id * 3 >>) >> \o
  (IF (seed + id) % 31 = 11 THEN Raise("NodeError", seed + id * 900 + 11) ELSE << >>)

NodeCatch(error) == Caught \o (IF error.code % 2 # 0 THEN Reraise ELSE << >>)

RunNodeGraph(seed) == Sweep("try", "node_try", 12, seed, 5)

DeepRecursor(depth, seed) ==
  << Count("recursion_entries"), Guard, Capture >> \o
  (IF depth = 0 THEN << >>
   ELSE IF (seed + depth) % 97 = 13 THEN Raise("RecursiveError", seed + depth * 1000)
   ELSE << Call("DeepRecursor", << depth - 1, seed + depth >>) >>)

\* The optional holds a tuple for an even seed; b is "tuple-" and the seed.
OptionalTupleCase(seed) ==
  << Guard, Capture,
     Call("runNodeGraph", << seed + (IF seed % 2 = 0 THEN 6 + Digits(seed) ELSE 7) >>) >>

DeepIteration(seed) ==
  << Try("recursor_try", << 36, seed + 1 >>),
     Try("tuple_try", << seed + 3 >>),
     Try("container_try", << seed + 5 >>) >>

\* The loop of the exported function.
DeepRounds(count) == [k \in 1 .. count |-> Call("runDeepIteration", << (k - 1) * 101 + 17 >>)]

DeepBody(fn, args, exc) ==
  LET id   == args[1]
      seed == args[Len(args)]
  IN  CASE fn = DeepEntry              -> DeepRounds(seed)
        [] fn = "runDeepIteration"     -> DeepIteration(seed)
        [] fn = "recursor_try"         -> << Call("DeepRecursor", args) >>
        [] fn = "DeepRecursor"         -> DeepRecursor(id, seed)
        [] fn = "tuple_try"            -> << Call("runOptionalTupleCase", args) >>
        [] fn = "runOptionalTupleCase" -> OptionalTupleCase(seed)
        [] fn = "runNodeGraph"         -> RunNodeGraph(seed)
        [] fn = "node_try"             -> << Call("Node::eval", args) >>
        [] fn = "Node::eval"           -> NodeEval(id, seed)
        [] fn = "node_catch"           -> NodeCatch(exc)
        [] fn = "container_try"        -> << Call("runContainerCase", args) >>
        [] fn = "runContainerCase"     -> RunContainerCase(seed)
        [] fn = "visitVariant"         -> VisitVariant
        [] OTHER                       -> Caught

\* Mutant of DeepCatches: runDeepIteration expects a NodeError from the node graph.
DeepCatchesNarrow(fn, type) ==
  CASE fn = "recursor_try" /\ type = "RecursiveError"  -> "recursor_catch"
    [] fn = "tuple_try" /\ type = "ContainerError"     -> "tuple_catch"
    [] fn = "container_try" /\ type = "ContainerError" -> "container_catch"
    [] fn = "node_try" /\ type = "ContainerError"      -> "node_container_catch"
    [] fn = "node_try" /\ type = "NodeError"           -> "node_catch"
    [] OTHER                                           -> "none"

\* The catch clauses; that of tuple_try takes every DeepError.
DeepCatches(fn, type) ==
  CASE fn = "recursor_try" /\ type = "RecursiveError"  -> "recursor_catch"
    [] fn = "tuple_try"                                -> "tuple_catch"
    [] fn = "container_try" /\ type = "ContainerError" -> "container_catch"
    [] fn = "node_try" /\ type = "ContainerError"      -> "node_container_catch"
    [] fn = "node_try" /\ type = "NodeError"           -> "node_catch"
    [] OTHER                                           -> "none"
=============================================================================
