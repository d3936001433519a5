------------------------------ MODULE ExtSuite ------------------------------
(***************************************************************************)
(* src/cfi_unwind_extended_candidate_cases.cpp as a program for            *)
(* UnwindMachine.  A case of a macro or template is one function with its  *)
(* ID as first argument; a plain block that owns a guard is a Try scope    *)
(* for which Catches names no clause.                                      *)
(***************************************************************************)
EXTENDS UnwindCode, SuiteVerdicts, FiniteSets

ExtEntry == "run_unwind_cfi_ext_suite"
ExtEvents == {"thrown", "caught", "rethrows", "programs"}

(* ------------------------- the case functions ------------------------- *)

\* The shape most cases have: a guard, a capture and a throw on some seeds.
PlainCase(throws, type, code) ==
  << Guard, Capture >> \o (IF throws THEN Raise(type, code) ELSE << >>)

WideCase(id, n) == PlainCase(n % 11 = id % 3, "MinorExtError", n + 3000)
MemberOp(n) == PlainCase(n % 13 = 4, "MajorExtError", n + 3200)
TupleCase(n) == PlainCase(n % 17 = 8, "MinorExtError", n + 3600)
DequeCase(n) == PlainCase(n % 19 = 6, "CallbackExtError", n + 3800)
OptionalHeapCase(n) == PlainCase(n % 23 = 10, "MajorExtError", n + 4200)
CallbackCase(n) == PlainCase(n % 29 = 12, "CallbackExtError", n + 4400)

\* Three nested blocks, each with its guard.
ScopeCase(args) == << Guard, Try("scope_mid", args), Capture >>
ScopeMid(args)  == << Guard, Try("scope_inner", args), Capture >>

\* Mutant of ScopeInner: the guard is constructed after the throw.
ScopeInnerLate(id, seed) ==
  << Capture, Call("nested", << seed >>) >> \o
  (IF (seed + id) % 16 = 5 THEN Raise("MajorExtError", seed + id + 3400) ELSE << Guard >>)

ScopeInner(id, seed) ==
  << Guard, Capture, Call("nested", << seed >>) >> \o
  (IF (seed + id) % 16 = 5 THEN Raise("MajorExtError", seed + id + 3400) ELSE << >>)

\* The state in which each of the 56 turns of the switch starts, for each state of
\* the first: state + 3 + i after state 0, state + 5 + i after state 1, and so on.
SwitchStates ==
  [first \in 0 .. 7 |->
     LET after == << 0 + 3, 1 + 5, 2 + 1, 3 + 6, 4 + 7, 5 + 2, 6 + 4, 7 >>
         state[i \in 0 .. 55] ==
           IF i = 0 THEN first ELSE (after[state[i - 1] + 1] + i - 1) % 8
     IN  [i \in 0 .. 55 |-> state[i]]]

\* The k-th of a set of turns.
NthOf(turns, k) == CHOOSE i \in turns : Cardinality({j \in turns : j < i}) = k - 1

\* The turns, in order, that do more than mix: those not in state 1, 3 or 5.
SwitchTurns ==
  [first \in 0 .. 7 |->
     LET busy == {i \in 0 .. 55 : SwitchStates[first][i] \notin {1, 3, 5}}
     IN  [k \in 1 .. Cardinality(busy) |-> NthOf(busy, k)]]

\* A turn in state 6 may throw to its own clause, the others capture.
StateMachineSwitch(seed) ==
  LET state == SwitchStates[seed % 8]
      turns == SwitchTurns[seed % 8]
  IN  << Guard >> \o
      [k \in 1 .. Len(turns) |->
         IF state[turns[k]] = 6 THEN Try("switch_try", << seed + turns[k] >>) ELSE Capture] \o
      Finished

SwitchTry(n) == IF n % 31 = 3 THEN Raise("MinorExtError", n + 4060) ELSE << Capture >>

\* program17
LadderRoot(seed) == << Call("ExtRecursor", << 16, seed + 5 >>) >> \o Finished

ExtRecursor(id, seed) ==
  << Guard, Capture >> \o
  (IF id > 0 THEN << Try("ladder_try", << id, seed >>) >>
   ELSE IF seed % 8 = 2 THEN Raise("MinorExtError", seed + 4100)
   ELSE << >>)

\* Mutant of LadderCatch: other rungs rethrow.
LadderCatchShifted(id) == Caught \o (IF id % 4 = 1 THEN Reraise ELSE << >>)

LadderCatch(id) == Caught \o (IF id % 4 = 0 THEN Reraise ELSE << >>)

CallbackMesh(seed) ==
  [k \in 1 .. 32 |->
     Try("callback_try", << (seed + (k - 1) * 7) % 12, seed + k - 1 >>)] \o Finished

EpilogueCase(args) == << Guard, Try("epilogue_try", args), Capture >>

EpilogueTry(id, seed) ==
  << Guard, Capture >> \o
  (IF (seed + id) % 16 = 9 THEN Raise("MajorExtError", seed + id + 4600) ELSE << Capture >>)

\* Mutant of EpilogueCatch: the rethrow is not counted.
EpilogueCatchUncounted(id, error) ==
  Caught \o (IF (error.code + id) % 8 = 1 THEN << [op |-> "rethrow"] >> ELSE << >>)

EpilogueCatch(id, error) ==
  Caught \o (IF (error.code + id) % 8 = 1 THEN Reraise ELSE << >>)

(* ---------------------------- the programs ---------------------------- *)

WideRegisterPressure(seed) == Sweep("try", "wide_try", 20, seed, 13) \o Finished
MemberPointers(seed) == Sweep("try", "member_try", 12, seed, 17) \o Finished
NestedCleanupScopes(seed) == Sweep("try", "scope_try", 12, seed, 19) \o Finished
TupleApply(seed) == Sweep("try", "tuple_try", 10, seed, 23) \o Finished
DequeVectorChurn(seed) == Sweep("try", "deque_try", 8, seed, 29) \o Finished
OptionalHeapPaths(seed) == Sweep("try", "heap_try", 8, seed, 31) \o Finished
SharedEpilogueCleanup(seed) == Sweep("try", "epilogue_root_try", 10, seed, 37) \o Finished

ExtPrograms == << "program11", "program12", "program13", "program14", "program15",
                  "program16", "program17", "program18", "program19", "program20" >>

RunAllExtPrograms(seed) == [k \in 1 .. 10 |-> Call(ExtPrograms[k], << seed + 10 + k >>)]

\* Mutant of ExtRounds: the spare rounds are missing.
ExtRoundsExact(count) ==
  [k \in 1 .. count |-> Try("round_try", << (k - 1) * 313 + count * 19 >>)]

\* The exported function runs two rounds more than it was asked for.
ExtRounds(count) ==
  [k \in 1 .. count + 2 |-> Try("round_try", << (k - 1) * 313 + count * 19 >>)]

ExtBody(fn, args, exc) ==
  LET id   == args[1]
      seed == args[Len(args)]
      n    == seed + id
  IN  CASE fn = ExtEntry          -> ExtRounds(seed)
        [] fn = "round_try"       -> << Call("runAllPrograms", args) >>
        [] fn = "runAllPrograms"  -> RunAllExtPrograms(seed)
        [] fn = "wide_try"        -> << Call("wideCase", args) >>
        [] fn = "wideCase"        -> WideCase(id, n)
        [] fn = "member_try"      -> << Call("MemberCluster::op", args) >>
        [] fn = "MemberCluster::op" -> MemberOp(n)
        [] fn = "scope_try"       -> << Call("scopeCase", args) >>
        [] fn = "scopeCase"       -> ScopeCase(args)
        [] fn = "scope_mid"       -> ScopeMid(args)
        [] fn = "scope_inner"     -> ScopeInner(id, seed)
        [] fn = "nested"          -> << Guard, Capture >>
        [] fn = "tuple_try"       -> << Call("tupleCase", args) >>
        [] fn = "tupleCase"       -> TupleCase(n)
        [] fn = "deque_try"       -> << Call("dequeCase", args) >>
        [] fn = "dequeCase"       -> DequeCase(n)
        [] fn = "switch_try"      -> SwitchTry(seed)
        [] fn = "ladder_root_try" -> LadderRoot(seed)
        [] fn = "ladder_root_catch" -> Caught \o Finished
        [] fn = "ExtRecursor"     -> ExtRecursor(id, seed)
        [] fn = "ladder_try"      -> << Call("ExtRecursor", << id - 1, seed + id >>) >>
        [] fn = "ladder_catch"    -> LadderCatch(id)
        [] fn = "heap_try"        -> << Call("optionalHeapCase", args) >>
        [] fn = "optionalHeapCase" -> OptionalHeapCase(n)
        [] fn = "callback_try"    -> << Call("callbackCase", args) >>
        [] fn = "callbackCase"    -> CallbackCase(n)
        [] fn = "epilogue_root_try" -> << Call("epilogueCase", args) >>
        [] fn = "epilogueCase"    -> EpilogueCase(args)
        [] fn = "epilogue_try"    -> EpilogueTry(id, seed)
        [] fn = "epilogue_catch"  -> EpilogueCatch(id, exc)
        [] fn = "program11"       -> WideRegisterPressure(seed)
        [] fn = "program12"       -> MemberPointers(seed)
        [] fn = "program13"       -> NestedCleanupScopes(seed)
        [] fn = "program14"       -> TupleApply(seed)
        [] fn = "program15"       -> DequeVectorChurn(seed)
        [] fn = "program16"       -> StateMachineSwitch(seed)
        [] fn = "program17"       -> << Try("ladder_root_try", args) >>
        [] fn = "program18"       -> OptionalHeapPaths(seed)
        [] fn = "program19"       -> CallbackMesh(seed)
        [] fn = "program20"       -> SharedEpilogueCleanup(seed)
        [] OTHER                  -> Caught

\* Mutant of ExtCatches: program20 catches the wrong type.
ExtCatchesSwapped(fn, type) ==
  CASE fn \in {"wide_try", "tuple_try", "switch_try", "epilogue_root_try"}
       /\ type = "MinorExtError"                        -> "minor_catch"
    [] fn \in {"member_try", "scope_try", "heap_try"}
       /\ type = "MajorExtError"                        -> "major_catch"
    [] fn \in {"deque_try", "callback_try"}
       /\ type = "CallbackExtError"                     -> "callback_catch"
    [] fn = "ladder_root_try" /\ type = "MinorExtError" -> "ladder_root_catch"
    [] fn = "ladder_try" /\ type = "MinorExtError"      -> "ladder_catch"
    [] fn = "epilogue_try" /\ type = "MajorExtError"    -> "epilogue_catch"
    [] fn = "round_try"                                 -> "round_catch"
    [] OTHER                                            -> "none"

(***************************************************************************)
(* The catch clauses.  MinorExtError, MajorExtError and CallbackExtError   *)
(* derive from ExtError and not from each other; the round also has a      *)
(* catch (...).                                                            *)
(***************************************************************************)
ExtCatches(fn, type) ==
  CASE fn \in {"wide_try", "tuple_try", "switch_try"}
       /\ type = "MinorExtError"                        -> "minor_catch"
    [] fn \in {"member_try", "scope_try", "heap_try", "epilogue_root_try"}
       /\ type = "MajorExtError"                        -> "major_catch"
    [] fn \in {"deque_try", "callback_try"}
       /\ type = "CallbackExtError"                     -> "callback_catch"
    [] fn = "ladder_root_try" /\ type = "MinorExtError" -> "ladder_root_catch"
    [] fn = "ladder_try" /\ type = "MinorExtError"      -> "ladder_catch"
    [] fn = "epilogue_try" /\ type = "MajorExtError"    -> "epilogue_catch"
    [] fn = "round_try"                                 -> "round_catch"
    [] OTHER                                            -> "none"
=============================================================================
