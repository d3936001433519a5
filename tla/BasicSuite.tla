----------------------------- MODULE BasicSuite -----------------------------
(***************************************************************************)
(* src/cfi_unwind_basic_cases.cpp as a program for UnwindMachine.  The 48  *)
(* instantiations of DEFINE_BASIC_CASE are one set of functions: nothing   *)
(* in the macro body depends on its ID but the symbol names.               *)
(***************************************************************************)
EXTENDS UnwindCode, SuiteVerdicts

BasicEntry == "run_unwind_basic_suite"
BasicEvents == {"thrown", "caught", "rethrows"}
RootCount == 48

(* ------------------------- DEFINE_BASIC_CASE -------------------------- *)

RepeatedLeaf(n) ==
  << Guard, Capture >> \o
  (IF n % 32 = 7 THEN Raise("LeafError", n + 1000)
   ELSE IF n % 64 = 11 THEN Raise("BranchError", n + 2000)
   ELSE << Capture >>)

RepeatedMid(n) == << Guard, Try("mid_try", << n >>) >>
MidTry(n) == << Capture, Call("repeated_leaf", << n + 1 >>), Capture >>
MidCatch(error) ==
  Caught \o (IF (error.code \div 2) % 2 # 0 THEN Reraise ELSE << >>)

RepeatedRoot(n) == << Guard, Try("root_try", << n >>) >>
RootTry(n) == << Capture, Call("repeated_mid", << n + 2 >>), Capture >>

(* ---------------------------- rethrow tower --------------------------- *)

RethrowLeaf(n) ==
  << Guard, Capture >> \o
  (IF n % 2 = 0 THEN Raise("LeafError", n + 3000) ELSE Raise("BranchError", n + 4000))

RethrowBridge2(n) == << Guard, Try("bridge2_try", << n >>) >>
Bridge2Try(n) == << Capture, Call("rethrowLeaf", << n + 1 >>) >>

RethrowBridge1(n) == << Guard, Try("bridge1_try", << n >>) >>
Bridge1Try(n) == << Capture, Call("rethrowBridge2", << n + 2 >>) >>

(* ------------------------------ drivers ------------------------------- *)

\* Both loops of dispatchRoots: kRoots[i] for each iter and each i.
DispatchRoots(count) ==
  [k \in 1 .. count * RootCount |->
     LET iter == (k - 1) \div RootCount
         i    == (k - 1) % RootCount
     IN  Try("dispatch_try", << iter * 97 + i * 3 + 1 >>)]

RunRethrowTower(count) ==
  [k \in 1 .. count * 16 |-> Call("rethrowBridge1", << k - 1 + 5 >>)]

BasicBody(fn, args, exc) ==
  LET n == args[1]
  IN  CASE fn = BasicEntry        -> << Try("entry_try", args) >>
        [] fn = "entry_try"       -> << Call("dispatchRoots", args), Call("runRethrowTower", args) >>
        [] fn = "dispatchRoots"   -> DispatchRoots(n)
        [] fn = "dispatch_try"    -> << Call("repeated_root", args) >>
        [] fn = "runRethrowTower" -> RunRethrowTower(n)
        [] fn = "repeated_root"   -> RepeatedRoot(n)
        [] fn = "root_try"        -> RootTry(n)
        [] fn = "repeated_mid"    -> RepeatedMid(n)
        [] fn = "mid_try"         -> MidTry(n)
        [] fn = "mid_catch"       -> MidCatch(exc)
        [] fn = "repeated_leaf"   -> RepeatedLeaf(n)
        [] fn = "rethrowBridge1"  -> RethrowBridge1(n)
        [] fn = "bridge1_try"     -> Bridge1Try(n)
        [] fn = "rethrowBridge2"  -> RethrowBridge2(n)
        [] fn = "bridge2_try"     -> Bridge2Try(n)
        [] fn = "bridge2_catch"   -> Caught \o Reraise
        [] fn = "rethrowLeaf"     -> RethrowLeaf(n)
        [] OTHER                  -> Caught

\* Mutants of BasicCatches: repeated_root and rethrowBridge1 catch BranchError only;
\* or every clause for BaseError and for anything else is missing.
BasicCatchesNarrow(fn, type) ==
  CASE fn = "mid_try" /\ type = "LeafError"     -> "mid_catch"
    [] fn = "bridge2_try" /\ type = "LeafError" -> "bridge2_catch"
    [] fn \in {"root_try", "bridge1_try"} /\ type = "BranchError" -> "branch_catch"
    [] fn = "dispatch_try"                      -> "dispatch_catch"
    [] fn = "entry_try"                         -> "entry_catch"
    [] OTHER                                    -> "none"
BasicCatchesExact(fn, type) ==
  CASE fn = "mid_try" /\ type = "LeafError"     -> "mid_catch"
    [] fn = "bridge2_try" /\ type = "LeafError" -> "bridge2_catch"
    [] fn \in {"root_try", "bridge1_try"} /\ type = "BranchError" -> "branch_catch"
    [] OTHER                                    -> "none"

(***************************************************************************)
(* The catch clauses, first match.  LeafError and BranchError derive from  *)
(* BaseError, so catch (const BaseError &) takes both.                     *)
(***************************************************************************)
BasicCatches(fn, type) ==
  CASE fn = "mid_try" /\ type = "LeafError"     -> "mid_catch"
    [] fn = "bridge2_try" /\ type = "LeafError" -> "bridge2_catch"
    [] fn \in {"root_try", "bridge1_try"}       ->
         IF type = "BranchError" THEN "branch_catch" ELSE "base_catch"
    [] fn = "dispatch_try"                      -> "dispatch_catch"
    [] fn = "entry_try"                         -> "entry_catch"
    [] OTHER                                    -> "none"
=============================================================================
