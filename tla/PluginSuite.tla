---------------------------- MODULE PluginSuite -----------------------------
(***************************************************************************)
(* src/cfi_unwind_plugin_cases.cpp as a program for UnwindMachine: 32      *)
(* cases behind a table, each in a try block that takes PluginError.       *)
(***************************************************************************)
EXTENDS UnwindCode, SuiteVerdicts

PluginEntry == "run_unwind_plugin_suite"
PluginEvents == {"thrown", "caught"}

\* Mutant of PluginCase: no capture after the check.
PluginCaseShort(id, n) ==
  << Guard, Capture >> \o
  (IF (n + id) % 13 = 4 THEN Raise("PluginError", n + id * 100 + 4) ELSE << >>)

PluginCase(id, n) ==
  << Guard, Capture >> \o
  (IF (n + id) % 13 = 4 THEN Raise("PluginError", n + id * 100 + 4) ELSE << Capture >>)

\* Both loops of the exported function: kPluginCases[j](i * 97 + j).
PluginRounds(count) ==
  [k \in 1 .. count * 32 |->
     LET i == (k - 1) \div 32
         j == (k - 1) % 32
     IN  Try("case_try", << j, i * 97 + j >>)]

PluginBody(fn, args, exc) ==
  CASE fn = PluginEntry  -> PluginRounds(args[1])
    [] fn = "case_try"   -> << Call("pluginCase", args) >>
    [] fn = "pluginCase" -> PluginCase(args[1], args[2])
    [] OTHER             -> Caught

\* Mutant of PluginCatches: the clause is for another type.
PluginCatchesOther(fn, type) ==
  IF fn = "case_try" /\ type = "DeepError" THEN "case_catch" ELSE "none"

\* The catch clause.
PluginCatches(fn, type) ==
  IF fn = "case_try" /\ type = "PluginError" THEN "case_catch" ELSE "none"
=============================================================================
