--------------------------- MODULE SuitePrograms ----------------------------
(***************************************************************************)
(* The six suites as the programs of UnwindMachine, by exported function.  *)
(***************************************************************************)
EXTENDS SuiteClaims, BasicSuite, CfiSuite, DeepSuite, ExtSuite, PluginSuite, StressSuite

SuiteBody(entry, fn, args, exc) ==
  CASE entry = BasicEntry  -> BasicBody(fn, args, exc)
    [] entry = CfiEntry    -> CfiBody(fn, args, exc)
    [] entry = DeepEntry   -> DeepBody(fn, args, exc)
    [] entry = ExtEntry    -> ExtBody(fn, args, exc)
    [] entry = PluginEntry -> PluginBody(fn, args, exc)
    [] entry = StressEntry -> StressBody(fn, args, exc)

SuiteCatches(entry, fn, type) ==
  CASE entry = BasicEntry  -> BasicCatches(fn, type)
    [] entry = CfiEntry    -> CfiCatches(fn, type)
    [] entry = DeepEntry   -> DeepCatches(fn, type)
    [] entry = ExtEntry    -> ExtCatches(fn, type)
    [] entry = PluginEntry -> PluginCatches(fn, type)
    [] entry = StressEntry -> StressCatches(fn, type)

SuiteVerdict(entry, m, count, strict) ==
  CASE entry = BasicEntry  -> BasicVerdict(m, count, strict)
    [] entry = CfiEntry    -> CfiVerdict(m, count, strict)
    [] entry = DeepEntry   -> DeepVerdict(m, count, strict)
    [] entry = ExtEntry    -> ExtVerdict(m, count, strict)
    [] entry = PluginEntry -> PluginVerdict(m, count, strict)
    [] entry = StressEntry -> StressVerdict(m, count, strict)

SuiteEvents ==
  BasicEvents \cup CfiEvents \cup DeepEvents \cup ExtEvents \cup PluginEvents \cup StressEvents
=============================================================================
