--------------------------- MODULE SuiteVerdicts ----------------------------
(***************************************************************************)
(* finishResult of each suite: the return code it computes from the        *)
(* counters of a call, the (clamped) number of iterations and the strict   *)
(* flag.  The checks are in the order of the code, first failure wins.     *)
(***************************************************************************)
EXTENDS Integers

\* Mutants of TraceVerdict: the strict check is missing; one shallow trace is tolerated.
TraceVerdictLenient(m, strict, shallow, unnamed) ==
  IF m.minDepth < 5 \/ m.shallow # 0 THEN shallow ELSE 0
TraceVerdictTolerant(m, strict, shallow, unnamed) ==
  IF m.shallow > 1 THEN shallow
  ELSE IF strict /\ m.own = 0 THEN unnamed
  ELSE 0

\* The last two checks, which every suite makes.
TraceVerdict(m, strict, shallow, unnamed) ==
  IF m.minDepth < 5 \/ m.shallow # 0 THEN shallow
  ELSE IF strict /\ m.own = 0 THEN unnamed
  ELSE 0

FewExceptions(m, least) == m.events["thrown"] < least \/ m.events["caught"] < least

BasicVerdict(m, count, strict) ==
  IF m.captures < count * 48 * 4 THEN 2
  ELSE IF FewExceptions(m, count * 16) THEN 3
  ELSE IF m.destructors < count * 96 THEN 4
  ELSE TraceVerdict(m, strict, 5, 6)

\* Of a call in which the workers' rounds are counted like any other event.
StressVerdict(m, count, strict) ==
  LET least == IF count * 4 > 6 THEN count * 4 ELSE 6
  IN  IF m.captures < count * 320 THEN 20
      ELSE IF FewExceptions(m, least) THEN 21
      ELSE IF m.destructors < count * 180 THEN 22
      ELSE IF m.events["virtual_calls"] < count * 8 \/ m.events["thread_rounds"] < count THEN 23
      ELSE TraceVerdict(m, strict, 24, 25)

CfiVerdict(m, count, strict) ==
  IF m.events["programs"] < count * 10 THEN 40
  ELSE IF m.captures < count * 420 THEN 41
  ELSE IF FewExceptions(m, count * 12) THEN 42
  ELSE IF m.destructors < count * 260 THEN 43
  ELSE TraceVerdict(m, strict, 44, 45)

\* Mutant of DeepVerdict: the threshold fits the iterations that recurse to the end.
DeepVerdictHigh(m, count, strict) ==
  IF m.captures < count * 180 THEN 30
  ELSE IF m.destructors < count * 50 THEN 31
  ELSE IF m.events["visits"] < count * 40 \/ m.events["recursion_entries"] < count * 37 THEN 32
  ELSE TraceVerdict(m, strict, 33, 34)

DeepVerdict(m, count, strict) ==
  IF m.captures < count * 180 THEN 30
  ELSE IF m.destructors < count * 50 THEN 31
  ELSE IF m.events["visits"] < count * 40 \/ m.events["recursion_entries"] < count * 20 THEN 32
  ELSE TraceVerdict(m, strict, 33, 34)

ExtVerdict(m, count, strict) ==
  IF m.events["programs"] < count * 10 THEN 50
  ELSE IF m.captures < count * 520 THEN 51
  ELSE IF FewExceptions(m, count * 10) THEN 52
  ELSE IF m.destructors < count * 300 THEN 53
  ELSE TraceVerdict(m, strict, 54, 55)

PluginVerdict(m, count, strict) ==
  IF m.captures < count * 96 THEN 40
  ELSE IF m.destructors < count * 32 THEN 41
  ELSE TraceVerdict(m, strict, 42, 43)
=============================================================================
