------------------------------- MODULE MCCfi --------------------------------
(***************************************************************************)
(* The cfi and cfi_ext suites, whose workload does not grow with their     *)
(* thresholds.                                                             *)
(***************************************************************************)
EXTENDS SuitePrograms

Healthy == [call |-> 0, at |-> 0, reach |-> 0, named |-> TRUE]
Nameless == [Healthy EXCEPT !.named = FALSE]
Cut(calls, captures, reaches) ==
  [call : calls, at : captures, reach : reaches, named : {TRUE}]

Cfi(counts, unwinders) ==
  [entry |-> CfiEntry, frames |-> 192, iterations |-> counts, calls |-> 1,
   unwinders |-> unwinders]
Ext(counts, unwinders) ==
  [entry |-> ExtEntry, frames |-> 224, iterations |-> counts, calls |-> 1,
   unwinders |-> unwinders]

(***************************************************************************)
(* Both sides of the threshold, and the default of the driver.  Walks cut: *)
(* the first one, one inside the recursion and one during a cleanup storm; *)
(* in the extended suite one in the catch ladder.                          *)
(***************************************************************************)
MCSuites ==
  { Cfi({1, 2, 3, 6}, {Healthy, Nameless} \cup Cut({1}, {1, 220, 1113}, {3})),
    Ext({1, 2, 3}, {Healthy} \cup Cut({1}, {700}, {4})) }

MCDefault == { Cfi({3}, {Healthy}) }
=============================================================================
