------------------------------ MODULE MCSuites ------------------------------
(***************************************************************************)
(* The basic, deep and plugin suites, whose thresholds a sound unwinder    *)
(* meets.                                                                  *)
(***************************************************************************)
EXTENDS SuitePrograms

Healthy == [call |-> 0, at |-> 0, reach |-> 0, named |-> TRUE]
Nameless == [Healthy EXCEPT !.named = FALSE]
Cut(calls, captures, reaches) ==
  [call : calls, at : captures, reach : reaches, named : {TRUE}]

(***************************************************************************)
(* basic: a clamped argument, and enough rounds for every throw condition; *)
(*   walks cut in the first call (its first capture, one during an unwind, *)
(*   its last) or in the second.                                           *)
(* deep: enough iterations for every throw and for the rethrow of          *)
(*   runNodeGraph; the first walk cut, and one at the end of a recursion.  *)
(* plugin: walks cut in the first capture, during the first unwind, and in *)
(*   the last.                                                             *)
(***************************************************************************)
MCSuites ==
  { [entry |-> BasicEntry, frames |-> 96, iterations |-> {0, 2}, calls |-> 2,
     unwinders |-> {Healthy, Nameless} \cup Cut({1}, {1, 15, 548}, {0, 4})
                                       \cup Cut({2}, {300}, {4})],
    [entry |-> DeepEntry, frames |-> 160, iterations |-> {1, 20}, calls |-> 1,
     unwinders |-> {Healthy, Nameless} \cup Cut({1}, {1, 37}, {4})],
    [entry |-> PluginEntry, frames |-> 96, iterations |-> {-1, 1, 4}, calls |-> 2,
     unwinders |-> {Healthy, Nameless} \cup Cut({1, 2}, {1, 8, 96, 384}, {4})] }
=============================================================================
