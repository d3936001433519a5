------------------------------ MODULE MCStress ------------------------------
(***************************************************************************)
(* The stress suite for few iterations.                                    *)
(***************************************************************************)
EXTENDS SuitePrograms

Healthy == [call |-> 0, at |-> 0, reach |-> 0, named |-> TRUE]

Stress(counts, unwinders) ==
  [entry |-> StressEntry, frames |-> 128, iterations |-> counts, calls |-> 1,
   unwinders |-> unwinders]

\* Around the gap in which the suite fails, and the defaults of the driver and of
\* the scripts; a walk cut in the template tower of the first iteration.
MCSuites ==
  { Stress(1 .. 6 \cup {8},
           { Healthy, [Healthy EXCEPT !.named = FALSE] }
           \cup [call : {1}, at : {1, 250}, reach : {4}, named : {TRUE}]) }

MCFive == { Stress({5}, {Healthy}) }
=============================================================================
