------------------------------ MODULE MCThreads -------------------------------
(***************************************************************************)
(* The stress suite's threads for the numbers of iterations around a       *)
(* second round per worker.                                                *)
(***************************************************************************)
EXTENDS StressThreads

MCIterations == {-1, 3, 5}

\* A broken walk and a whole one.
MCDepths == {4, 6}
=============================================================================
