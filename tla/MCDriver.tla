------------------------------ MODULE MCDriver ------------------------------
(***************************************************************************)
(* The driver with and without the plugin, for a clamped and for several   *)
(* numbers of rounds, over libraries that can and cannot be unmapped.      *)
(***************************************************************************)
EXTENDS Driver

MCRequests == [rounds : {0, 2, 3}, plugin : BOOLEAN]

\* No library, one or both of them; the GCC builds, where both instantiate the digit
\* table of std::to_string.
MCBuilds == SUBSET {"main", "plugin"}
MCGccBuilds == { {"main", "plugin"} }
=============================================================================
