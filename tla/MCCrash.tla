------------------------------- MODULE MCCrash ------------------------------
(***************************************************************************)
(* main and the three workers of the stress suite, one of the signals the  *)
(* driver does not handle (SIGBUS) and a passing and a failing result.     *)
(***************************************************************************)
EXTENDS CrashHandlers

MCWorkers == {"t0", "t1", "t2"}
MCUnhandled == {7}
MCCodes == {0, 24}
=============================================================================
