------------------------------ MODULE MCScripts -----------------------------
(***************************************************************************)
(* Any commands over three versions of the sources; the driver passes,     *)
(* fails a suite or is killed by a signal.                                 *)
(***************************************************************************)
EXTENDS Scripts

MCCodes == {0, 24, -11}
=============================================================================
