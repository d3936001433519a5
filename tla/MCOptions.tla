----------------------------- MODULE MCOptions ------------------------------
(***************************************************************************)
(* Every command line of up to MaxWords words over the flags, a path, a    *)
(* word that is no number and numbers inside and outside an int of twelve  *)
(* bits: 4099 narrows to 3 and 2050 to -2046.                              *)
(***************************************************************************)
EXTENDS Options, TLC

MaxWords == 4

MCWords ==
  {"--lib", "--plugin", "--no-plugin", "--iterations", "--dlclose-rounds",
   "--verbose", "--no-strict-dso", "--help", "path", "0", "9", "2050", "4099"}
MCCommandLines == UNION { [1 .. n -> MCWords] : n \in 0 .. MaxWords }
MCNumeral == ("0" :> 0) @@ ("9" :> 9) @@ ("2050" :> 2050) @@ ("4099" :> 4099)
=============================================================================
