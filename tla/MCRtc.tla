-------------------------------- MODULE MCRtc --------------------------------
(***************************************************************************)
(* Rtc with two data words in each region.                                 *)
(***************************************************************************)
EXTENDS Rtc, TLC

MCWords == 1 :> 2 @@ 2 :> 2
Symmetric == Permutations(Values \ {Erased})
=============================================================================
