------------------------------- MODULE MCFota -------------------------------
(***************************************************************************)
(* Fota on the chip of MCOta, with pieces longer than a sector.            *)
(***************************************************************************)
EXTENDS Fota, TLC

MCFirstSec == 1 :> 1 @@ 2 :> 5
Symmetric == Permutations(Images)
=============================================================================
