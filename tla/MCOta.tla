-------------------------------- MODULE MCOta --------------------------------
(***************************************************************************)
(* Ota on a chip of nine sectors: one in front of each partition of three, *)
(* one behind, as in at_partition_table.                                   *)
(***************************************************************************)
EXTENDS Ota, TLC

MCFirstSec == 1 :> 1 @@ 2 :> 5
=============================================================================
