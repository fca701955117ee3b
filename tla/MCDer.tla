-------------------------------- MODULE MCDer --------------------------------
(* basicConstraints and sha256WithRSAEncryption; lengths on both sides of   *)
(* the boundaries of the length field.                                      *)
EXTENDS Der

MCOids == { <<2, 5, 29, 19>>, <<1, 2, 840, 113549, 1, 1, 11>> }
MCBitSets == { {}, {0, 5, 6}, {7, 8} }
==============================================================================
