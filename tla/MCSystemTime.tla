---------------------------- MODULE MCSystemTime ----------------------------
(***************************************************************************)
(* SystemTime on a counter of 16 values and a millisecond of 3             *)
(* microseconds: the 32-bit millisecond value overflows too (every 48 us). *)
(***************************************************************************)
EXTENDS SystemTime
=============================================================================
