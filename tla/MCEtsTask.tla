------------------------------ MODULE MCEtsTask ------------------------------
(***************************************************************************)
(* EtsTask with a task below the mask of delay() whose queue holds one     *)
(* event (loop_task), a task above it, and a priority above both that the  *)
(* timer interrupt posts to.                                               *)
(***************************************************************************)
EXTENDS EtsTask, TLC

MCSize == 1 :> 1 @@ 2 :> 2 @@ 3 :> 2
=============================================================================
