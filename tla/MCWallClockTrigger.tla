------------------------- MODULE MCWallClockTrigger -------------------------
(***************************************************************************)
(* Instances of WallClockTrigger for TLC.                                  *)
(***************************************************************************)
EXTENDS WallClockTrigger
=============================================================================
