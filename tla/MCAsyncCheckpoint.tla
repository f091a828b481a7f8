-------------------------- MODULE MCAsyncCheckpoint --------------------------
(***************************************************************************)
(* Instances of AsyncCheckpoint for TLC.                                   *)
(***************************************************************************)
EXTENDS AsyncCheckpoint
=============================================================================
