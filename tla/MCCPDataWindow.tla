--------------------------- MODULE MCCPDataWindow ---------------------------
(***************************************************************************)
(* Instances of CPDataWindow for TLC.                                      *)
(***************************************************************************)
EXTENDS CPDataWindow
=============================================================================
