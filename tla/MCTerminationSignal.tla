------------------------ MODULE MCTerminationSignal ------------------------
(***************************************************************************)
(* Instances of TerminationSignal for TLC.                                 *)
(***************************************************************************)
EXTENDS TerminationSignal
=============================================================================
