------------------------ MODULE MCAsyncBatchBuilder ------------------------
(***************************************************************************)
(* Instances of AsyncBatchBuilder for TLC.                                 *)
(***************************************************************************)
EXTENDS AsyncBatchBuilder

\* A fresh run and one resumed from a later iteration.
FreshAndResumed == {0, 3}
=============================================================================
