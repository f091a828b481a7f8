------------------------ MODULE MCStreamingTransfer ------------------------
(***************************************************************************)
(* Values for model-checking StreamingTransfer.                            *)
(***************************************************************************)
EXTENDS StreamingTransfer

\* Generations of one and of two rows.
SmallBatches == {1, 2}
=============================================================================
