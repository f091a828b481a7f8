-------------------------- MODULE MCDataflowResume --------------------------
(***************************************************************************)
(* Instances of DataflowResume for TLC: a dataset of pool-packed single    *)
(* samples, one of fixed-size batches, one packed to a token budget.       *)
(***************************************************************************)
EXTENDS DataflowResume, TLC

CONSTANTS captions, videos, clips

MCLoaders == {captions, videos, clips}
MCDatasetSize == [l \in MCLoaders |-> IF l = videos THEN 4 ELSE 5]
MCBatcher == captions :> "pool" @@ videos :> "simple" @@ clips :> "sequential"
MCMaxBatch == captions :> 1 @@ videos :> 2 @@ clips :> 2
MCOversized == [s \in MCLoaders \X (0..1) |-> IF s = <<clips, 0>> THEN {3} ELSE IF s = <<clips, 1>> THEN {0} ELSE {}]
MCSelection ==
    [k \in 0..7 |-> IF k \in {0, 1, 4, 5} THEN clips ELSE IF k \in {2, 6} THEN videos ELSE captions]
=============================================================================
