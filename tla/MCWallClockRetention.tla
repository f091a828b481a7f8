------------------------ MODULE MCWallClockRetention ------------------------
(* TLC instance of WallClockRetention. *)
EXTENDS WallClockRetention

(* save_iter is lowered when the job is started again. *)
SaveIterLowered == [n \in 1..MaxRuns |-> IF n = 1 THEN MaxIter ELSE 2]
=============================================================================
