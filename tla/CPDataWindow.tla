---------------------------- MODULE CPDataWindow ----------------------------
(***************************************************************************)
(* The context-parallel (CP) data window: ContextParallelDataWindow and    *)
(* the fetching part of ImaginaireTrainer (trainer/__init__.py), with the  *)
(* rotation of rank-local payloads in OmniMoTModel._get_training_inputs    *)
(* (model/generator/omni_mot_model.py).                                    *)
(*                                                                         *)
(* CpSize ranks each fetch one batch per window of CpSize training steps;  *)
(* in step s all of them train on the batch of rank s.  Ranks run on their *)
(* own between two collectives, the all_reduce of the stop flag and the    *)
(* broadcast of the payload.  A batch is its rank and its position in that *)
(* rank's stream; a checkpoint is the iteration it holds and, as history,  *)
(* what had been trained on by then and how many partial windows a resume  *)
(* from it has discarded.                                                  *)
(***************************************************************************)
EXTENDS Integers, Sequences

CONSTANTS
    CpSize,     \* cp_mesh.size()
    GradAccum,  \* trainer.grad_accum_iter
    SaveIter,   \* checkpoint.save_iter
    MaxIter,    \* trainer.max_iter
    MaxRuns,    \* bound: starts of the job
    MaxStops    \* bound: StopIterations of the dataloaders

ASSUME WindowAssumption ==
    /\ CpSize \in Nat \ {0} /\ GradAccum \in Nat \ {0} /\ SaveIter \in Nat \ {0}
    /\ MaxIter \in Nat /\ MaxRuns \in Nat /\ MaxStops \in Nat

Ranks == 0..CpSize - 1
Batch == [rank : Ranks, pos : Nat]
None == [rank |-> CpSize, pos |-> 0]

VARIABLES
    pc,        \* pc[r]: where the trainer of rank r is
    stop,      \* stop[r]: local_stop, the rank's part in the all_reduce
    window,    \* window[r]: _cp_data_window.batch
    offset,    \* offset[r]: _cp_data_window.offset
    data,      \* data[r]: data_batch, what the rank hands to its model
    slot,      \* slot[r]: the model's _cp_window_slot
    payload,   \* payload[r]: the model's _cp_local_training_payload
    pos,       \* pos[r]: position of the rank's dataloader
    accum,     \* grad_accum_iter, equal on all ranks
    iter,      \* iteration, equal on all ranks
    ckpt,      \* the newest checkpoint: [iter, trained, discarded]
    runs, stops,
    trained,   \* history: the batches this line of runs was trained on
    base,      \* history: how many of them before this run
    discarded  \* history: the partial windows this line of runs discarded

fetchVars == <<stop, window, offset, pos>>
modelVars == <<data, slot, payload>>
jobVars == <<accum, iter, ckpt, runs, trained, base, discarded>>
vars == <<pc, fetchVars, modelVars, jobVars, stops>>

Pc == {"fetch", "load", "vote", "take", "encode", "step", "done", "failed", "down"}

\* A mutant: the partial window is not skipped.
ResumeFetchCountFloor(iteration) == (iteration * GradAccum) \div CpSize

\* _resume_dataloader_fetch_count
ResumeFetchCount(iteration) ==
    (iteration * GradAccum + CpSize - 1) \div CpSize

NoCheckpoint == [iter |-> 0, trained |-> <<>>, discarded |-> 0]

Init ==
    /\ pc = [r \in Ranks |-> "fetch"]
    /\ stop = [r \in Ranks |-> FALSE]
    /\ window = [r \in Ranks |-> None] /\ offset = [r \in Ranks |-> 0]
    /\ data = [r \in Ranks |-> None]
    /\ slot = [r \in Ranks |-> 0] /\ payload = [r \in Ranks |-> None]
    /\ pos = [r \in Ranks |-> ResumeFetchCount(0)]
    /\ accum = 0 /\ iter = 0
    /\ ckpt = NoCheckpoint
    /\ runs = 1 /\ stops = 0
    /\ trained = <<>> /\ base = 0 /\ discarded = 0

----------------------------------------------------------------------------
(* The trainer's _fetch_data_batch.                                        *)

\* assert_synced_with_model raises when the offset is not the model's slot.
Desynced(r) == slot[r] # offset[r]

\* The loop ends at max_iter; otherwise an active window gives its batch, and
\* a new one has to load it.
FetchStart(r) ==
    /\ pc[r] = "fetch"
    /\ pc' = [pc EXCEPT ![r] = IF iter >= MaxIter THEN "done"
                               ELSE IF Desynced(r) THEN "failed"
                               ELSE IF window[r] # None THEN "take"
                               ELSE "load"]
    /\ UNCHANGED <<fetchVars, modelVars, jobVars, stops>>

\* next(dataloader_iter) at the start of a window returns a batch ...
FetchBatch(r) ==
    /\ pc[r] = "load"
    /\ window' = [window EXCEPT ![r] = [rank |-> r, pos |-> pos[r]]]
    /\ pos' = [pos EXCEPT ![r] = @ + 1]
    /\ stop' = [stop EXCEPT ![r] = FALSE]
    /\ pc' = [pc EXCEPT ![r] = "vote"]
    /\ UNCHANGED <<offset, modelVars, jobVars, stops>>

\* ... or raises StopIteration; the rank joins the all_reduce either way.
FetchStops(r) ==
    /\ pc[r] = "load"
    /\ stops < MaxStops
    /\ stops' = stops + 1
    /\ offset' = [offset EXCEPT ![r] = 0]
    /\ stop' = [stop EXCEPT ![r] = TRUE]
    /\ pc' = [pc EXCEPT ![r] = "vote"]
    /\ UNCHANGED <<window, pos, modelVars, jobVars>>

\* A mutant: a rank goes by its own flag only.
StopHereLocal(r) == stop[r]

\* What rank r learns from the all_reduce.
StopHere(r) == \E s \in Ranks : stop[s]

\* The all_reduce: a rank that stops clears its window, leaves the inner loop
\* and iterates over the dataloader again, at the position it had reached.
AllReduceStop ==
    /\ \A r \in Ranks : pc[r] = "vote"
    /\ window' = [r \in Ranks |-> IF StopHere(r) THEN None ELSE window[r]]
    /\ offset' = [r \in Ranks |-> IF StopHere(r) THEN 0 ELSE offset[r]]
    /\ pc' = [r \in Ranks |-> IF StopHere(r) THEN "fetch" ELSE "take"]
    /\ UNCHANGED <<stop, pos, modelVars, jobVars, stops>>

\* store_device_batch: the CUDA copy stays only while the window is active.
Stored(active, batch) == IF active THEN batch ELSE None

\* The cached batch is returned, the window advances and clears itself after
\* its last slot.
Take(r) ==
    /\ pc[r] = "take"
    /\ data' = [data EXCEPT ![r] = window[r]]
    /\ LET last == offset[r] + 1 = CpSize
       IN  /\ offset' = [offset EXCEPT ![r] = IF last THEN 0 ELSE @ + 1]
           /\ window' = [window EXCEPT ![r] = Stored(~last, window[r])]
    /\ pc' = [pc EXCEPT ![r] = "encode"]
    /\ UNCHANGED <<stop, pos, slot, payload, jobVars, stops>>

----------------------------------------------------------------------------
(* The model's _get_training_inputs and the rest of the training step.     *)

\* Slot 0 encodes the rank's own batch; later slots need that payload.
Encode(r) ==
    /\ pc[r] = "encode"
    /\ payload' = [payload EXCEPT ![r] = IF slot[r] = 0 THEN data[r] ELSE @]
    /\ pc' = [pc EXCEPT ![r] = IF payload'[r] = None THEN "failed" ELSE "step"]
    /\ UNCHANGED <<fetchVars, data, slot, jobVars, stops>>

\* A mutant: owners are one rank off.
OwnerNext(s) == (s + 1) % CpSize

\* CP rank s owns slot s.
Owner(s) == s

\* A mutant: the payload cache is cleared a slot too early.
LastSlotEarly(s) == s = CpSize - 2

\* After its last slot the payload cache is cleared.
LastSlot(s) == s = CpSize - 1

\* WallClockCheckpoint saves only between windows.
WallClockMaySave == \A r \in Ranks : window[r] = None /\ offset[r] = 0

\* The owner's payload is broadcast, every rank trains on it; an optimizer
\* step ends the iteration and may save a checkpoint.
TrainStep ==
    /\ \A r \in Ranks : pc[r] = "step"
    /\ LET s == slot[0]
           lastMicrostep == accum + 1 = GradAccum
           iteration == IF lastMicrostep THEN iter + 1 ELSE iter
       IN  /\ trained' = Append(trained, payload[Owner(s)])
           /\ payload' = IF LastSlot(s) THEN [r \in Ranks |-> None] ELSE payload
           /\ slot' = [r \in Ranks |-> (s + 1) % CpSize]
           /\ accum' = IF lastMicrostep THEN 0 ELSE accum + 1
           /\ iter' = iteration
           /\ \/ /\ lastMicrostep
                 /\ iteration % SaveIter = 0 \/ WallClockMaySave
                 /\ ckpt' = [iter |-> iteration, trained |-> trained',
                             discarded |-> discarded + IF slot'[0] = 0 THEN 0 ELSE 1]
              \/ /\ ~lastMicrostep \/ iteration % SaveIter # 0
                 /\ UNCHANGED ckpt
    /\ pc' = [r \in Ranks |-> "fetch"]
    /\ UNCHANGED <<fetchVars, data, runs, stops, base, discarded>>

----------------------------------------------------------------------------
\* The job is killed, and started again from its newest checkpoint.
Kill ==
    /\ runs < MaxRuns
    /\ \E r \in Ranks : pc[r] \notin {"done", "down"}
    /\ pc' = [r \in Ranks |-> "down"]
    /\ UNCHANGED <<fetchVars, modelVars, jobVars, stops>>

Restart ==
    /\ \A r \in Ranks : pc[r] = "down"
    /\ runs' = runs + 1
    /\ pc' = [r \in Ranks |-> "fetch"]
    /\ stop' = [r \in Ranks |-> FALSE]
    /\ window' = [r \in Ranks |-> None] /\ offset' = [r \in Ranks |-> 0]
    /\ data' = [r \in Ranks |-> None]
    /\ slot' = [r \in Ranks |-> 0] /\ payload' = [r \in Ranks |-> None]
    /\ pos' = [r \in Ranks |-> ResumeFetchCount(ckpt.iter)]
    /\ accum' = 0 /\ iter' = ckpt.iter
    /\ trained' = ckpt.trained /\ base' = Len(ckpt.trained) /\ discarded' = ckpt.discarded
    /\ UNCHANGED <<ckpt, stops>>

RankStep(r) ==
    FetchStart(r) \/ FetchBatch(r) \/ FetchStops(r) \/ Take(r) \/ Encode(r)

Collective == AllReduceStop \/ TrainStep

Next ==
    \/ \E r \in Ranks : RankStep(r)
    \/ Collective
    \/ Kill
    \/ Restart

Spec == Init /\ [][Next]_vars

\* Processes run, collectives complete once every rank has joined them, and a
\* killed job is started again.
FairSpec ==
    /\ Spec
    /\ WF_vars((\E r \in Ranks : RankStep(r)) \/ Collective)
    /\ WF_vars(Restart)

----------------------------------------------------------------------------
(***************************************************************************)
(* The trainer's offset and the model's slot, advanced by different code,  *)
(* never drift apart, no slot is reached without its payload, and all CP   *)
(* ranks enter the broadcast with the same owner.                          *)
(***************************************************************************)
NoDesync ==
    /\ \A r \in Ranks : pc[r] # "failed"
    /\ (\A r \in Ranks : pc[r] = "step") => \A r, s \in Ranks : slot[r] = slot[s]

(***************************************************************************)
(* Owners take turns: step k of a run trains on a batch of rank            *)
(* (k - 1) mod CpSize, so each rank's batch of a window is used exactly    *)
(* once, whatever stops at which window.                                   *)
(***************************************************************************)
OwnersTakeTurns ==
    \A k \in base + 1..Len(trained) : trained[k].rank = (k - base - 1) % CpSize

NoneRepeated == \A i, j \in 1..Len(trained) : i # j => trained[i] # trained[j]

(***************************************************************************)
(* No batch is trained on twice in one line of runs, even if a run resumes *)
(* in the middle of a window, discards what is left of it and starts at    *)
(* the next raw batch.  This is so for the first window that a line of     *)
(* runs discards.  The position a run resumes at counts the windows as if  *)
(* they had followed one another from iteration 0, so it is a batch behind *)
(* once a second one is discarded; and it does not count a batch that a    *)
(* rank dropped because the dataloader of another one had ended.           *)
(***************************************************************************)
NoReplay == (stops = 0 /\ discarded <= 1) \/ base = 0 => NoneRepeated

(***************************************************************************)
(* What the docstring says of every resume: "starting at the next raw      *)
(* batch avoids replaying any data from that partial window".              *)
(***************************************************************************)
ResumeAvoidsReplay == stops = 0 => NoneRepeated

(***************************************************************************)
(* Training reaches max_iter: no rank waits in one collective while        *)
(* another is past it or in the other one.                                 *)
(***************************************************************************)
TrainingEnds == <>[](\A r \in Ranks : pc[r] = "done")
=============================================================================
