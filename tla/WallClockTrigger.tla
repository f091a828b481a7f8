-------------------------- MODULE WallClockTrigger --------------------------
(***************************************************************************)
(* When a wall-clock checkpoint is taken: the trigger of                   *)
(* WallClockCheckpoint (callbacks/wall_clock_checkpoint.py) on all ranks.  *)
(*                                                                         *)
(* Rank 0 owns the timer.  At the end of a step each rank decides from its *)
(* own copy of the state whether to join the broadcast of rank 0's         *)
(* decision, which also says how many steps may pass before the next one.  *)
(* Time is counted in whole units on rank 0's clock; the clocks of the     *)
(* other ranks, whose answers are discarded, say anything.                 *)
(* The smoothed step time lies between the fastest and the slowest step    *)
(* observed, and is any value between them.  The step time includes the    *)
(* time a save blocked the step; staging takes no time.                    *)
(***************************************************************************)
EXTENDS Integers, Sequences, FiniteSetsExt

CONSTANTS
    NumRanks,
    Interval,       \* interval_minutes
    CheckEveryN,    \* check_every_n
    MinIterations,  \* min_iterations
    AssumedWrite,   \* assumed_write_minutes
    SampleWindow,   \* WRITE_SAMPLE_WINDOW
    SaveIter,       \* checkpoint.save_iter
    CpSize,         \* steps in a context-parallel data window, 1 without one
    MaxIter,        \* trainer.max_iter
    StepTimes,      \* how long a training step may take
    WriteTimes      \* how long a background write may take

ASSUME TriggerAssumption ==
    /\ {NumRanks, Interval, CheckEveryN, MinIterations, SampleWindow, SaveIter, CpSize}
         \subseteq Nat \ {0}
    /\ AssumedWrite \in Nat /\ MaxIter \in Nat
    /\ StepTimes \subseteq Nat \ {0} /\ WriteTimes \subseteq Nat \ {0}

Ranks == 0..NumRanks - 1

VARIABLES
    iteration,  \* equal on all ranks
    pc,         \* pc[r]: where rank r is in the step
    nextCheck,  \* nextCheck[r]: _next_check_iteration
    lastSave,   \* lastSave[r]: _last_checkpoint_iteration
    offer,      \* offer[r]: what r brings to the broadcast
    \* rank 0
    elapsed,    \* time since _last_checkpoint_time
    sinceStep,  \* time since _previous_step_end, NoTime before the first
    fastest, slowest,  \* bounds of _step_seconds, 0 before there is one
    samples,    \* _write_samples
    \* the asynchronous write under way, as rank 0 sees it
    write       \* its iteration, its duration, what is left of it, and for a
                \* wall-clock save the duration it was planned with

rankVars == <<pc, nextCheck, lastSave, offer>>
clockVars == <<elapsed, sinceStep, fastest, slowest, samples, write>>
vars == <<iteration, rankVars, clockVars>>

NoTime == -1
NoWrite == [iter |-> 0, length |-> 0, left |-> 0, planned |-> 0]
NoOffer == [due |-> FALSE, stride |-> 1]
Durations == 0..Max(StepTimes) + Max(WriteTimes)

\* on_train_start
Init ==
    /\ iteration = 0
    /\ pc = [r \in Ranks |-> "train"]
    /\ nextCheck = [r \in Ranks |-> 0]
    /\ lastSave = [r \in Ranks |-> 0]
    /\ offer = [r \in Ranks |-> NoOffer]
    /\ elapsed = 0 /\ sinceStep = NoTime
    /\ fastest = 0 /\ slowest = 0
    /\ samples = <<>> /\ write = NoWrite

Goto(r, label) == pc' = [pc EXCEPT ![r] = label]

AllAt(label) == \A r \in Ranks : pc[r] = label

----------------------------------------------------------------------------
(* The training loop and the checkpointer.                                 *)

Later(time, d) == IF time = NoTime THEN NoTime ELSE time + d

\* One optimizer step of all ranks.
TrainStep ==
    /\ AllAt("train")
    /\ iteration < MaxIter
    /\ iteration' = iteration + 1
    /\ \E d \in StepTimes :
         /\ elapsed' = elapsed + d
         /\ sinceStep' = Later(sinceStep, d)
         /\ write' = [write EXCEPT !.left = Max({0, write.left - d})]
    /\ pc' = [r \in Ranks |-> IF iteration' % SaveIter = 0 THEN "milestone" ELSE "stepEnd"]
    /\ UNCHANGED <<nextCheck, lastSave, offer, fastest, slowest, samples>>

EndTraining ==
    /\ AllAt("train")
    /\ iteration = MaxIter
    /\ pc' = [r \in Ranks |-> "done"]
    /\ UNCHANGED <<iteration, nextCheck, lastSave, offer, clockVars>>

\* on_save_checkpoint_success, when a write is confirmed: _observe_write_duration.
Observed == IF write.length = 0 THEN samples
            ELSE LET all == Append(samples, write.length)
                 IN  IF Len(all) > SampleWindow THEN Tail(all) ELSE all

\* The write duration to plan against.
WriteEstimate == Max({AssumedWrite} \cup {samples[n] : n \in 1..Len(samples)})

\* save() waits for the write before, resets the timer in
\* on_save_checkpoint_start and starts its own write.
Save(r) ==
    /\ pc[r] \in {"milestone", "wallclock"}
    /\ lastSave' = [lastSave EXCEPT ![r] = iteration]
    /\ Goto(r, IF pc[r] = "milestone" THEN "stepEnd" ELSE "poll")
    /\ IF r = 0
         THEN /\ sinceStep' = Later(sinceStep, write.left)
              /\ samples' = Observed
              /\ \E d \in WriteTimes :
                   write' = [iter |-> iteration, length |-> d, left |-> d,
                             planned |-> IF pc[r] = "milestone" THEN 0
                                         ELSE WriteEstimate - write.left]
              /\ elapsed' = 0
         ELSE UNCHANGED <<sinceStep, samples, write, elapsed>>
    /\ UNCHANGED <<iteration, nextCheck, offer, fastest, slowest>>

\* ConfirmAsyncCheckpoint, the last callback, confirms a write that has ended.
Poll(r) ==
    /\ pc[r] = "poll"
    /\ Goto(r, "train")
    /\ IF r = 0 /\ write.left = 0
         THEN samples' = Observed /\ write' = NoWrite
         ELSE UNCHANGED <<samples, write>>
    /\ UNCHANGED <<iteration, nextCheck, lastSave, offer, elapsed, sinceStep, fastest, slowest>>

----------------------------------------------------------------------------
(* on_training_step_end                                                    *)

\* _observe_step_duration.  A rank other than 0 keeps times that do not matter.
ObserveStep(r) ==
    /\ pc[r] = "stepEnd"
    /\ Goto(r, "evaluate")
    /\ IF r = 0
         THEN /\ sinceStep' = 0
              /\ slowest' = IF sinceStep = NoTime THEN 0 ELSE Max({slowest, sinceStep})
              /\ fastest' = IF sinceStep = NoTime THEN 0
                            ELSE IF fastest = 0 THEN sinceStep
                            ELSE IF sinceStep < fastest THEN sinceStep ELSE fastest
         ELSE UNCHANGED <<sinceStep, slowest, fastest>>
    /\ UNCHANGED <<iteration, nextCheck, lastSave, offer, elapsed, samples, write>>

TooClose(r) == iteration - lastSave[r] < MinIterations

NotYet(r) ==
    /\ pc[r] = "evaluate"
    /\ iteration < nextCheck[r]
    /\ Goto(r, "poll")
    /\ UNCHANGED <<iteration, nextCheck, lastSave, offer, clockVars>>

SkipTooClose(r) ==
    /\ pc[r] = "evaluate"
    /\ iteration >= nextCheck[r]
    /\ TooClose(r)
    /\ nextCheck' = [nextCheck EXCEPT ![r] = iteration + 1]
    /\ Goto(r, "poll")
    /\ UNCHANGED <<iteration, lastSave, offer, clockVars>>

StepsToMilestone == SaveIter - (iteration % SaveIter)

\* Mutant: the distance to the milestone is taken from the wrong end.
StepsFromMilestone == iteration % SaveIter
MilestoneLandsMidWriteWrongEnd ==
    IF slowest = 0 THEN {FALSE}
    ELSE {StepsFromMilestone * fastest < WriteEstimate, StepsFromMilestone * slowest < WriteEstimate}

\* The answers _milestone_lands_mid_write can give.
MilestoneLandsMidWrite ==
    IF slowest = 0 THEN {FALSE}
    ELSE {StepsToMilestone * fastest < WriteEstimate, StepsToMilestone * slowest < WriteEstimate}

\* Mutant: the stride spans the interval, not what remains of it.
NextStrideWhole ==
    IF Interval <= elapsed \/ slowest = 0 THEN {1}
    ELSE {Max({1, Min({CheckEveryN, n})}) : n \in (Interval \div slowest)..(Interval \div fastest)}

\* The strides _next_stride can compute.
Remaining == Interval - elapsed
NextStride ==
    IF Remaining <= 0 \/ slowest = 0 THEN {1}
    ELSE {Max({1, Min({CheckEveryN, n})}) : n \in (Remaining \div slowest)..(Remaining \div fastest)}

Offers(r) ==
    IF r = 0 THEN [due : {elapsed >= Interval /\ ~m : m \in MilestoneLandsMidWrite}, stride : NextStride]
             ELSE [due : BOOLEAN, stride : 1..CheckEveryN]

\* The rank enters the broadcast with its own answer.
Offer(r) ==
    /\ pc[r] = "evaluate"
    /\ iteration >= nextCheck[r]
    /\ ~TooClose(r)
    /\ offer' \in {[offer EXCEPT ![r] = o] : o \in Offers(r)}
    /\ Goto(r, "decide")
    /\ UNCHANGED <<iteration, nextCheck, lastSave, clockVars>>

\* Mutant: each rank keeps its own answer.
AgreedLocally(r) == offer[r]

\* _agree_on_save: rank 0's answer replaces every rank's.
Agreed(r) == offer[0]

CpDataWindowActive == iteration % CpSize # 0

\* The broadcast, and what each rank makes of it.
Agree ==
    /\ AllAt("decide")
    /\ nextCheck' = [r \in Ranks |->
         IF Agreed(r).due /\ CpDataWindowActive THEN iteration + 1
                                                ELSE iteration + Agreed(r).stride]
    /\ pc' = [r \in Ranks |->
         IF Agreed(r).due /\ ~CpDataWindowActive THEN "wallclock" ELSE "poll"]
    /\ offer' = [r \in Ranks |-> NoOffer]
    /\ UNCHANGED <<iteration, lastSave, clockVars>>

----------------------------------------------------------------------------
RankStep(r) ==
    Save(r) \/ Poll(r) \/ ObserveStep(r) \/ NotYet(r) \/ SkipTooClose(r) \/ Offer(r)

Done == AllAt("done") /\ UNCHANGED vars

Next ==
    \/ TrainStep
    \/ EndTraining
    \/ Agree
    \/ \E r \in Ranks : RankStep(r)
    \/ Done

Spec == Init /\ [][Next]_vars

----------------------------------------------------------------------------
(***************************************************************************)
(* "Every rank must reach the same conclusion on every step", whatever    *)
(* their clocks say: between two steps all ranks have the same next check  *)
(* and the same last save, and when one of them has entered the broadcast  *)
(* none has passed it by.                                                  *)
(***************************************************************************)
RanksAgree ==
    /\ AllAt("train") => \A r \in Ranks : nextCheck[r] = nextCheck[0] /\ lastSave[r] = lastSave[0]
    /\ \A r, s \in Ranks :
         pc[r] = "decide" => pc[s] \in {"milestone", "stepEnd", "evaluate", "decide"}

(***************************************************************************)
(* As long as steps are steady, the interval is overshot by the step in    *)
(* flight and no more, unless a milestone is near, a data window is open   *)
(* or the last save is within min_iterations.  (A step with a write after  *)
(* it fits in the interval: a write that is confirmed later can lower the  *)
(* estimate after the decision.)                                           *)
(***************************************************************************)
SavedOnTime ==
    AllAt("train") /\ fastest = slowest /\ elapsed >= Interval =>
        \/ TooClose(0) \/ CpDataWindowActive
        \/ StepsToMilestone * fastest < WriteEstimate

(***************************************************************************)
(* As long as steps are steady, a milestone waits for a wall-clock save    *)
(* only if that write took longer than the estimate it was planned with.   *)
(* (A step is shorter than the interval: after the first step there is no  *)
(* step time to plan with.)                                                *)
(***************************************************************************)
StallIsUnforeseen ==
    /\ pc[0] = "milestone" /\ write.left > 0 /\ write.planned > 0
    /\ fastest = slowest /\ sinceStep = fastest
    =>
        write.length > write.planned
=============================================================================
