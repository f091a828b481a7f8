------------------------- MODULE TerminationSignal -------------------------
(***************************************************************************)
(* The emergency checkpoint before a Slurm job is killed:                  *)
(* TerminationSignalCheckpoint (callbacks/termination_signal_checkpoint.py)*)
(* between the training steps of all ranks and the background writers of   *)
(* the asynchronous checkpoints.                                           *)
(*                                                                         *)
(* Each rank polls for the sentinel file on its own, at the end of each    *)
(* training step, and compares its progress with the last checkpoint whose *)
(* success its own main process was told of.  Training steps and the       *)
(* background writing of a checkpoint are collectives: they complete when  *)
(* every rank has joined.  A write is modelled by its outcome; its steps   *)
(* are those of AsyncCheckpoint.                                           *)
(***************************************************************************)
EXTENDS Integers, FiniteSets

CONSTANTS
    NumRanks,
    SaveIter,           \* checkpoint.save_iter
    MinProgress,        \* int(save_iter * min_save_fraction)
    StartIter,          \* the iteration the job resumed from
    MaxIter,            \* trainer.max_iter
    MaxFailures,        \* bound: failing writes
    MaxDeaths           \* bound: background processes that die

ASSUME SignalAssumption ==
    /\ NumRanks \in Nat \ {0} /\ SaveIter \in Nat \ {0} /\ MinProgress \in Nat
    /\ StartIter \in Nat /\ MaxIter \in Nat /\ StartIter <= MaxIter
    /\ MaxFailures \in Nat /\ MaxDeaths \in Nat

Ranks == 0..NumRanks - 1
Job == [iter : 0..MaxIter, kind : {"milestone", "emergency"}]
None == [iter |-> StartIter, kind |-> "none"]

VARIABLES
    sentinel,   \* SIGUSR1_RECEIVED exists
    succeeded,  \* SIGUSR1_CHECKPOINT_SUCCEEDED exists
    iter,       \* iteration, equal on all ranks
    pc,         \* pc[r]: where the main process of rank r is
    last,       \* last[r]: _last_checkpoint_iteration
    saving,     \* saving[r]: the save whose result the rank has not taken
    job,        \* job[r]: what the rank's background writer is working on
    result,     \* result[r]: the writer's SaveDone, not taken yet
    written,    \* the jobs whose collective write is complete
    pointer,    \* the iteration latest_checkpoint.txt names
    failures,
    dead        \* the ranks whose background process has died

mainVars == <<pc, last, saving>>
writerVars == <<job, result, written, pointer, failures, dead>>
vars == <<sentinel, succeeded, iter, mainVars, writerVars>>

Pc == {"train", "save", "confirm", "check", "emergency", "finalize", "drain", "touch"}
Exited == {"saved", "skipped", "unmarked", "raised", "done"}

\* on_train_start takes the resumed iteration for the last checkpoint.
Init ==
    /\ sentinel = FALSE /\ succeeded = FALSE
    /\ iter = StartIter
    /\ pc = [r \in Ranks |-> "train"]
    /\ last = [r \in Ranks |-> StartIter]
    /\ saving = [r \in Ranks |-> None]
    /\ job = [r \in Ranks |-> None]
    /\ result = [r \in Ranks |-> "none"]
    /\ written = {} /\ pointer = StartIter
    /\ failures = 0
    /\ dead = {}

Goto(r, label) == pc' = [pc EXCEPT ![r] = label]

AllTraining == \A r \in Ranks : pc[r] = "train"

----------------------------------------------------------------------------
(* The job.                                                                *)

\* The batch script's trap creates the sentinel when SIGUSR1 arrives.
SignalArrives ==
    /\ ~sentinel
    /\ sentinel' = TRUE
    /\ UNCHANGED <<succeeded, iter, mainVars, writerVars>>

\* One optimizer step of all ranks; a milestone is saved before the callbacks
\* of the step run.
TrainStep ==
    /\ AllTraining
    /\ iter < MaxIter
    /\ iter' = iter + 1
    /\ pc' = [r \in Ranks |-> IF iter' % SaveIter = 0 THEN "save" ELSE "check"]
    /\ UNCHANGED <<sentinel, succeeded, last, saving, writerVars>>

EndTraining ==
    /\ AllTraining
    /\ iter = MaxIter
    /\ pc' = [r \in Ranks |-> "done"]
    /\ UNCHANGED <<sentinel, succeeded, iter, last, saving, writerVars>>

----------------------------------------------------------------------------
(* The checkpointer, as the main process of a rank calls it.               *)

\* Mutant: a failed save is dispatched like a successful one.
TakeResultIgnoringFailure(r, next) ==
    /\ result[r] # "none"
    /\ result' = [result EXCEPT ![r] = "none"]
    /\ last' = [last EXCEPT ![r] = saving[r].iter]
    /\ saving' = [saving EXCEPT ![r] = None]
    /\ Goto(r, next)
    /\ UNCHANGED <<sentinel, succeeded, iter, job, written, pointer, failures, dead>>

\* A result is taken off the queue: success is dispatched to the callbacks.
TakeResult(r, next) ==
    /\ result[r] # "none"
    /\ result' = [result EXCEPT ![r] = "none"]
    /\ IF result[r] = "ok"
         THEN /\ last' = [last EXCEPT ![r] = saving[r].iter]
              /\ saving' = [saving EXCEPT ![r] = None]
              /\ Goto(r, next)
         ELSE /\ Goto(r, "raised")
              /\ UNCHANGED <<last, saving>>
    /\ UNCHANGED <<sentinel, succeeded, iter, job, written, pointer, failures, dead>>

\* save() waits for the result of the previous save ...
WaitPrevious(r) ==
    /\ pc[r] \in {"save", "emergency"}
    /\ saving[r] # None
    /\ TakeResult(r, pc[r])

\* Mutant: a checkpoint counts from its submission.
SubmitCounts(r) ==
    /\ pc[r] \in {"save", "emergency"}
    /\ saving[r] = None
    /\ LET kind == IF pc[r] = "save" THEN "milestone" ELSE "emergency"
       IN  /\ saving' = [saving EXCEPT ![r] = [iter |-> iter, kind |-> kind]]
           /\ job' = [job EXCEPT ![r] = [iter |-> iter, kind |-> kind]]
    /\ last' = [last EXCEPT ![r] = iter]
    /\ Goto(r, IF pc[r] = "save" THEN "check" ELSE "finalize")
    /\ UNCHANGED <<sentinel, succeeded, iter, result, written, pointer, failures, dead>>

\* ... stages the state and submits it.  An emergency save is followed by
\* finalize().
Submit(r) ==
    /\ pc[r] \in {"save", "emergency"}
    /\ saving[r] = None
    /\ LET kind == IF pc[r] = "save" THEN "milestone" ELSE "emergency"
       IN  /\ saving' = [saving EXCEPT ![r] = [iter |-> iter, kind |-> kind]]
           /\ job' = [job EXCEPT ![r] = [iter |-> iter, kind |-> kind]]
    /\ Goto(r, IF pc[r] = "save" THEN "check" ELSE "finalize")
    /\ UNCHANGED <<sentinel, succeeded, iter, last, result, written, pointer, failures, dead>>

\* ConfirmAsyncCheckpoint polls: a success that has arrived is taken, a
\* failure is left to the next save.
ConfirmSuccess(r) ==
    /\ pc[r] = "confirm"
    /\ result[r] = "ok"
    /\ TakeResult(r, "train")

ConfirmNothing(r) ==
    /\ pc[r] = "confirm"
    /\ result[r] # "ok"
    /\ Goto(r, "train")
    /\ UNCHANGED <<sentinel, succeeded, iter, last, saving, writerVars>>

\* finalize() waits for the emergency save if the background process is
\* alive ...
Finalize(r) ==
    /\ pc[r] = "finalize"
    /\ Goto(r, IF r \in dead THEN "touch" ELSE "drain")
    /\ UNCHANGED <<sentinel, succeeded, iter, last, saving, writerVars>>

Drain(r) ==
    /\ pc[r] = "drain"
    /\ TakeResult(r, "touch")

\* Mutant: only the wait in save() has a timeout.
WaitTimeoutInSave(r) ==
    /\ pc[r] \in {"save", "emergency"} /\ saving[r] # None
    /\ r \in dead /\ result[r] = "none"
    /\ Goto(r, "raised")
    /\ UNCHANGED <<sentinel, succeeded, iter, last, saving, writerVars>>

\* A dead process never answers: both waits end in an exception.
WaitTimeout(r) ==
    /\ \/ pc[r] \in {"save", "emergency"} /\ saving[r] # None
       \/ pc[r] = "drain"
    /\ r \in dead /\ result[r] = "none"
    /\ Goto(r, "raised")
    /\ UNCHANGED <<sentinel, succeeded, iter, last, saving, writerVars>>

----------------------------------------------------------------------------
(* TerminationSignalCheckpoint.on_training_step_end.                       *)

\* No sentinel: training goes on, after ConfirmAsyncCheckpoint, which
\* ensure_async_checkpoint_confirmation appends to the callbacks.
CheckNoSignal(r) ==
    /\ pc[r] = "check"
    /\ ~sentinel
    /\ Goto(r, "confirm")
    /\ UNCHANGED <<sentinel, succeeded, iter, last, saving, writerVars>>

TooClose(r) == iter - last[r] < MinProgress

\* Too close to the last checkpoint: sys.exit(0) without a save.
CheckSkip(r) ==
    /\ pc[r] = "check"
    /\ sentinel
    /\ TooClose(r)
    /\ Goto(r, "skipped")
    /\ UNCHANGED <<sentinel, succeeded, iter, last, saving, writerVars>>

CheckSave(r) ==
    /\ pc[r] = "check"
    /\ sentinel
    /\ ~TooClose(r)
    /\ Goto(r, "emergency")
    /\ UNCHANGED <<sentinel, succeeded, iter, last, saving, writerVars>>

\* The success sentinel is created, sys.exit(0); or creating it fails,
\* sys.exit(1).
Touch(r) ==
    /\ pc[r] = "touch"
    /\ \/ succeeded' = TRUE /\ Goto(r, "saved")
       \/ UNCHANGED succeeded /\ Goto(r, "unmarked")
    /\ UNCHANGED <<sentinel, iter, last, saving, writerVars>>

----------------------------------------------------------------------------
(* The background writers.                                                 *)

Alive(r) == pc[r] \notin Exited /\ r \notin dead

\* The collective write of one checkpoint: it needs the writer of every rank.
Joined(j) == \A r \in Ranks : Alive(r) /\ job[r] = j

\* The write completes.  A rank that is not rank 0 can report at once.
CollectiveWrite ==
    /\ \E j \in Job :
         /\ Joined(j) /\ j \notin written
         /\ written' = written \cup {j}
    /\ UNCHANGED <<sentinel, succeeded, iter, mainVars, job, result, pointer, failures, dead>>

\* A writer reports what the others have not seen yet; rank 0 has written
\* the pointer before.
Report(r) ==
    /\ Alive(r)
    /\ job[r] \in written
    /\ pointer' = IF r = 0 THEN job[r].iter ELSE pointer
    /\ result' = [result EXCEPT ![r] = "ok"]
    /\ job' = [job EXCEPT ![r] = None]
    /\ UNCHANGED <<sentinel, succeeded, iter, mainVars, written, failures, dead>>

\* A writer fails, before or after the collective, and reports that.
WriteFails(r) ==
    /\ failures < MaxFailures
    /\ Alive(r)
    /\ job[r] # None
    /\ failures' = failures + 1
    /\ result' = [result EXCEPT ![r] = "failed"]
    /\ job' = [job EXCEPT ![r] = None]
    /\ UNCHANGED <<sentinel, succeeded, iter, mainVars, written, pointer, dead>>

WriterDies(r) ==
    /\ Cardinality(dead) < MaxDeaths
    /\ Alive(r)
    /\ dead' = dead \cup {r}
    /\ UNCHANGED <<sentinel, succeeded, iter, mainVars, job, result, written, pointer, failures>>

----------------------------------------------------------------------------
MainStep(r) ==
    \/ WaitPrevious(r) \/ Submit(r) \/ ConfirmSuccess(r) \/ ConfirmNothing(r)
    \/ Finalize(r) \/ Drain(r) \/ WaitTimeout(r)
    \/ CheckNoSignal(r) \/ CheckSkip(r) \/ CheckSave(r) \/ Touch(r)

Next ==
    \/ SignalArrives
    \/ TrainStep
    \/ EndTraining
    \/ \E r \in Ranks : MainStep(r)
    \/ CollectiveWrite
    \/ \E r \in Ranks : Report(r)
    \/ \E r \in Ranks : WriteFails(r)
    \/ \E r \in Ranks : WriterDies(r)

Spec == Init /\ [][Next]_vars

\* Every process runs; nothing has to fail, and no signal has to come.
FairSpec ==
    /\ Spec
    /\ WF_vars(TrainStep) /\ WF_vars(EndTraining) /\ WF_vars(CollectiveWrite)
    /\ \A r \in Ranks : WF_vars(MainStep(r)) /\ WF_vars(Report(r))

----------------------------------------------------------------------------
(***************************************************************************)
(* A rank whose background process is alive gets to create the success     *)
(* sentinel only when the collective write is complete on all ranks -- so  *)
(* that no other rank has skipped the emergency checkpoint -- and rank 0   *)
(* only when the next segment would resume from it.  (With a dead process  *)
(* finalize waits for nothing, and the sentinel is created all the same.)  *)
(***************************************************************************)
SavedMeansWritten ==
    \A r \in Ranks : pc[r] \in {"touch", "saved", "unmarked"} /\ r \notin dead =>
        /\ [iter |-> iter, kind |-> "emergency"] \in written
        /\ \A s \in Ranks : pc[s] # "skipped"
        /\ r = 0 => pointer = iter

(***************************************************************************)
(* A rank that exits without a save leaves less than MinProgress           *)
(* iterations behind the newest complete checkpoint, or behind the start;  *)
(* and rank 0, less than that behind the checkpoint the next segment       *)
(* resumes from.                                                           *)
(***************************************************************************)
SkipLosesLittle ==
    \A r \in Ranks : pc[r] = "skipped" =>
        /\ \E i \in {StartIter} \cup {j.iter : j \in written} : iter - i < MinProgress
        /\ r = 0 => iter - pointer < MinProgress

(***************************************************************************)
(* Once the emergency checkpoint is written the job ends, on every rank,   *)
(* even if a writer fails or dies before its rank has heard of it; such a  *)
(* rank ends with an exception, all others normally.                       *)
(***************************************************************************)
WrittenEndsJob ==
    (\E j \in written : j.kind = "emergency") ~>
        \A r \in Ranks : \/ pc[r] \in {"saved", "unmarked"}
                         \/ pc[r] = "raised" /\ (r \in dead \/ failures > 0)

(***************************************************************************)
(* The time before the job is killed is "sufficent for the poll to detect  *)
(* the sentinel and save a checkpoint": when no writer fails or dies, an   *)
(* emergency checkpoint that some rank has begun gets written.  The write  *)
(* is a collective, but each rank looks for the sentinel, and hears of the *)
(* results of saves, by itself.                                            *)
(***************************************************************************)
EmergencySaveCompletes ==
    (\E r \in Ranks : pc[r] = "emergency") ~> \E j \in written : j.kind = "emergency"
=============================================================================
