-------------------------- MODULE AsyncCheckpoint --------------------------
(***************************************************************************)
(* Asynchronous distributed checkpointing of a training job                *)
(* (cosmos_framework/checkpoint/dcp.py driven by the loop of               *)
(* cosmos_framework/trainer/__init__.py).                                  *)
(*                                                                         *)
(* Every rank runs a main process, which trains, and a background process, *)
(* which writes checkpoints.  The two share one pinned staging buffer and  *)
(* two queues.  The background processes of all ranks form a process group *)
(* of their own: a save writes the checkpoint one key at a time (model,    *)
(* optim, scheduler, trainer), each key with a collective that starts when *)
(* every rank has joined and ends when rank 0 has written the key's        *)
(* metadata.  After the last key rank 0 alone rewrites                     *)
(* latest_checkpoint.txt, the file a restarted job resumes from.           *)
(*                                                                         *)
(* Before a save is handed over, HFExportCallback (callbacks/hf_export.py) *)
(* gathers the weights on rank 0 and starts a thread that writes them as a *)
(* Hugging Face model; its failure is raised at the next export, or at the *)
(* end of training.                                                        *)
(*                                                                         *)
(* The job may be killed between any two steps and started again, storage  *)
(* or the process group may start to fail, and a background process may    *)
(* die on its own.                                                         *)
(***************************************************************************)
EXTENDS Integers, Sequences, FiniteSets

CONSTANTS
  Rank,                \* the ranks of the job
  Rank0,               \* the coordinator: writes metadata and the pointer
  NumKeys,             \* keys written by dcp.save, in the order of to_save_dict
  MaxIter,             \* config.trainer.max_iter
  SaveIter,            \* config.checkpoint.save_iter
  StatefulDataloader,  \* whether the dataloader has state to checkpoint
  ExportEveryN,        \* hf_export.export_every_n; 0: hf_export.enabled is false
  ObjectStore,         \* object store (whole objects) or filesystem (truncate, write)
  MaxRuns,             \* bound: how often the job is started
  MaxFaults,           \* bound: how often storage or the group starts failing
  BgMayDie             \* whether a background process may die on its own

ASSUME RankAssumption == Rank0 \in Rank
ASSUME BoundAssumption ==
  /\ NumKeys \in Nat \ {0}
  /\ MaxIter \in Nat \ {0}
  /\ SaveIter \in Nat \ {0}
  /\ MaxRuns \in Nat \ {0}
  /\ MaxFaults \in Nat
  /\ ExportEveryN \in Nat
ASSUME FlagAssumption ==
  /\ StatefulDataloader \in BOOLEAN
  /\ ObjectStore \in BOOLEAN
  /\ BgMayDie \in BOOLEAN

VARIABLES
  \* main process of each rank
  pc,          \* where the main process is
  iteration,   \* optimizer steps taken
  inProgress,  \* checkpoint_in_progress
  deferred,    \* deferred_save_failure, by iteration (None: nothing deferred)
  staging,     \* iteration whose state the pinned buffer holds
  \* the two queues between a main process and its background process
  sendQ, recvQ,
  \* background process of each rank
  bgPhase, bgJob, bgKey,
  committed,   \* the <<job, key>> whose metadata rank 0 wrote last in this run
  failed,      \* history: the save a rank's process reported as failed in this run
  \* durable storage
  shard, meta, dataloader, pointer,
  \* the export thread of rank 0
  exporting,   \* the iteration it is writing (None: no thread is alive)
  exportError, \* whether _worker_exception holds an exception
  exported,    \* the iterations whose export is complete on disk
  \* environment
  run,         \* number of the current start of the job
  faulted,     \* storage or the process group is failing, or slow, in this run
  faults,
  \* history
  confirmed    \* iterations on_save_checkpoint_success was called for in this run

mainVars == <<pc, iteration, inProgress, deferred, staging, confirmed>>
bgVars == <<bgPhase, bgJob, bgKey, committed, failed>>
storeVars == <<shard, meta, dataloader, pointer>>
exportVars == <<exporting, exportError, exported>>
envVars == <<run, faulted, faults>>
vars == <<mainVars, sendQ, recvQ, bgVars, storeVars, exportVars, envVars>>

Iter == 1..MaxIter
Key == 1..NumKeys
None == 0                \* no iteration: nothing staged, deferred or published
Truncated == -1          \* latest_checkpoint.txt opened for writing, still empty
Terminate == 0           \* the message that ends the background loop

(* What a stored object holds: the state of iteration iter as run saved it. *)
Content == [run: 0..MaxRuns, iter: 0..MaxIter]
Absent == [run |-> 0, iter |-> 0]
Torn == [run |-> 0, iter |-> 1]
Saved(n) == [run |-> run, iter |-> n]

SaveDone == [iter: Iter, ok: BOOLEAN]

MainPc == {"train", "stepEnd", "save", "export", "launch", "dataloader", "stage",
           "trainEnd", "finalize", "terminate", "join", "barrier", "done", "failed", "down"}
BgPhase == {"idle", "plan", "write", "written", "pointer", "pointerText",
            "exited", "dead"}

BgAlive(r) == bgPhase[r] \notin {"exited", "dead"}

Init ==
  /\ pc = [r \in Rank |-> "train"]
  /\ iteration = [r \in Rank |-> 0]
  /\ inProgress = [r \in Rank |-> FALSE]
  /\ deferred = [r \in Rank |-> None]
  /\ staging = [r \in Rank |-> None]
  /\ sendQ = [r \in Rank |-> <<>>]
  /\ recvQ = [r \in Rank |-> <<>>]
  /\ bgPhase = [r \in Rank |-> "idle"]
  /\ bgJob = [r \in Rank |-> None]
  /\ bgKey = [r \in Rank |-> 1]
  /\ committed = <<None, 0>>
  /\ failed = [r \in Rank |-> None]
  /\ shard = [i \in Iter |-> [k \in Key |-> [r \in Rank |-> Absent]]]
  /\ meta = [i \in Iter |-> [k \in Key |-> Absent]]
  /\ dataloader = [i \in Iter |-> [r \in Rank |-> Absent]]
  /\ pointer = None
  /\ exporting = None /\ exportError = FALSE /\ exported = {}
  /\ run = 1
  /\ faulted = FALSE
  /\ faults = 0
  /\ confirmed = [r \in Rank |-> <<>>]

-----------------------------------------------------------------------------
(* The training loop of the main process.                                  *)

MilestoneDue(n) == n % SaveIter = 0

(* One optimizer step.  Gradients are reduced over all ranks, so a rank     *)
(* completes step n + 1 only when no peer is still short of it.             *)
OptimizerStep(r) ==
  /\ pc[r] = "train"
  /\ iteration[r] < MaxIter
  /\ \A q \in Rank : \/ iteration[q] > iteration[r]
                     \/ iteration[q] = iteration[r] /\ pc[q] = "train"
  /\ iteration' = [iteration EXCEPT ![r] = @ + 1]
  /\ pc' = [pc EXCEPT ![r] = IF MilestoneDue(iteration[r] + 1) THEN "save" ELSE "stepEnd"]
  /\ UNCHANGED <<inProgress, deferred, staging, confirmed, sendQ, recvQ, bgVars, storeVars, exportVars, envVars>>

(* on_train_end: rank 0 has an export thread to join. *)
AfterLoop(r) == IF r = Rank0 THEN "trainEnd" ELSE "finalize"

(* max_iter reached: a last save unless the step just taken was a milestone. *)
EndTraining(r) ==
  /\ pc[r] = "train"
  /\ iteration[r] >= MaxIter
  /\ pc' = [pc EXCEPT ![r] = IF MilestoneDue(iteration[r]) THEN AfterLoop(r) ELSE "save"]
  /\ UNCHANGED <<iteration, inProgress, deferred, staging, confirmed, sendQ, recvQ, bgVars, storeVars, exportVars, envVars>>

-----------------------------------------------------------------------------
(* poll_async_save, run by ConfirmAsyncCheckpoint after every step.        *)

(* Mutant of Confirm: checkpoint_in_progress is not reset. *)
ConfirmKeepsFlag(r) ==
  /\ confirmed' = [confirmed EXCEPT ![r] = Append(@, Head(recvQ[r]).iter)]
  /\ recvQ' = [recvQ EXCEPT ![r] = Tail(@)]
  /\ UNCHANGED inProgress

(* _report_save_result for a result that succeeded. *)
Confirm(r) ==
  /\ confirmed' = [confirmed EXCEPT ![r] = Append(@, Head(recvQ[r]).iter)]
  /\ inProgress' = [inProgress EXCEPT ![r] = FALSE]
  /\ recvQ' = [recvQ EXCEPT ![r] = Tail(@)]

MayPoll(r) == inProgress[r] /\ deferred[r] = None /\ recvQ[r] # <<>>

(* Nothing to poll, or the queue does not show the result yet. *)
PollNothing(r) ==
  /\ pc[r] = "stepEnd"
  /\ pc' = [pc EXCEPT ![r] = "train"]
  /\ UNCHANGED <<iteration, inProgress, deferred, staging, confirmed, sendQ, recvQ, bgVars, storeVars, exportVars, envVars>>

PollSuccess(r) ==
  /\ pc[r] = "stepEnd"
  /\ MayPoll(r)
  /\ Head(recvQ[r]).ok
  /\ Confirm(r)
  /\ pc' = [pc EXCEPT ![r] = "train"]
  /\ UNCHANGED <<iteration, deferred, staging, sendQ, bgVars, storeVars, exportVars, envVars>>

(* A failure is only put aside: raising here would leave the peers in the   *)
(* next collective.                                                         *)
PollFailure(r) ==
  /\ pc[r] = "stepEnd"
  /\ MayPoll(r)
  /\ ~Head(recvQ[r]).ok
  /\ deferred' = [deferred EXCEPT ![r] = Head(recvQ[r]).iter]
  /\ recvQ' = [recvQ EXCEPT ![r] = Tail(@)]
  /\ pc' = [pc EXCEPT ![r] = "train"]
  /\ UNCHANGED <<iteration, inProgress, staging, confirmed, sendQ, bgVars, storeVars, exportVars, envVars>>

-----------------------------------------------------------------------------
(* _wait_for_previous_async_checkpoint, called by save and by finalize.    *)
(* finalize calls it only while the background process is alive.           *)

Waiting(r) == pc[r] = "save" \/ (pc[r] = "finalize" /\ BgAlive(r))

ExportDue(n) == ExportEveryN > 0 /\ n % ExportEveryN = 0

(* Mutant of AfterExport: the asynchronous path loses the dataloader entry. *)
AfterExportNoDataloader == "stage"

AfterExport == IF StatefulDataloader THEN "dataloader" ELSE "stage"

AfterWait(r) ==
  IF pc[r] = "finalize" THEN "terminate"
  ELSE IF ExportDue(iteration[r]) THEN "export" ELSE AfterExport

(* Mutant of WaitIdle: goes on while a save is in progress. *)
WaitIdleUnguarded(r) ==
  /\ Waiting(r)
  /\ pc' = [pc EXCEPT ![r] = AfterWait(r)]
  /\ UNCHANGED <<iteration, inProgress, deferred, staging, confirmed, sendQ, recvQ, bgVars, storeVars, exportVars, envVars>>

WaitIdle(r) ==
  /\ Waiting(r)
  /\ ~inProgress[r]
  /\ pc' = [pc EXCEPT ![r] = AfterWait(r)]
  /\ UNCHANGED <<iteration, inProgress, deferred, staging, confirmed, sendQ, recvQ, bgVars, storeVars, exportVars, envVars>>

WaitSuccess(r) ==
  /\ Waiting(r)
  /\ MayPoll(r)
  /\ Head(recvQ[r]).ok
  /\ Confirm(r)
  /\ pc' = [pc EXCEPT ![r] = AfterWait(r)]
  /\ UNCHANGED <<iteration, deferred, staging, sendQ, bgVars, storeVars, exportVars, envVars>>

(* The failed result is on the queue: the main process raises. *)
WaitFailure(r) ==
  /\ Waiting(r)
  /\ MayPoll(r)
  /\ ~Head(recvQ[r]).ok
  /\ inProgress' = [inProgress EXCEPT ![r] = FALSE]
  /\ recvQ' = [recvQ EXCEPT ![r] = Tail(@)]
  /\ pc' = [pc EXCEPT ![r] = "failed"]
  /\ UNCHANGED <<iteration, deferred, staging, confirmed, sendQ, bgVars, storeVars, exportVars, envVars>>

(* Mutant of WaitDeferred: the failure put aside is only cleared. *)
WaitDeferredClears(r) ==
  /\ Waiting(r)
  /\ inProgress[r]
  /\ deferred[r] # None
  /\ deferred' = [deferred EXCEPT ![r] = None]
  /\ inProgress' = [inProgress EXCEPT ![r] = FALSE]
  /\ pc' = [pc EXCEPT ![r] = AfterWait(r)]
  /\ UNCHANGED <<iteration, staging, confirmed, sendQ, recvQ, bgVars, storeVars, exportVars, envVars>>

(* The failed result was put aside by an earlier poll. *)
WaitDeferred(r) ==
  /\ Waiting(r)
  /\ inProgress[r]
  /\ deferred[r] # None
  /\ deferred' = [deferred EXCEPT ![r] = None]
  /\ inProgress' = [inProgress EXCEPT ![r] = FALSE]
  /\ pc' = [pc EXCEPT ![r] = "failed"]
  /\ UNCHANGED <<iteration, staging, confirmed, sendQ, recvQ, bgVars, storeVars, exportVars, envVars>>

(* Mutant of WaitTimeout: the blocking get has no timeout. *)
WaitForever(r) == Waiting(r) /\ FALSE /\ UNCHANGED vars

(* No result within SAVE_RESULT_TIMEOUT.  checkpoint_in_progress stays set. *)
WaitTimeout(r) ==
  /\ Waiting(r)
  /\ faulted
  /\ inProgress[r]
  /\ deferred[r] = None
  /\ recvQ[r] = <<>>
  /\ pc' = [pc EXCEPT ![r] = "failed"]
  /\ UNCHANGED <<iteration, inProgress, deferred, staging, confirmed, sendQ, recvQ, bgVars, storeVars, exportVars, envVars>>

-----------------------------------------------------------------------------
(* HFExportCallback: on_save_checkpoint, the export thread, on_train_end.  *)

(* _gather_weights: full_tensor() is a collective of all ranks. *)
GatherWeights ==
  /\ \A r \in Rank : pc[r] = "export"
  /\ pc' = [r \in Rank |-> IF r = Rank0 THEN "launch" ELSE AfterExport]
  /\ UNCHANGED <<iteration, inProgress, deferred, staging, confirmed, sendQ, recvQ, bgVars,
                 storeVars, exportVars, envVars>>

(* Rank 0 joins the thread of the previous export before it starts one, and  *)
(* the new one writes over what an earlier run exported of this iteration.   *)
LaunchExport(r) ==
  /\ r = Rank0
  /\ pc[r] = "launch"
  /\ exporting = None
  /\ ~exportError
  /\ exporting' = iteration[r]
  /\ exported' = exported \ {iteration[r]}
  /\ pc' = [pc EXCEPT ![r] = AfterExport]
  /\ UNCHANGED <<iteration, inProgress, deferred, staging, confirmed, sendQ, recvQ, bgVars,
                 storeVars, exportError, envVars>>

(* What the previous thread left in _worker_exception is raised there, or at *)
(* the end of training, before finalize has waited for the last save.        *)
RaiseExportError(r) ==
  /\ r = Rank0
  /\ pc[r] \in {"launch", "trainEnd"}
  /\ exporting = None
  /\ exportError
  /\ exportError' = FALSE
  /\ pc' = [pc EXCEPT ![r] = "failed"]
  /\ UNCHANGED <<iteration, inProgress, deferred, staging, confirmed, sendQ, recvQ, bgVars,
                 storeVars, exporting, exported, envVars>>

(* Mutant of JoinExport: the end of training only joins the thread. *)
JoinExportUnchecked(r) ==
  /\ r = Rank0
  /\ pc[r] = "trainEnd"
  /\ exporting = None
  /\ pc' = [pc EXCEPT ![r] = "finalize"]
  /\ UNCHANGED <<iteration, inProgress, deferred, staging, confirmed, sendQ, recvQ, bgVars,
                 storeVars, exportVars, envVars>>

JoinExport(r) ==
  /\ r = Rank0
  /\ pc[r] = "trainEnd"
  /\ exporting = None
  /\ ~exportError
  /\ pc' = [pc EXCEPT ![r] = "finalize"]
  /\ UNCHANGED <<iteration, inProgress, deferred, staging, confirmed, sendQ, recvQ, bgVars,
                 storeVars, exportVars, envVars>>

(* _save_and_upload writes the shards, the index, the configuration and the  *)
(* source files; what it does best-effort (tokenizer, uploads) is left out.  *)
ExportDone ==
  /\ exporting # None
  /\ exported' = exported \cup {exporting}
  /\ exporting' = None
  /\ UNCHANGED <<mainVars, sendQ, recvQ, bgVars, storeVars, exportError, envVars>>

(* An exception in one of these steps is kept for the main thread. *)
ExportFails ==
  /\ faulted
  /\ exporting # None
  /\ exportError' = TRUE
  /\ exporting' = None
  /\ UNCHANGED <<mainVars, sendQ, recvQ, bgVars, storeVars, exported, envVars>>

-----------------------------------------------------------------------------
(* The rest of save and finalize.                                          *)

(* The dataloader's state is written by the main process, before the save   *)
(* is handed over.                                                          *)
WriteDataloader(r) ==
  /\ pc[r] = "dataloader"
  /\ dataloader' = [dataloader EXCEPT ![iteration[r]][r] = Saved(iteration[r])]
  /\ pc' = [pc EXCEPT ![r] = "stage"]
  /\ UNCHANGED <<iteration, inProgress, deferred, staging, confirmed, sendQ, recvQ, bgVars,
                 shard, meta, pointer, exportVars, envVars>>

(* Its file cannot be written: save raises before anything is staged. *)
WriteDataloaderFails(r) ==
  /\ pc[r] = "dataloader"
  /\ faulted
  /\ pc' = [pc EXCEPT ![r] = "failed"]
  /\ UNCHANGED <<iteration, inProgress, deferred, staging, confirmed, sendQ, recvQ, bgVars, storeVars, exportVars, envVars>>

(* _checkpoint_async_with_pinned_memory: the one staging buffer is          *)
(* overwritten and a reference to it is queued.                             *)
StageAndSubmit(r) ==
  /\ pc[r] = "stage"
  /\ staging' = [staging EXCEPT ![r] = iteration[r]]
  /\ sendQ' = [sendQ EXCEPT ![r] = Append(@, iteration[r])]
  /\ inProgress' = [inProgress EXCEPT ![r] = TRUE]
  /\ pc' = [pc EXCEPT ![r] = IF MilestoneDue(iteration[r]) THEN "stepEnd" ELSE AfterLoop(r)]
  /\ UNCHANGED <<iteration, deferred, confirmed, recvQ, bgVars, storeVars, exportVars, envVars>>

(* finalize with a dead background process skips the wait. *)
FinalizeDead(r) ==
  /\ pc[r] = "finalize"
  /\ ~BgAlive(r)
  /\ pc' = [pc EXCEPT ![r] = "barrier"]
  /\ UNCHANGED <<iteration, inProgress, deferred, staging, confirmed, sendQ, recvQ, bgVars, storeVars, exportVars, envVars>>

SendTerminate(r) ==
  /\ pc[r] = "terminate"
  /\ sendQ' = [sendQ EXCEPT ![r] = Append(@, Terminate)]
  /\ pc' = [pc EXCEPT ![r] = "join"]
  /\ UNCHANGED <<iteration, inProgress, deferred, staging, confirmed, recvQ, bgVars, storeVars, exportVars, envVars>>

Join(r) ==
  /\ pc[r] = "join"
  /\ ~BgAlive(r)
  /\ pc' = [pc EXCEPT ![r] = "barrier"]
  /\ UNCHANGED <<iteration, inProgress, deferred, staging, confirmed, sendQ, recvQ, bgVars, storeVars, exportVars, envVars>>

(* distributed.barrier() at the end of train. *)
PassBarrier(r) ==
  /\ pc[r] = "barrier"
  /\ \A q \in Rank : pc[q] \in {"barrier", "done"}
  /\ pc' = [pc EXCEPT ![r] = "done"]
  /\ UNCHANGED <<iteration, inProgress, deferred, staging, confirmed, sendQ, recvQ, bgVars, storeVars, exportVars, envVars>>

-----------------------------------------------------------------------------
(* save_checkpoint_in_background and save_state_dict_worker.               *)

BgTake(r) ==
  /\ bgPhase[r] = "idle"
  /\ sendQ[r] # <<>>
  /\ Head(sendQ[r]) # Terminate
  /\ sendQ' = [sendQ EXCEPT ![r] = Tail(@)]
  /\ bgJob' = [bgJob EXCEPT ![r] = Head(sendQ[r])]
  /\ bgKey' = [bgKey EXCEPT ![r] = 1]
  /\ bgPhase' = [bgPhase EXCEPT ![r] = "plan"]
  /\ UNCHANGED <<mainVars, recvQ, committed, failed, storeVars, exportVars, envVars>>

BgTerminate(r) ==
  /\ bgPhase[r] = "idle"
  /\ sendQ[r] # <<>>
  /\ Head(sendQ[r]) = Terminate
  /\ sendQ' = [sendQ EXCEPT ![r] = Tail(@)]
  /\ bgPhase' = [bgPhase EXCEPT ![r] = "exited"]
  /\ UNCHANGED <<mainVars, recvQ, bgJob, bgKey, committed, failed, storeVars, exportVars, envVars>>

(* The collective of r's current key has been joined by every rank. *)
AllIn(r, phases) ==
  \A q \in Rank : /\ bgJob[q] = bgJob[r]
                  /\ bgKey[q] = bgKey[r]
                  /\ bgPhase[q] \in phases

(* dcp.save starts writing r's shard once the plans of all ranks are in; on *)
(* a filesystem what the shard held before is gone from this point on.      *)
BgPlan(r) ==
  /\ bgPhase[r] = "plan"
  /\ AllIn(r, {"plan", "write", "written"})
  /\ shard' = IF ObjectStore THEN shard ELSE [shard EXCEPT ![bgJob[r]][bgKey[r]][r] = Torn]
  /\ bgPhase' = [bgPhase EXCEPT ![r] = "write"]
  /\ UNCHANGED <<mainVars, sendQ, recvQ, bgJob, bgKey, committed, failed, meta, dataloader, pointer, exportVars, envVars>>

(* The bytes come out of the shared staging buffer. *)
BgWrite(r) ==
  /\ bgPhase[r] = "write"
  /\ shard' = [shard EXCEPT ![bgJob[r]][bgKey[r]][r] = Saved(staging[r])]
  /\ bgPhase' = [bgPhase EXCEPT ![r] = "written"]
  /\ UNCHANGED <<mainVars, sendQ, recvQ, bgJob, bgKey, committed, failed, meta, dataloader, pointer, exportVars, envVars>>

(* Put a SaveDone on the queue and go back to receiver_queue.get(). *)
Report(r, ok) ==
  /\ recvQ' = [recvQ EXCEPT ![r] = Append(@, [iter |-> bgJob[r], ok |-> ok])]
  /\ bgPhase' = [bgPhase EXCEPT ![r] = "idle"]

(* Mutant of MoreKeys: one key too many. *)
MoreKeysOffByOne(r) == bgKey[r] <= NumKeys

MoreKeys(r) == bgKey[r] < NumKeys

NextKey(r) ==
  /\ bgKey' = [bgKey EXCEPT ![r] = @ + 1]
  /\ bgPhase' = [bgPhase EXCEPT ![r] = "plan"]

(* Mutant of AllWritten: rank 0 does not wait for shards being written. *)
AllWriting == AllIn(Rank0, {"write", "written"})

AllWritten == AllIn(Rank0, {"written"})

(* Rank 0 writes the key's metadata when every rank has written its shard. *)
BgCommit ==
  /\ bgPhase[Rank0] = "written"
  /\ AllWritten
  /\ meta' = [meta EXCEPT ![bgJob[Rank0]][bgKey[Rank0]] = Saved(bgJob[Rank0])]
  /\ committed' = <<bgJob[Rank0], bgKey[Rank0]>>
  /\ \/ MoreKeys(Rank0) /\ NextKey(Rank0)
     \/ /\ ~MoreKeys(Rank0)
        /\ bgPhase' = [bgPhase EXCEPT ![Rank0] = "pointer"]
        /\ UNCHANGED bgKey
  /\ UNCHANGED <<mainVars, sendQ, recvQ, bgJob, failed, shard, dataloader, pointer, exportVars, envVars>>

(* Mutant of Committed: a rank is done when its own shard is. *)
CommittedAlone(r) == bgPhase[r] = "written"

Committed(r) == committed = <<bgJob[r], bgKey[r]>>

(* Every other rank leaves the collective after that; after the last key    *)
(* its save is done.                                                        *)
BgLeave(r) ==
  /\ r # Rank0
  /\ bgPhase[r] = "written"
  /\ Committed(r)
  /\ \/ MoreKeys(r) /\ NextKey(r) /\ UNCHANGED recvQ
     \/ ~MoreKeys(r) /\ Report(r, TRUE) /\ UNCHANGED bgKey
  /\ UNCHANGED <<mainVars, sendQ, bgJob, committed, failed, storeVars, exportVars, envVars>>

(* _write_latest_checkpoint_file on a filesystem: open(..., "w") empties    *)
(* the file before the name is written.                                     *)
BgTruncatePointer ==
  /\ ~ObjectStore
  /\ bgPhase[Rank0] = "pointer"
  /\ pointer' = Truncated
  /\ bgPhase' = [bgPhase EXCEPT ![Rank0] = "pointerText"]
  /\ UNCHANGED <<mainVars, sendQ, recvQ, bgJob, bgKey, committed, failed, shard, meta, dataloader, exportVars, envVars>>

BgWritePointer ==
  /\ bgPhase[Rank0] = IF ObjectStore THEN "pointer" ELSE "pointerText"
  /\ pointer' = bgJob[Rank0]
  /\ Report(Rank0, TRUE)
  /\ UNCHANGED <<mainVars, sendQ, bgJob, bgKey, committed, failed, shard, meta, dataloader, exportVars, envVars>>

(* Mutant of BgError: succeeded is set before the save is attempted. *)
BgErrorReportsSuccess(r) ==
  /\ faulted
  /\ bgPhase[r] \in {"plan", "write", "written", "pointer", "pointerText"}
  /\ Report(r, TRUE)
  /\ UNCHANGED <<mainVars, sendQ, bgJob, bgKey, committed, failed, storeVars, exportVars, envVars>>

(* An exception in save_state_dict_worker: a shard or the pointer could not *)
(* be written, or the process group gave up on the collective.  It is       *)
(* reported and the loop goes on.                                           *)
BgError(r) ==
  /\ faulted
  /\ bgPhase[r] \in {"plan", "write", "written", "pointer", "pointerText"}
  /\ Report(r, FALSE)
  /\ failed' = [failed EXCEPT ![r] = bgJob[r]]
  /\ UNCHANGED <<mainVars, sendQ, bgJob, bgKey, committed, storeVars, exportVars, envVars>>

(* A background process dies on its own, or with its failed main process.   *)
BgDie(r) ==
  /\ BgAlive(r)
  /\ (BgMayDie /\ faulted) \/ pc[r] = "failed"
  /\ bgPhase' = [bgPhase EXCEPT ![r] = "dead"]
  /\ UNCHANGED <<mainVars, sendQ, recvQ, bgJob, bgKey, committed, failed, storeVars, exportVars, envVars>>

-----------------------------------------------------------------------------
(* The environment.                                                        *)

Fault ==
  /\ ~faulted
  /\ faults < MaxFaults
  /\ \E r \in Rank : pc[r] \notin {"done", "down"}
  /\ faulted' = TRUE
  /\ faults' = faults + 1
  /\ UNCHANGED <<mainVars, sendQ, recvQ, bgVars, storeVars, exportVars, run>>

(* All processes are gone; what they held in memory is lost. *)
KillAll ==
  /\ pc' = [r \in Rank |-> "down"]
  /\ inProgress' = [r \in Rank |-> FALSE]
  /\ deferred' = [r \in Rank |-> None]
  /\ staging' = [r \in Rank |-> None]
  /\ sendQ' = [r \in Rank |-> <<>>]
  /\ recvQ' = [r \in Rank |-> <<>>]
  /\ bgPhase' = [r \in Rank |-> "dead"]
  /\ bgJob' = [r \in Rank |-> None]
  /\ bgKey' = [r \in Rank |-> 1]
  /\ committed' = <<None, 0>>
  /\ failed' = [r \in Rank |-> None]
  /\ exporting' = None /\ exportError' = FALSE
  /\ faulted' = FALSE
  /\ UNCHANGED <<iteration, confirmed, storeVars, exported, run, faults>>

(* Preemption, a node failure, scancel: at any moment. *)
Crash ==
  /\ \E r \in Rank : pc[r] \notin {"done", "down"}
  /\ KillAll

(* The launcher takes the job down once one rank has raised. *)
Teardown ==
  /\ \E r \in Rank : pc[r] = "failed"
  /\ KillAll

Complete(i) ==
  \A k \in Key : /\ meta[i][k].iter = i
                 /\ \A r \in Rank : shard[i][k][r] = meta[i][k]

Loadable(i) == i \in Iter /\ meta[i] # [k \in Key |-> Absent] /\ Complete(i)

(* The job is started again with the same name: load() takes every key from *)
(* the checkpoint the pointer names, among them the iteration counter; the  *)
(* job trains from scratch if there is no pointer file.                     *)
Restart ==
  /\ \/ \A r \in Rank : pc[r] = "down"
     \/ \A r \in Rank : pc[r] = "done"
  /\ run < MaxRuns
  /\ run' = run + 1
  /\ \/ /\ pointer = None
        /\ iteration' = [r \in Rank |-> 0]
     \/ /\ Loadable(pointer)
        /\ iteration' = [r \in Rank |-> shard[pointer][NumKeys][r].iter]
  /\ pc' = [r \in Rank |-> "train"]
  /\ bgPhase' = [r \in Rank |-> "idle"]
  /\ bgJob' = [r \in Rank |-> None]
  /\ bgKey' = [r \in Rank |-> 1]
  /\ committed' = <<None, 0>>
  /\ failed' = [r \in Rank |-> None]
  /\ inProgress' = [r \in Rank |-> FALSE]
  /\ deferred' = [r \in Rank |-> None]
  /\ staging' = [r \in Rank |-> None]
  /\ sendQ' = [r \in Rank |-> <<>>]
  /\ recvQ' = [r \in Rank |-> <<>>]
  /\ confirmed' = [r \in Rank |-> <<>>]
  /\ faulted' = FALSE
  /\ UNCHANGED <<storeVars, exportVars, faults>>

-----------------------------------------------------------------------------
Main(r) ==
  \/ OptimizerStep(r) \/ EndTraining(r)
  \/ PollNothing(r) \/ PollSuccess(r) \/ PollFailure(r)
  \/ WaitIdle(r) \/ WaitSuccess(r) \/ WaitFailure(r) \/ WaitDeferred(r) \/ WaitTimeout(r)
  \/ LaunchExport(r) \/ RaiseExportError(r) \/ JoinExport(r)
  \/ WriteDataloader(r) \/ WriteDataloaderFails(r) \/ StageAndSubmit(r)
  \/ FinalizeDead(r) \/ SendTerminate(r) \/ Join(r) \/ PassBarrier(r)

Background(r) ==
  \/ BgTake(r) \/ BgTerminate(r) \/ BgPlan(r) \/ BgWrite(r) \/ BgLeave(r) \/ BgError(r)

Exporter == ExportDone \/ ExportFails

Coordinator == BgCommit \/ BgTruncatePointer \/ BgWritePointer

(* The job is over: it completed, or it is down, for the last time. *)
Stopped ==
  /\ run = MaxRuns \/ ~(pointer = None \/ Loadable(pointer))
  /\ (\A r \in Rank : pc[r] = "down") \/ (\A r \in Rank : pc[r] = "done")
  /\ UNCHANGED vars

Environment == Fault \/ Crash \/ Teardown \/ Restart \/ Stopped \/ \E r \in Rank : BgDie(r)

Next ==
  \/ \E r \in Rank : Main(r) \/ Background(r)
  \/ GatherWeights
  \/ Exporter
  \/ Coordinator
  \/ Environment

Spec == Init /\ [][Next]_vars

(* The processes keep running and the launcher notices a failed rank;       *)
(* nothing obliges the scheduler to start a job again.                      *)
Fairness ==
  /\ \A r \in Rank : WF_vars(Main(r)) /\ WF_vars(Background(r))
  /\ WF_vars(GatherWeights) /\ WF_vars(Exporter)
  /\ WF_vars(Coordinator)
  /\ WF_vars(Teardown)

FairSpec == Spec /\ Fairness

-----------------------------------------------------------------------------
(* Properties.                                                             *)

TypeOK ==
  /\ pc \in [Rank -> MainPc]
  /\ iteration \in [Rank -> 0..MaxIter]
  /\ inProgress \in [Rank -> BOOLEAN]
  /\ deferred \in [Rank -> 0..MaxIter]
  /\ staging \in [Rank -> 0..MaxIter]
  /\ sendQ \in [Rank -> Seq(0..MaxIter)]
  /\ recvQ \in [Rank -> Seq(SaveDone)]
  /\ bgPhase \in [Rank -> BgPhase]
  /\ bgJob \in [Rank -> 0..MaxIter]
  /\ bgKey \in [Rank -> Key]
  /\ committed \in (0..MaxIter) \X (0..NumKeys)
  /\ failed \in [Rank -> 0..MaxIter]
  /\ shard \in [Iter -> [Key -> [Rank -> Content]]]
  /\ meta \in [Iter -> [Key -> Content]]
  /\ dataloader \in [Iter -> [Rank -> Content]]
  /\ pointer \in Truncated..MaxIter
  /\ exporting \in 0..MaxIter /\ exportError \in BOOLEAN /\ exported \subseteq Iter
  /\ run \in 1..MaxRuns
  /\ faulted \in BOOLEAN
  /\ faults \in 0..MaxFaults
  /\ confirmed \in [Rank -> Seq(Iter)]

Busy(r) == bgPhase[r] \in {"plan", "write", "written", "pointer", "pointerText"}

(* Where a submitted save can be: on the queue to the background process,   *)
(* in its hands, answered on the queue back, or put aside as a failure.     *)
Queued(r) == sendQ[r] # <<>> /\ Head(sendQ[r]) # Terminate
Answered(r) == recvQ[r] # <<>>
Deferred(r) == deferred[r] # None

OnePlace(r) ==
  /\ Len(sendQ[r]) <= 1 /\ Len(recvQ[r]) <= 1
  /\ Queued(r) => ~Busy(r) /\ ~Answered(r) /\ ~Deferred(r)
  /\ Busy(r) => ~Answered(r) /\ ~Deferred(r)
  /\ Answered(r) => ~Deferred(r)
  /\ Queued(r) \/ Busy(r) \/ Answered(r) \/ Deferred(r) => inProgress[r]
  /\ inProgress[r] =>
       Queued(r) \/ Busy(r) \/ Answered(r) \/ Deferred(r) \/ bgPhase[r] = "dead"

(* A submitted save is in exactly one of these places, and                  *)
(* checkpoint_in_progress says whether there is one, so that it does not    *)
(* matter which of the poll and the blocking wait picks the result up.      *)
(* Only a background process that dies takes a save along.                  *)
SingleSlot == \A r \in Rank : OnePlace(r)

HoldsStaged(r) ==
  /\ Busy(r) => staging[r] = bgJob[r]
  /\ Queued(r) => staging[r] = Head(sendQ[r])

(* The pinned buffer is shared with the background process and never copied *)
(* again: from submission until the shard is written it must hold the state *)
(* of the iteration being saved.                                            *)
BufferIntact == \A r \in Rank : HoldsStaged(r)

(* A relaunch of a finished job whose last iteration is no milestone saves  *)
(* that iteration again, over the checkpoint the pointer names.              *)
SavedOnce == run = 1 \/ MilestoneDue(pointer)

(* Whatever happened, the checkpoint latest_checkpoint.txt names can be     *)
(* loaded: every key has its metadata and every shard is of that iteration  *)
(* and of one and the same run, unless the job was relaunched from a last    *)
(* iteration that it saves a second time.                                    *)
PublishedLoadable == pointer \in Iter /\ SavedOnce => Loadable(pointer)

(* The per-rank dataloader files of the published checkpoint come from the  *)
(* run that wrote the rest of it, with the same exception.                   *)
PublishedDataloader ==
  (pointer \in Iter /\ SavedOnce /\ StatefulDataloader) =>
    \A r \in Rank : dataloader[pointer][r] = meta[pointer][NumKeys]

(* Whatever a rank confirmed is complete on storage.                        *)
ConfirmedComplete ==
  \A r \in Rank : \A n \in 1..Len(confirmed[r]) : Complete(confirmed[r][n])

(* A save that a background process reported as failed stops its rank: the  *)
(* rank stages nothing newer, never confirms that save, and gets no further  *)
(* than the next save or finalize, where it raises.  It raises nowhere else, *)
(* so no rank drops out between two saves, where its peers are at different  *)
(* points of the loop.  (The way out is finalize with a background process   *)
(* that has died since: it does not look at the result.)                     *)
FailureStopsJob ==
  \A r \in Rank :
    /\ failed[r] # None =>
         /\ staging[r] = failed[r]
         /\ \A n \in 1..Len(confirmed[r]) : confirmed[r][n] # failed[r]
         /\ pc[r] \notin {"export", "launch", "dataloader", "stage", "terminate", "join"}
         /\ pc[r] \in {"barrier", "done"} => bgPhase[r] = "dead"
    /\ pc[r] = "failed" =>
         \/ iteration[r] = MaxIter
         \/ MilestoneDue(iteration[r]) /\ staging[r] # iteration[r]

(* A restarted job never falls behind a save whose success rank 0 reported  *)
(* (OneLogger's last productive iteration) and goes on from one iteration   *)
(* on all ranks.                                                            *)
RestartKeepsConfirmed ==
  [][run' # run => \A r \in Rank :
       /\ \A n \in 1..Len(confirmed[Rank0]) : confirmed[Rank0][n] <= iteration'[r]
       /\ iteration'[r] = iteration'[Rank0]]_vars

(* A job that ran to its end has published the last iteration: finalize     *)
(* waits for the last save before it ends the background processes.  (A job  *)
(* whose background process died before finalize ends without its last       *)
(* checkpoint and without an error.)                                         *)
DoneMeansPublished ==
  (\A r \in Rank : pc[r] = "done" /\ bgPhase[r] = "exited") => pointer = MaxIter

(* A job that ends normally leaves no checkpoint unexported: every save of  *)
(* this run that it confirmed and that was due for export is on disk as a   *)
(* Hugging Face model, though export and save are under way side by side    *)
(* and the failure of an export shows only one export later, or at the end. *)
DoneMeansExported ==
  pc[Rank0] = "done" =>
    \A n \in 1..Len(confirmed[Rank0]) :
      ExportDue(confirmed[Rank0][n]) => confirmed[Rank0][n] \in exported

(* A job that is down can be relaunched from the checkpoint the pointer     *)
(* names.                                                                   *)
ResumableFromLatest ==
  (\A r \in Rank : pc[r] = "down") /\ pointer \in Iter => Loadable(pointer)

(* The whole protocol, seen from rank 0's main process and the pointer file, *)
(* is the abstract checkpointing of DurableProgress.                        *)
Abstract == INSTANCE DurableProgress WITH
  Max      <- MaxIter,
  progress <- iteration[Rank0],
  inflight <- IF inProgress[Rank0] THEN staging[Rank0] ELSE pointer,
  durable  <- pointer,
  halted   <- pc[Rank0] \in {"failed", "down"}

ImplementsDurableProgress == Abstract!Spec

(* Every start of the job ends: it completes or it is taken down; no rank   *)
(* is left in a collective or a wait that nobody answers.                   *)
EveryRunEnds == []<>(\A r \in Rank : pc[r] \in {"done", "down"})
=============================================================================
