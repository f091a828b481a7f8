# Verification of the cosmos-gui-framework training runtime

TLA+ modules, TLC configurations and TLAPS proofs for the parts of
`cosmos_framework` where processes, threads, storage and restarts meet: the
asynchronous checkpointer, the callbacks that decide when a checkpoint is taken,
which ones are deleted and which are exported, the pieces of the data path whose
state is shared between threads, has to stay equal on several ranks or has to be
found again after a restart, and the pooled key-value caches of streaming
generation.

Most of the repository is tensor code (models, tokenizers, attention,
quantization), whose correctness is numerical and not a matter of states. What
loses a week of training, hangs a thousand GPUs or silently trains twice on the
same data is elsewhere, and that is what is modelled here. All paths below are
relative to `src/cosmos_framework/`.

## 1. The system: inventory

A training job is one process per rank. Ranks run the same loop
(`trainer/__init__.py`) and meet in collectives: gradient reductions, the
all-reduce of the data window's stop flag, the broadcast of the wall-clock
decision, the planning and metadata collectives of a checkpoint save. A call a
rank makes on its own decision, and the others do not, is a hang.

| component | state | operations | interacts with | what makes it correct |
|---|---|---|---|---|
| asynchronous checkpointer `checkpoint/dcp.py`, `checkpoint/base.py` | `checkpoint_in_progress`, `deferred_save_failure`, one pinned buffer, two queues; on storage: shards, metadata, dataloader files, `latest_checkpoint.txt` | `save`, `poll_async_save`, `_wait_for_previous_async_checkpoint`, `finalize`, `load`; the background loop | trainer, callbacks, a daemon process per rank, a process group of these | the pointer always names something loadable; one save at a time; the buffer is not overwritten under the writer; failures stop the job where all ranks do; nobody waits for ever |
| training loop `trainer/__init__.py` | `iteration`, `grad_accum_iter` | step, milestone save, last save, resume | everything | collective calls in the same order on all ranks |
| wall-clock trigger `callbacks/wall_clock_checkpoint.py` (upper half) | timer and estimates on rank 0, `_next_check_iteration` and `_last_checkpoint_iteration` per rank | `on_training_step_end`, `on_save_checkpoint_start` | checkpointer, data window | all ranks decide alike; a save is on time, and does not stall a milestone |
| wall-clock retention (lower half) | history, delete queue, deferred deletions, markers on storage | tag, prune, delete object by object, recover | checkpointer, storage | never delete the last good checkpoint nor a milestone; keep the window; finish what was interrupted |
| emergency checkpoint `callbacks/termination_signal_checkpoint.py` | sentinel files, last iteration saved, per rank | check, skip or save, finalize, touch | checkpointer, Slurm script | success only if the checkpoint is there; all ranks decide alike |
| asynchronous batch builder `data/generator/joint_dataloader.py` | request and result queues, outstanding number, `global_id` | request, get, close, timeout | packing iterator | every batch once, in order; packing state has one user; a closed thread ends |
| CP data window `trainer/__init__.py`, `model/generator/omni_mot_model.py` | window and offset in the trainer, slot and payload in the model | fetch, vote, take, encode, resume | dataloader, checkpoints, wall-clock trigger | the two counters never drift; each batch is used once; resume replays nothing |
| Hugging Face export `callbacks/hf_export.py` | on rank 0: the export thread, its exception, what has been exported | gather after a save, launch, join | checkpointer (which saves have been confirmed), trainer | every confirmed save that is due is exported, or the job fails; never two exports at a time |
| dataflow loader and its resume `data/generator/dataflow/`, `callbacks/cosmos_dataloader_state.py` | per worker: epoch and index, pool or carry, prefetched batches; per rank: `_global_id`, the positions recorded | read, form a batch, deliver, record, save, resume | trainer (counts fetches), checkpoints | a resumed job skips nothing, repeats nothing, and draws the same datasets |
| streaming Transfer caches `model/generator/utils/kv_cache.py`, `model/generator/omni_mot_model.py` | ring, static buffer, plan, reset frame per row, pool owners, captured graphs | next frame, restart rows, store, fetch, new generation | the model's pool, shared by all generations | every forward attends to exactly its own episode's window; no two live generations in one buffer |
| checkpoint loading, processor cache, watchdog, inference serving, ... | see `PROJECT.json` | | | not modelled yet, or not to be: section 8 |

What is hard: the saves run in another process while training goes on and their
results arrive at a different step on each rank; a kill can fall between any two
storage operations; failures are reported late on purpose; what a worker has read ahead is
lost at a kill; buffers outlive the objects they were allocated for; decisions that must be
collective are taken from local state (a clock, a file, a queue); deletion relies
on what was true of a storage system some time ago. `PROJECT.json` lists each of
these as a hazard at its line, with the properties that look at it.

## 2. The modules

| module | models | composed with |
|---|---|---|
| `DurableProgress` | abstract specification: what checkpointing promises to a job that may be stopped at any moment | |
| `AsyncCheckpoint` | main process and background process of every rank, their queues, the collective save key by key, the pointer file, the Hugging Face export that follows a save, faults, kill and restart | implements `DurableProgress` through a refinement mapping |
| `AsyncCheckpointProofs` | proofs | |
| `WallClockRetention` | rank 0: markers, history, delete queue, deletion thread, kill and recovery | the asynchronous save as three steps |
| `WallClockRetentionProofs` | proofs | |
| `WallClockTrigger` | all ranks: timer, adaptive stride, broadcast, yielding to milestones and windows | the data window as `CpSize`; the save as a duration |
| `WallClockTriggerProofs` | proofs | |
| `TerminationSignal` | all ranks: sentinel, threshold, emergency save, success marker; background writers that report at their own time | the write of `AsyncCheckpoint` as one step |
| `TerminationSignalProofs` | proofs | |
| `AsyncBatchBuilder` | trainer thread, daemon and closing owner, one step per access to shared state | the packing iterator is abstract |
| `AsyncBatchBuilderProofs` | proofs | |
| `CPDataWindow` | the trainer's window and the model's payload rotation on all CP ranks, resume | the wall-clock trigger as a guard on where it may save |
| `CPDataWindowProofs` | proofs | |
| `DataflowResume` | one data-parallel rank: workers, batchers, the joint loader's draw, the state callback, checkpoint and resume | the trainer as its fetch count; context parallelism is `CPDataWindow`'s |
| `DataflowResumeProofs` | proofs | |
| `GenKVCache` | the index arithmetic of the rolling cache: slots, history, the plan of a row | |
| `StreamingTransfer` | generations over one pool: frames, restarts of rows, stores, the static buffer, captured graphs, claims | extends `GenKVCache` |
| `StreamingTransferProofs` | proofs | |
| `MC*` | the modules TLC is started on, with values too long for a cfg | |

How state and actions correspond to the code is in `PROJECT.json` under `map`,
definition by definition with lines; names follow the source. The main points:

**AsyncCheckpoint.** `inProgress` is `checkpoint_in_progress`, `deferred` is
`deferred_save_failure`, `staging` is the iteration whose state the pinned buffer
holds, `sendQ`/`recvQ` are the two multiprocessing queues. `Poll*` is
`poll_async_save`, `Wait*` is `_wait_for_previous_async_checkpoint` as called by
`save` and `finalize`, `WriteDataloader` and `StageAndSubmit` are the rest of
`save`. In the background, `BgPlan`, `BgWrite`, `BgCommit` and `BgLeave` are one
`dcp.save` of one key: a barrier, the write of the shard *out of the shared
buffer*, the metadata by rank 0 when all shards are written, the end of the
collective. The pointer is written by rank 0 after the last key, in two steps on
a filesystem (`open(..., "w")` truncates). `Saved(i)` carries the number of the
run, so that shards of two attempts at one iteration are told apart. `Fault`
makes storage or the process group of this run fail from now on at any step:
from then on a save may fail on any rank (`BgError`), a wait may time out and a
background process may die. `Crash` and `Teardown` lose everything but storage.
The export callback runs in the same loop: `AfterLoop` and `AfterExport` say
where the loop goes after a save, `GatherWeights` is the collective that all ranks
enter when `ExportDue`, and rank 0 then raises the error the last export left or
launches the next (`LaunchExport`, `RaiseExportError`). `JoinExport` is rank 0's
`on_train_end`, which comes *before* `finalize`. `exporting` and `exportError` are
the thread and its exception; `exported` is history, and loses an iteration
when its export is launched again.

**WallClockRetention.** A checkpoint directory is a set of objects: a shard, the
metadata, the `saved` and `deleting` markers; `intact` says whether the store
silently cut a shard short. Every storage operation of the deletion thread is a
step and may fail (`MaxFailures`), a kill may come after each. The main thread's
`on_save_checkpoint_success` is three steps (dispatch, mark, prune), since the
deletion thread runs beside it. `SaveIterOf` gives the `save_iter` of each start.

**WallClockTrigger.** Time is counted in whole units on rank 0's clock. The
smoothed step time is any value between the fastest and the slowest step seen,
which covers every smoothing factor; the other ranks bring arbitrary answers to
the broadcast, as their own clocks could.

**TerminationSignal.** `written` holds the collective writes that are complete;
`Report` is the moment one rank's writer says so, and rank 0's comes with the
pointer. Each rank sees the sentinel file (`CheckNoSignal`, `CheckSkip`,
`CheckSave`) and the result of its save (`ConfirmSuccess`) when it looks, so that
ranks may part at any of these.

**AsyncBatchBuilder.** One step is what a thread does between two accesses to
`_requests`, `_results`, `_closed`, `_outstanding_sequence_id` or `global_id`.
The client may iterate again after an exception (`MaxEntries`).

**CPDataWindow.** A batch is its rank and its position in that rank's stream. A
checkpoint is its iteration and, as history, what had been trained on by then and
how many partial windows a resume from it has discarded (`discarded`).

**DataflowResume.** An item is its number in its worker's stream, over all epochs;
`Epoch` and `Index` are what the distributor stamps on the sample and `Start` is
where it begins when it is given a stamp. `held` is the pool of
`PoolPackingBatcher` or the carry of `SequentialPackingBatcher`, `queue` the
prefetched batches, of which `Contiguous` says whether the collation will accept
them (`FetchRefused` is its `ValueError`). `position` is the callback's
state and becomes part of `saved`; `globalId` is set at a resume by the
trainer, not by the callback.

**StreamingTransfer.** The body of the generator between two yields is a sequence of
steps: `Step` (the rows that restart), `Control`, `StoreControl`, `Denoise`,
`Refresh`, `StoreTarget` or `LastFrame`. A stored key is named by generation,
start of the episode and number within it, so that a read of the wrong key shows
in `seen`. `owner` is the pool's claim on a buffer, `runners` the
generation a captured graph is bound to, `staticPlan` what the static buffer was last
built for.

## 3. The runs

Eight passing runs and four that show a disagreement. Each passing property has a
mutant, a plausible bug in a mapped definition, under which TLC finds it violated.

| run | configuration | states | what it shows |
|---|---|---|---|
| `async` | 2 ranks, 2 keys, filesystem, 1 milestone and a last save that is none, every save exported, 2 starts, 1 fault episode | 710 000 | types; a save is in one place (`SingleSlot`); the buffer is intact (`BufferIntact`); the pointer names something loadable, from one run, with its dataloader files (`PublishedLoadable`, `PublishedDataloader`); what was confirmed is complete (`ConfirmedComplete`); a reported failure is neither lost nor overtaken (`FailureStopsJob`); a restart keeps what was confirmed (`RestartKeepsConfirmed`); the protocol implements `DurableProgress`; no start of the job hangs (`EveryRunEnds`); the end publishes the last iteration (`DoneMeansPublished`) and every confirmed save has been exported by then (`DoneMeansExported`) |
| `retention` | 4 iterations, window of 1, 2 starts, `save_iter` lowered, 1 failing operation, truncated writes, listings that fail in part or as a whole | 227 000 | `NewestGoodKept`, `MilestonesKept`, `HistoryIsNewest`, and while storage works `WindowKept` and `InterruptedFinished` |
| `trigger` | 2 ranks, steps of 2 or 9, writes of 1 or 5, an interval of 14, windows of 2, 18 steps | 25 000 | `RanksAgree`; no deadlock in the broadcast; `SavedOnTime` and `StallIsUnforeseen` while steps are steady |
| `signal` | 3 ranks, a milestone of their own run and a start from another, 1 failing write, 1 dying background process | 308 000 | `SavedMeansWritten`, `SkipLosesLittle`, `WrittenEndsJob` |
| `builder` | 3 batches, fresh and resumed, 3 entries of the generator | 24 000 | `DeliveredInOrder`, `PackingExclusive`, `AnswersItsRequest`, `TimeoutTerminal`, `ClosedDaemonExits` |
| `cpwindow` | 3 ranks, 2 microsteps an iteration, a save every 2 iterations (so in every slot of a window) and wall-clock saves between windows, 3 starts, 1 end of data on one rank | 110 000 | `NoDesync`, `OwnersTakeTurns`, `NoReplay`, `TrainingEnds` |
| `dataflow` | 3 datasets, one per kind of batcher, 2 workers each, 4 iterations of 2 steps, 3 starts | 339 000 | `NothingSkipped`, `NothingRepeated`, `SelectionResumes`; `SupportedNeverRefused` |
| `streaming` | window of 3 frames, 1 pinned, 6 frames, 2 generations of 1 or 2 rows, 2 restarts of rows | 312 000 | `AttendsToItsEpisode`, `RingHasOneOwner`, `OnlyOverlapFails` |
| `async_relaunch` | 2 ranks, `max_iter` no multiple of `save_iter` | violation | a job launched again at its last iteration saves it again in place; a kill meanwhile leaves no loadable checkpoint |
| `signal_split` | 2 ranks, nothing fails | violation | a rank that looked just before the sentinel appeared trains on; the emergency checkpoint its peers have begun is never written |
| `cpwindow_replay` | 3 ranks, 2 microsteps an iteration, 2 resumes inside a window, no end of data | violation | the second resume trains again on a batch of the window it discards |
| `streaming_unlimited` | no window, 1 restart of a row | violation | a restarted row attends to the episode before it |

### Bounds, and why they are enough

* *Ranks.* Two ranks already are a coordinator and a rank that is none, which is
  the only asymmetry of the checkpointer; three where ranks other than 0 can
  differ among each other (signal, CP window).
* *Keys.* Two: one before the last, after which the collective is repeated, and
  the last, after which the pointer is written.
* *Iterations.* Enough for two saves in one start (the second meets the first),
  and for one more after a restart; four for retention, the least with a
  truncated successor, a deferral and a later save; 18 for the trigger, two
  milestones, so that the second is planned with measured durations.
* *Starts (`MaxRuns`).* Two: what one run leaves behind meets the next. Three for
  `CPDataWindow` and `DataflowResume`, where the second resume starts from a
  position that was itself recorded by a resumed run; `cpwindow` discards up to two
  windows in them, and the second one is where replay begins.
* *Faults.* One episode. A second one would meet a job that is already stopping.
* *Window of 1 in `retention`:* with it every save displaces one, and an interrupted
  deletion, a deferred one and a new one can meet within four iterations.
* *`dataflow`.* Epochs of two or three items per worker, so that streams cross one or
  more; a pool of two with batches of one, which holds an item back at every batch; fixed
  batches that divide the epoch; token-budget batches with a lookahead of two and
  an oversized sample at the head and in the middle. One prefetched batch per
  worker is enough for a kill to lose work done ahead.
* *`streaming`.* Six frames roll over a ring of three twice, also after a restart;
  with two restarts two rows are in different episodes, or one row is in its
  third. The second generation finds the buffers of the first, of its own shape or
  another.

`CHECK_DEADLOCK FALSE` is set where the system may stop without a step that says
so: the builder whose iterator hangs, a window or signal run in which all ranks
have exited, a dataflow job that has trained or used up its starts, generations that
are all closed. Elsewhere a finished job stutters in a named step and TLC checks
that nothing else stops.

### Fairness

* `AsyncCheckpoint`: weak fairness of each rank's main process and background
  process, of the coordinator's steps, of the export thread and of the collective
  that gathers the weights (operating system processes run), and
  of `Teardown` (torchrun stops the job when a rank has failed). `WaitTimeout` is
  part of the main process: `SAVE_RESULT_TIMEOUT` elapses. No fairness of
  `Fault`, `Crash` or `Restart`.
* `WallClockRetention`: the deletion thread runs.
* `TerminationSignal`: every rank and writer runs and collectives that all have
  joined complete; no fairness of the signal, of failures or of deaths.
* `AsyncBatchBuilder`: the trainer, the daemon and a close that has begun run.
  `BuildBatch` has *no* fairness: the packing iterator may hang, which is why
  `ClosedDaemonExits` allows the daemon to be inside it.
* `CPDataWindow`: ranks run, collectives complete, and a killed job is started
  again.
* `WallClockTrigger`, `DataflowResume` and `StreamingTransfer` state safety only.

## 4. What is proved

Every safety invariant, every action property and the refinement that a passing run
checks is also a theorem: TLAPS checks it for all values of the constants (any
number of ranks, keys, iterations, starts, faults), from the named assumptions of
each module, which say no more than that bounds are natural numbers and rank 0
exists. Where a theorem needs more of the configuration, it says so (`ASSUME` in
its statement), and the list below the table says what happens otherwise.

| theorem | module | argument |
|---|---|---|
| `TypeCorrect`: `Spec => []TypeOK` | `AsyncCheckpointProofs` | `TypeOK` is inductive with `JobIsIteration`: a background process that is saving has been given an iteration, so what it reports is well formed |
| `SingleSlotCorrect`, `BufferIntactCorrect` | `AsyncCheckpointProofs` | `SlotInvariant`: the two properties of each rank are inductive only together, and with `Quiet` (past the wait nothing is in progress), `TerminateIsLast` (the terminate message has no save behind it) and `SubmitsIteration` (iteration 0, which is also the terminate message, is never submitted). A step touches one rank's slot; `SlotStays` carries it for the others |
| `DoneMeansExportedCorrect` | `AsyncCheckpointProofs` | `ExportInvariant`: a save rank 0 has confirmed (`ConfirmedCovered`) or staged and not yet followed by the export step (`StagedCovered`) is exported, being exported, or its failure is kept until it is raised; past the join no export runs and none has failed (`EndJoined`). That a confirmation is of the staged iteration is `AnswersStaged`, from the slot invariant |
| `ConfirmedCompleteCorrect`, `FailureStopsJobCorrect` | `AsyncCheckpointProofs` | `StoreInvariant`, over `SlotInvariant`: a key that the collective has committed, or that a rank has passed, reported or confirmed, is settled (`KeySettled`): its metadata is of that iteration, every rank's shard and dataloader file belong to that same save, and no rank hands the iteration over or writes the key again in this run (`WontSubmit`, `PastKey`). `FailInvariant` adds, of a failure a background process has reported: as long as the rank has not raised it, it is still in the queue (`Refused`) or put aside by the poll (`Deferred`), the failed save is the one staged last, and it has not been confirmed (`NotConfirmed`) |
| `PublishedLoadableCorrect`, `PublishedDataloaderCorrect`, `RestartKeepsConfirmedCorrect`, `DoneMeansPublishedCorrect` | `AsyncCheckpointProofs` | the first two from `PointerSettled`, inductive over `StoreInvariant`: where `SavedOnce` holds, every key of what the pointer names is settled. The other two from `PointerInvariant`: the pointer names the last save rank 0 knows to be good and is never behind a confirmed one (`PointerKnown`, `ConfirmedKnown`), the last milestone passed has been handed over (`LastHandedOver`), and at the end nothing is in progress unless the process is dead (`EndQuiet`) |
| `ImplementsDurableProgressCorrect`: `Spec => DurableProgress` | `AsyncCheckpointProofs` | step by step from the invariants above: only the write of the pointer, and before it its truncation (`TornWhileSaving`), moves the abstract `durable`, and a restart takes exactly it |
| `MilestonesKeptCorrect` | `WallClockRetentionProofs` | `NoMilestoneInHand`: past `_safe_to_delete` the deletion thread holds no milestone. It needs `DownIsIdle`, since `save_iter` changes at a restart: the thread has been abandoned by then |
| `HistoryIsNewestCorrect` | `WallClockRetentionProofs` | `HistoryInvariant`: the history is ascending and newer than all that fell out of it and is queued or in the hands of the deletion thread (`HistoryOrder`), a save being written or confirmed is newer than all of that (`FreshSave`), and something is out of the window only while the window is full (`WindowFull`). The recovery sorts: `Sorted` of a finite set of iterations exists and is unique (`SortingOrders`) |
| `NewestGoodKeptCorrect` | `WallClockRetentionProofs` | `GoodInvariant`, over the former: whatever is being erased, is marked for it, or is an interrupted deletion a start has taken up has a newer good checkpoint (`DoomedSurpassed`); any other queued deletion names the landed, newer checkpoint that displaced it (`Displacers`), which the deletion thread verifies first |
| `WindowKeptCorrect` | `WallClockRetentionProofs` | `WindowInvariant`, over the former: until something has failed, every wall-clock checkpoint marked as saved is in the history or on its way to deletion (`NoneForgotten`), what is on its way is older than the checkpoint to resume from (`Overtaken`), and the history exceeds the window by one only between its two updates. For the unmarked ones, `OrphanInvariant`: a deletion announces itself before the first object goes (`Announced`), so that only a save that has landed and not been marked can be lost, one to a start (`FewLost`) |
| `OneRequestCorrect`, and from it `DeliveredInOrderCorrect`, `OneAheadCorrect`, `PackingExclusiveCorrect` | `AsyncBatchBuilderProofs` | `OneRequest`: at most one of the request queue, the daemon, the result queue and the trainer holds the outstanding request, close messages aside, and the counters of packed and delivered batches say which |
| `AnswersItsRequestCorrect`, `TimeoutTerminalCorrect` | `AsyncBatchBuilderProofs` | over `OneRequest`, whose one message carries the outstanding number: no closing message is among the results, or in the trainer's hands, of a builder that is open (`OpenUnmarked`), since `close` sets `_closed` first; a trainer whose wait has timed out is closing the builder, or is past that and outside `get_batch` (`TimedOutCloses`) |
| `RanksAgreeCorrect` | `WallClockTriggerProofs` | `Together`: ranks that are at the same point of a step have the same next check and last save, and a rank that has not yet done its part has what it did before; the broadcast replaces every answer by rank 0's |
| `SavedOnTimeCorrect`, `StallIsUnforeseenCorrect` | `WallClockTriggerProofs` | `ClockInvariant`, over the former: with steady steps, the time at the next check is within the interval or the wait until then is forced (`CheckInTime`), where a decision is due its time has come (`OfferHolds`), and the time left until the next milestone covers what a running write was planned with (`PlanHolds`). The estimate is bounded by the writes seen so far (`Greatest` of a finite set) |
| `SavedMeansWrittenCorrect`, `SkipLosesLittleCorrect` | `TerminationSignalProofs` | `SignalInvariant`: a writer works on, or has answered, the save its rank waits for and never both (`Submitted`); success is reported for complete writes only, by rank 0 after the pointer (`OkMeansWritten`); an emergency save is of the present iteration, which no rank leaves any more (`EmergencyNow`); once one is complete all ranks have submitted it, so none can skip (`AllCommitted`); `last` is the iteration of a complete write (`LastWritten`) |
| `NoDesyncCorrect`, `OwnersTakeTurnsCorrect` | `CPDataWindowProofs` | `WindowInvariant`: before a rank takes its batch, the trainer's offset is the model's slot, and the payloads are present unless the slot is 0; afterwards the slot is one ahead. Slots of ranks at the same point are equal and count the run's steps modulo `CpSize`, so the owner is who the rotation says |
| `NoReplayCorrect` | `CPDataWindowProofs` | `ReplayInvariant`: `Progress`, the steps of this run counted from the window boundary it resumed at, is `CpSize` times the windows each rank has read plus the slot (`PosCounts`); what was trained on lies before `Progress` (`HistoryInv`). As long as no window was discarded, runs begin on boundaries (`StepsCount`), and a checkpoint that ends a window or is the first to cut one leaves everything behind the position a resume from it starts at (`Bounded` in `CkptInv`, `BeforeWindow`). Besides, each rank's positions rise along the history (`Increasing`), and a batch that a rank holds, or whose payload it carries, has not been trained on before the slot of its owner (`HeldInv`) |
| `NothingSkippedCorrect`, `NothingRepeatedCorrect`, `SelectionResumesCorrect` | `DataflowResumeProofs` | from the callback's position on, the batch in the trainer, the batches in the queue and what the batcher holds back are consecutive stretches of the stream up to the item read next, discarded samples aside (`StreamInv`); the same of a checkpoint's position (`SavedInv`), which is what a restart starts from. It holds until a batch is refused, after which the worker forms no more |
| `SupportedNeverRefusedCorrect` | `DataflowResumeProofs` | `SupportedInv`: where fixed-size batches divide the slice of an epoch, the item read next, the recorded and the saved positions are whole numbers of batches and every batch is a block (`Block`), which lies within one epoch (`BlockContiguous`); batches of one are one stretch by themselves |
| `RingHasOneOwnerCorrect`, `AttendsToItsEpisodeCorrect` | `StreamingTransferProofs` | `RingInv`: a generation that stored and may be resumed owns the ring, which holds, where it will be looked for, every entry of a row's episode that is a sink or not older than the rolling part. A store does not touch the slot of such an entry (`StoreKeeps`), and a plan asks for no others (`PlanHeld`) |
| `OnlyOverlapFailsCorrect` | `StreamingTransferProofs` | `AloneInv`: while a generation that started alone lives, graphs and buffers are its own or nobody's, and any other is still in its first frame, before the store that is refused. What a plan names has been stored to (`FilledInv`) |

Every proof has one lemma or step per action; the temporal step at the end is
`PTL`. Each inductive invariant was checked by TLC on the run's instance before it
was proved.

What the theorems with a condition need, and why it is no formality:

* `PublishedLoadableCorrect`, `PublishedDataloaderCorrect`: no assumption on the
  constants, but the properties leave out one case (`SavedOnce`): a later start while
  the pointer names a last iteration that is no milestone. It saves over that
  checkpoint (`async_relaunch`).
* `DoneMeansPublishedCorrect`: the property itself speaks of background processes that
  have been told to stop, not of dead ones (section 5).
* `NewestGoodKeptCorrect`: the last iteration is a milestone of every start's `save_iter`
  (`MilestoneLast`); the save after the loop may rewrite a wall-clock checkpoint
  that is already tagged.
* `WindowKeptCorrect`: `KeepLast > 0`; with 0 nothing is pruned.
* `NoReplayCorrect`: no assumption on the constants, but the property speaks of lines
  of runs that have discarded at most one partial window and in which no dataloader
  has ended. Past that it is false, also without an end of data (`cpwindow_replay`).
* `SavedOnTimeCorrect`, `StallIsUnforeseenCorrect`: a step, and a step with a write
  behind it, fit in the interval (`Fits`). Otherwise the first step, of which no
  time is known yet, is already late, or a write that is confirmed after the
  decision lowers the estimate the decision was made with.
* `AttendsToItsEpisodeCorrect`: a finite window; `streaming_unlimited` refutes the
  other case.

Only model-checked: what must eventually happen, that is `EveryRunEnds`,
`InterruptedFinished`, `ClosedDaemonExits`, `TrainingEnds` and `WrittenEndsJob`, since
fairness and `ENABLED` are out of the prover's reach; and that no run deadlocks.
Facts about data of any size (a set of iterations has a least element, a
recovery's listing can be sorted) are proved from the library's well-founded
induction over the naturals, with sets in place of predicates (`Least`,
`SmallestExists`); what a recursive definition computes is not.

## 5. Disagreements the runs show

`PROJECT.json` quotes the lines. In short:

1. **`async_relaunch`.** `train()` saves after the loop whenever the iteration is
   not a multiple of `save_iter`, also if the job has just resumed from a
   checkpoint of that iteration. The save overwrites the checkpoint the pointer
   names.
2. **`signal_split`.** Each rank looks for the emergency sentinel on its own,
   without the agreement `WallClockCheckpoint` goes through for the same kind of
   save: some ranks enter the collective save, another the next training step, and
   they wait for each other until the job is killed.
3. **`streaming_unlimited`.** Without a window the caches have no Transfer limit and
   all rows read the shared history, so that a row that restarted goes on
   attending to the episode before.
4. **`cpwindow_replay`.** `_resume_dataloader_fetch_count` assumes that every
   earlier run started on a window boundary. Its docstring says that no data is
   replayed; a second resume inside a window replays a batch.

Noticed while modelling, visible in the models, and without a run of their own:

* `finalize()` returns at once when the background process is dead, and the emergency
  callback takes that for success: the marker is created for a checkpoint nobody wrote.
  `SavedMeansWritten` leaves out ranks with a dead background process.
* Ranks may measure the distance to the last checkpoint from different saves, since
  they hear of successes at different steps, so that one may skip the emergency
  checkpoint the others have begun. What `SkipLosesLittle` bounds is the loss.
* `callbacks/wall_clock_checkpoint.py:815` says that recovery keeps checkpoints
  orphaned by a preemption from accumulating one restart at a time. It does so for
  those that were marked. One that a kill caught between its landing and its mark is
  never recognised; the second part of `WindowKept` bounds these by one for each
  earlier start, and that is tight.
* On a filesystem the pointer file is truncated before it is written. The model
  has both steps; `PublishedLoadable` speaks of a pointer that names an
  iteration, and a job that stopped in between is not started again. That the torn pointer
  is seen by no save and no restart is part of `DurableProgress` (`Unreadable`).
* Each rank adjudicates its own save. `FailureStopsJob` says that a rank stops with
  the failure reported to it; it does not say that its peers stop at the same save.
* A deferred failure is dropped when the background process has died before
  `finalize`; `DoneMeansPublished` excludes that case.
* An export error that rank 0 raises in `on_train_end` comes before
  `checkpointer.finalize()` (`trainer/__init__.py:418`), so that the save of the
  last iteration may be lost with its daemon process; the next start makes up for it.
* A checkpoint whose export failed, or was killed, is not exported after a resume,
  which starts behind it (`DoneMeansExported` speaks of one start). A file an earlier attempt copied only in
  part is kept, since copies are skipped when the destination exists
  (`callbacks/hf_export.py:388`).
* Ranks other than 0 create the success marker when the write is complete, which
  is before rank 0 has moved the pointer (`SavedMeansWritten` asks for the
  pointer of rank 0 only).
* A wall-clock checkpoint whose marking failed is never deleted; a checkpoint
  whose objects could not be removed loses its `deleting` marker all the same.
  `WindowKept` and `InterruptedFinished` therefore hold as long as storage works.
* After an end of data on one rank the others have dropped a batch the resumed
  position does not count (`NoReplay` excludes it).
* `data/generator/dataflow/loader.py:80` and `docs/custom_dataset.md:308` (in the repository's root) recommend a sequential,
  order-preserving batcher for exact resume. `SequentialPackingBatcher` with a token
  budget puts samples aside and discards oversized ones, so that its batches need not
  be contiguous, and the loader refuses those with the same error as it does those of a
  pool. So it does batches of `SimpleBatcher` that span two epochs, after every
  restart again.

## 6. Abstractions

* Tensors, plans and file contents are reduced to the iteration and the run they
  come from; a list of storage objects to one shard and one metadata per key (or
  per checkpoint, in retention).
* `AsyncCheckpoint` takes milestones and the save after the loop. The save at
  iteration 0 (`save_zero_checkpoint`) and wall-clock saves go through the same
  `save` at other iterations; the emergency save is `TerminationSignal`'s. The
  success callbacks do not raise (an exception of theirs would leave
  `poll_async_save`).
* `CPDataWindow`: the broadcast of the payload and the training step are one
  collective step, and a batch is always a dictionary (`_fetch_data_batch` raises a
  `TypeError` otherwise, on one rank).
* `WallClockRetention` erases on an object store as on a filesystem the husk of a
  directory; on an object store there is none, and the step changes nothing that is
  looked at.
* The planning, write and finish phases of `torch.distributed.checkpoint.save`
  are external; they are modelled from how `save_state_dict_worker` uses them.
* A restart takes all keys of the checkpoint the pointer names; `keys_to_resume`
  and warm starts from other paths are not modelled.
* The export is one object per iteration, produced by a thread that ends or fails; its
  steps, the files it copies and the best-effort uploads are left out.
* `DataflowResume`: one rank with context parallelism 1; the permutation is a function of seed
  and epoch; which samples fit together is open within the batcher's limits;
  every worker has at least one item per epoch; the round robin over
  workers begins again at worker 0 after a restart, as a new `DataLoader`'s does.
  Items are dictionaries, which carry their stamp (others are not recorded).
  `SupportedNeverRefused` speaks of batches of one sample and of fixed-size batches
  that divide the slice only; the others are in section 5.
  `IterableDistributor`, `RankPartitionedDistributor`, mixtures, processors and
  collation are left out.
* `StreamingTransfer`: one layer and one branch, since all do the same in buffers of their own. The
  understanding tokens, mRoPE positions, the path without captured graphs and the fallback
  that clones when the ring is disabled, and the token limit are left out. A plan is the set of its
  entries. A generation starts or resumes while no other is inside a frame; callers whose code
  runs within a frame and starts another there are left out, and so are the `ValueError`s
  for missing or surplus control chunks. The caches of a generator that has failed or been dropped are collected at once
  unless a captured graph holds them.
* In `TerminationSignal` and `WallClockRetention` a collective write is one or two
  steps: its interleavings are the subject of `AsyncCheckpoint`.
* `sorted` in retention is `Sorted`, a chosen ordering permutation: entries are numbers,
  so all such permutations give the same sequence.
* Listing directories at recovery is one step that may leave out one directory it
  cannot read, or fail as a whole.

## 7. Running

In this directory: `tlc -config AsyncCheckpoint.cfg MCAsyncCheckpoint.tla`
(and likewise for the other pairs in `PROJECT.json`), `tlapm
AsyncCheckpointProofs.tla`. The longest run takes about three minutes with two
workers, the longest proof a few minutes.

## 8. Plan

Done, in the order of importance: the asynchronous checkpointer and its abstract
specification; retention; the batch builder; the CP data window; the emergency
checkpoint; the trigger; the resume of the dataflow loader; the pooled caches of
streaming generation; the export composed with the save it follows; proofs about
each of these.

Next modules, each in the place of a narrower run:

1. `LoadPlan`: which keys each rank loads and from where (`keys_to_resume`, the
   deduplicated read and its broadcast); all ranks must take the same branch.
2. The packing and rank partition of the joint dataloader, as pure functions against
   a reference definition.
3. The distillation checkpointer: the same protocol with several networks.

Next theorems: abstract specifications for more components than the checkpointer
(the rotation of windows as one counter, the deletion thread as an atomic prune)
and that the modules implement them; that the deadlock-free waits of the trigger and
of the window are so for any number of ranks, as invariants about who waits for whom.

Not to be modelled, with reasons, in `PROJECT.json`: numerics (models, EMA,
quantization, clipping), reporting (telemetry, heart beat, logging callbacks),
sequential construction (configuration, conversion scripts), network transfer.
