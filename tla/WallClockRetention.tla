------------------------- MODULE WallClockRetention -------------------------
(***************************************************************************)
(* Retention of wall-clock checkpoints on rank 0                           *)
(* (cosmos_framework/callbacks/wall_clock_checkpoint.py).                  *)
(*                                                                         *)
(* The main thread trains and saves: save_iter milestones, which stay, and *)
(* wall-clock checkpoints, of which the newest KeepLast are kept.  When a  *)
(* wall-clock save has landed, on_save_checkpoint_success tags it with a   *)
(* marker object and queues what fell out of the window for a daemon       *)
(* thread, which removes a checkpoint object by object, and only if the    *)
(* checkpoint that displaced it looks complete.  The job may be killed     *)
(* between any two storage operations; the next start recovers the history *)
(* and the interrupted deletions from the markers.                         *)
(***************************************************************************)
EXTENDS Integers, Sequences, FiniteSets, TLC, SequencesExt

CONSTANTS
  MaxIter,      \* config.trainer.max_iter
  SaveIterOf,   \* config.checkpoint.save_iter, as configured for each start of the job
  KeepLast,     \* keep_last
  Filesystem,   \* filesystem (listings omit dotfiles) or object store
  MaxRuns,      \* bound: how often the job is started
  MaxFailures   \* bound: how many storage operations fail

ASSUME ConstantAssumption ==
  /\ MaxIter \in Nat \ {0}
  /\ MaxRuns \in Nat \ {0}
  /\ SaveIterOf \in [1..MaxRuns -> Nat \ {0}]
  /\ KeepLast \in Nat
  /\ Filesystem \in BOOLEAN
  /\ MaxFailures \in Nat

VARIABLES
  \* main thread
  pc,             \* "train", "save", "finalize", or "down": no process
  iteration,
  lastCheckpoint, \* _last_checkpoint_iteration
  triggered,      \* _triggered_iterations
  success,        \* progress of on_save_checkpoint_success
  tracked,        \* _wall_clock_iterations
  \* asynchronous writer
  writer,         \* the save under way: its phase and iteration
  \* deletion thread and the two queues it shares with the main thread
  deleteQ,        \* _delete_queue
  deferred,       \* _deferred_deletions
  worker,
  \* storage
  files,          \* objects in each checkpoint directory
  intact,         \* iterations whose objects all have their full length
  pointer,        \* iteration latest_checkpoint.txt names
  landed,         \* history: iterations whose last save ran to its end
  wallClock,      \* history: iterations whose last save was a wall-clock one
  run, failures

mainVars == <<pc, iteration, lastCheckpoint, triggered, success, tracked>>
storeVars == <<files, intact, pointer, landed, wallClock>>
vars == <<mainVars, writer, deleteQ, deferred, worker, storeVars, run, failures>>

Iter == 1..MaxIter
None == 0

(* A DCP component is its shards and the .metadata written after them. *)
Payload == {"shard", "metadata"}
File == Payload \cup {"saved", "deleting"}     \* SAVED_MARKER, DELETING_MARKER

NoSave == [phase |-> "none", iter |-> None]
NoSuccess == [phase |-> "none", iter |-> None]
Idle == [phase |-> "idle", iter |-> None, by |-> None, todo |-> {}]

Init ==
  /\ pc = "train"
  /\ iteration = 0
  /\ lastCheckpoint = 0
  /\ triggered = {}
  /\ success = NoSuccess
  /\ tracked = <<>>
  /\ writer = NoSave
  /\ deleteQ = <<>>
  /\ deferred = <<>>
  /\ worker = Idle
  /\ files = [i \in Iter |-> {}]
  /\ intact = {}
  /\ pointer = None
  /\ landed = {}
  /\ wallClock = {}
  /\ run = 1
  /\ failures = 0

SaveIter == SaveIterOf[run]
IsMilestone(i) == i % SaveIter = 0

(* One more storage operation fails. *)
Fails == failures < MaxFailures /\ failures' = failures + 1

-----------------------------------------------------------------------------
(* Training and saving.                                                    *)

Training == pc = "train" /\ success.phase = "none"

MoreSteps == iteration < MaxIter

TrainStep ==
  /\ Training
  /\ MoreSteps
  /\ iteration' = iteration + 1
  /\ pc' = IF IsMilestone(iteration + 1) THEN "save" ELSE "train"
  /\ UNCHANGED <<lastCheckpoint, triggered, success, tracked, writer, deleteQ, deferred, worker,
                 storeVars, run, failures>>

(* on_training_step_end decides that a wall-clock save is due.             *)
TriggerSave ==
  /\ Training
  /\ iteration > lastCheckpoint
  /\ triggered' = triggered \cup {iteration}
  /\ pc' = "save"
  /\ UNCHANGED <<iteration, lastCheckpoint, success, tracked, writer, deleteQ, deferred, worker,
                 storeVars, run, failures>>

(* The loop ends with one more save unless its last step was a milestone. *)
EndTraining ==
  /\ Training
  /\ iteration = MaxIter
  /\ pc' = IF IsMilestone(iteration) THEN "finalize" ELSE "lastSave"
  /\ UNCHANGED <<iteration, lastCheckpoint, triggered, success, tracked, writer, deleteQ, deferred,
                 worker, storeVars, run, failures>>

(* save() has waited for the previous write and starts this one; objects of *)
(* an earlier save of the same iteration are overwritten.                   *)
StartSave ==
  /\ pc \in {"save", "lastSave"}
  /\ success.phase = "none"
  /\ writer.phase = "none"
  /\ writer' = [phase |-> "shards", iter |-> iteration]
  /\ lastCheckpoint' = iteration
  /\ landed' = landed \ {iteration}
  /\ wallClock' = IF iteration \in triggered THEN wallClock \cup {iteration} ELSE wallClock \ {iteration}
  /\ pc' = IF pc = "save" THEN "train" ELSE "finalize"
  /\ UNCHANGED <<iteration, triggered, success, tracked, deleteQ, deferred, worker,
                 files, intact, pointer, run, failures>>

(* The store may cut a shard short without telling the writer. *)
WriteShards ==
  /\ writer.phase = "shards"
  /\ files' = [files EXCEPT ![writer.iter] = @ \cup {"shard"}]
  /\ intact' \in {intact \cup {writer.iter}, intact \ {writer.iter}}
  /\ writer' = [writer EXCEPT !.phase = "metadata"]
  /\ UNCHANGED <<mainVars, deleteQ, deferred, worker, pointer, landed, wallClock, run, failures>>

WriteMetadata ==
  /\ writer.phase = "metadata"
  /\ files' = [files EXCEPT ![writer.iter] = @ \cup {"metadata"}]
  /\ landed' = landed \cup {writer.iter}
  /\ pointer' = writer.iter
  /\ writer' = [writer EXCEPT !.phase = "landed"]
  /\ UNCHANGED <<mainVars, deleteQ, deferred, worker, intact, wallClock, run, failures>>

(* The finished write is picked up by the per-step poll, or by the wait at   *)
(* the start of the next save and in finalize.                               *)
DispatchSuccess ==
  /\ pc # "down"
  /\ success.phase = "none"
  /\ writer.phase = "landed"
  /\ writer' = NoSave
  /\ triggered' = triggered \ {writer.iter}
  /\ success' = IF writer.iter \in triggered
                THEN [phase |-> "mark", iter |-> writer.iter] ELSE NoSuccess
  /\ UNCHANGED <<pc, iteration, lastCheckpoint, tracked, deleteQ, deferred, worker, storeVars,
                 run, failures>>

MarkSaved ==
  /\ success.phase = "mark"
  /\ \/ /\ files' = [files EXCEPT ![success.iter] = @ \cup {"saved"}]
        /\ tracked' = Append(tracked, success.iter)
        /\ success' = [success EXCEPT !.phase = "prune"]
        /\ UNCHANGED failures
     \/ /\ Fails
        /\ success' = NoSuccess
        /\ UNCHANGED <<files, tracked>>
  /\ UNCHANGED <<pc, iteration, lastCheckpoint, triggered, writer, deleteQ, deferred, worker,
                 intact, pointer, landed, wallClock, run>>

-----------------------------------------------------------------------------
(* Pruning.                                                                *)

(* The sequence s in ascending order, every element as often as in s. *)
SortingOrders(s) ==
  {p \in [DOMAIN s -> DOMAIN s] : /\ \A m, n \in DOMAIN s : m < n => s[p[m]] <= s[p[n]]
                                 /\ IsInjective(p)}
Sorted(s) == LET p == CHOOSE p \in SortingOrders(s) : TRUE IN [n \in DOMAIN s |-> s[p[n]]]

(* Mutant of Readmitted: deferred deletions are appended, not inserted. *)
ReadmittedLast(s) == s \o deferred

(* _readmit_deferred: bisect.insort of every deletion that was declined. *)
Readmitted(s) == Sorted(s \o deferred)

(* _prune, for the history s: what exceeds the window leaves at its old end *)
(* and is queued together with the newest checkpoint.                       *)
Prune(s) ==
  IF KeepLast <= 0 THEN tracked' = s /\ UNCHANGED <<deleteQ, deferred>>
  ELSE LET all == Readmitted(s)
           excess == IF Len(all) > KeepLast THEN Len(all) - KeepLast ELSE 0
       IN /\ tracked' = SubSeq(all, excess + 1, Len(all))
          /\ deleteQ' = deleteQ \o [k \in 1..excess |-> [iter |-> all[k], by |-> Last(all)]]
          /\ deferred' = <<>>

PruneAfterSave ==
  /\ success.phase = "prune"
  /\ Prune(tracked)
  /\ success' = NoSuccess
  /\ UNCHANGED <<pc, iteration, lastCheckpoint, triggered, writer, worker, storeVars, run, failures>>

-----------------------------------------------------------------------------
(* The deletion thread: _delete_worker and _delete_checkpoint.             *)

AllButWorker == <<mainVars, writer, deleteQ, intact, pointer, landed, wallClock, run>>

Go(phase) == worker' = [worker EXCEPT !.phase = phase]

Take ==
  /\ worker.phase = "idle"
  /\ deleteQ # <<>>
  /\ worker' = [phase |-> "check", iter |-> Head(deleteQ).iter, by |-> Head(deleteQ).by, todo |-> {}]
  /\ deleteQ' = Tail(deleteQ)
  /\ UNCHANGED <<mainVars, writer, deferred, storeVars, run, failures>>

(* An exception ends the deletion; the thread goes on with the next one.   *)
GiveUp ==
  /\ worker.phase \in {"check", "markers", "mark", "list"}
  /\ Fails
  /\ worker' = Idle
  /\ UNCHANGED <<AllButWorker, deferred, files>>

(* Mutant of Protected: milestones are not recognised. *)
ProtectedNoMilestone(i) == pointer = i

(* A save_iter milestone, or the checkpoint to resume from. *)
Protected(i) == IsMilestone(i) \/ pointer = i

(* _safe_to_delete, first half. *)
CheckProtected ==
  /\ worker.phase = "check"
  /\ worker' = IF Protected(worker.iter) THEN Idle ELSE [worker EXCEPT !.phase = "markers"]
  /\ UNCHANGED <<AllButWorker, deferred, files, failures>>

(* Second half: either marker proves that the checkpoint is ours. *)
CheckMarkers ==
  /\ worker.phase = "markers"
  /\ worker' = IF files[worker.iter] \cap {"saved", "deleting"} # {}
               THEN [worker EXCEPT !.phase = "verify"] ELSE Idle
  /\ UNCHANGED <<AllButWorker, deferred, files, failures>>

(* Mutant of VerifyComplete: shard sizes are not compared with the metadata. *)
VerifyMetadataOnly(i) == "metadata" \in files[i]

(* _verify_complete *)
VerifyComplete(i) == Payload \subseteq files[i] /\ i \in intact

Displaced == worker.by \in Iter => VerifyComplete(worker.by)

Verify ==
  /\ worker.phase = "verify"
  /\ Displaced
  /\ Go("mark")
  /\ UNCHANGED <<AllButWorker, deferred, files, failures>>

(* Declined: the successor looks incomplete, or a probe was not answered.  *)
Defer ==
  /\ worker.phase = "verify"
  /\ \/ ~Displaced /\ UNCHANGED failures
     \/ worker.by # None /\ Fails
  /\ deferred' = Append(deferred, worker.iter)
  /\ worker' = Idle
  /\ UNCHANGED <<AllButWorker, files>>

(* Mutant of MarkDeleting: the deletion is not announced by its marker. *)
MarkDeletingSkipped ==
  /\ worker.phase = "mark"
  /\ Go("list")
  /\ UNCHANGED <<AllButWorker, deferred, files, failures>>

MarkDeleting ==
  /\ worker.phase = "mark"
  /\ files' = [files EXCEPT ![worker.iter] = @ \cup {"deleting"}]
  /\ Go("list")
  /\ UNCHANGED <<AllButWorker, deferred, failures>>

(* A filesystem listing leaves .metadata out. *)
List ==
  /\ worker.phase = "list"
  /\ worker' = [worker EXCEPT !.phase = "objects",
                  !.todo = files[worker.iter] \ ({"deleting"} \cup IF Filesystem THEN {"metadata"} ELSE {})]
  /\ UNCHANGED <<AllButWorker, deferred, files, failures>>

Erase(f) == files' = [files EXCEPT ![worker.iter] = @ \ {f}]

(* _delete_object: a failure is only logged. *)
DeleteObject(f) ==
  /\ worker.phase = "objects"
  /\ f \in worker.todo
  /\ worker' = [worker EXCEPT !.todo = @ \ {f}]
  /\ \/ Erase(f) /\ UNCHANGED failures
     \/ Fails /\ UNCHANGED files
  /\ UNCHANGED <<AllButWorker, deferred>>

ObjectsDone ==
  /\ worker.phase = "objects"
  /\ worker.todo = {}
  /\ Go("sweep")
  /\ UNCHANGED <<AllButWorker, deferred, files, failures>>

(* _sweep_subdirectories: rmtree of the component directories, which stops  *)
(* at the first object it cannot remove.                                    *)
SweepObject(f) ==
  /\ worker.phase = "sweep"
  /\ f \in files[worker.iter] \cap Payload
  /\ \/ Erase(f) /\ UNCHANGED <<worker, failures>>
     \/ Fails /\ Go("unmark") /\ UNCHANGED files
  /\ UNCHANGED <<AllButWorker, deferred>>

SweepDone ==
  /\ worker.phase = "sweep"
  /\ files[worker.iter] \cap Payload = {}
  /\ Go("unmark")
  /\ UNCHANGED <<AllButWorker, deferred, files, failures>>

Unmark ==
  /\ worker.phase = "unmark"
  /\ \/ Erase("deleting") /\ UNCHANGED failures
     \/ Fails /\ UNCHANGED files
  /\ Go("husk")
  /\ UNCHANGED <<AllButWorker, deferred>>

(* rmtree of what is left of the directory. *)
RemoveHusk ==
  /\ worker.phase = "husk"
  /\ \/ files' = [files EXCEPT ![worker.iter] = {}] /\ UNCHANGED failures
     \/ Fails /\ UNCHANGED files
  /\ worker' = Idle
  /\ UNCHANGED <<AllButWorker, deferred>>

-----------------------------------------------------------------------------
(* The job is killed, or ends, and is started again.                       *)

Stop ==
  /\ pc' = "down"
  /\ triggered' = {}
  /\ success' = NoSuccess
  /\ tracked' = <<>>
  /\ writer' = NoSave
  /\ deleteQ' = <<>>
  /\ deferred' = <<>>
  /\ worker' = Idle
  /\ UNCHANGED <<iteration, lastCheckpoint, storeVars, run, failures>>

Kill == pc # "down" /\ Stop

(* The daemon thread is abandoned at interpreter exit. *)
Exit ==
  /\ pc = "finalize"
  /\ success.phase = "none"
  /\ writer.phase = "none"
  /\ Stop

(* Mutant of Interrupted: interrupted deletions are not found. *)
InterruptedIgnored(S) == {}

Interrupted(S) == {i \in S : "deleting" \in files[i]}

(* Mutant of Recovered: the history starts empty. *)
RecoveredNone(S) == {}

Recovered(S) == {i \in S : "saved" \in files[i] /\ "deleting" \notin files[i]}

Ascending(S) == Sorted(SetToSeq(S))

Loadable(i) == Payload \subseteq files[i] /\ i \in intact

Resumable == pointer \in Iter => Loadable(pointer)

(* The job resumes from the pointer; on_train_start takes up the history    *)
(* from the markers of the directories it can read and prunes it; if the     *)
(* listing fails it can read none.  The new start may use another save_iter. *)
Restart ==
  /\ pc = "down"
  /\ run < MaxRuns
  /\ Resumable
  /\ run' = run + 1
  /\ iteration' = pointer
  /\ lastCheckpoint' = pointer
  /\ pc' = "train"
  /\ \E readable \in {Iter, {}} \cup {Iter \ {i} : i \in Iter} :
       /\ IF readable = Iter THEN UNCHANGED failures ELSE Fails
       /\ LET all == Ascending(Recovered(readable))
              old == Ascending(Interrupted(readable))
              excess == IF KeepLast > 0 /\ Len(all) > KeepLast THEN Len(all) - KeepLast ELSE 0
          IN /\ tracked' = SubSeq(all, excess + 1, Len(all))
             /\ deleteQ' = [k \in 1..Len(old) |-> [iter |-> old[k], by |-> None]]
                           \o [k \in 1..excess |-> [iter |-> all[k], by |-> Last(all)]]
  /\ UNCHANGED <<triggered, success, writer, deferred, worker, storeVars>>

Finished ==
  /\ pc = "down"
  /\ run = MaxRuns \/ ~Resumable
  /\ UNCHANGED vars

-----------------------------------------------------------------------------
Trainer == TrainStep \/ TriggerSave \/ EndTraining \/ StartSave
Writer == WriteShards \/ WriteMetadata
Callback == DispatchSuccess \/ MarkSaved \/ PruneAfterSave
Deleter ==
  \/ Take \/ GiveUp \/ CheckProtected \/ CheckMarkers \/ Verify \/ Defer
  \/ MarkDeleting \/ List \/ ObjectsDone \/ SweepDone \/ Unmark \/ RemoveHusk
  \/ \E f \in File : DeleteObject(f) \/ SweepObject(f)
Lifecycle == Kill \/ Exit \/ Restart \/ Finished

Next == Trainer \/ Writer \/ Callback \/ Deleter \/ Lifecycle

Spec == Init /\ [][Next]_vars

(* The deletion thread keeps running while the process is there. *)
FairSpec == Spec /\ WF_vars(Deleter)

-----------------------------------------------------------------------------
(* Properties.                                                             *)

(* A checkpoint that a restart could load. *)
Good(i) == i \in landed /\ Loadable(i)

(* Deletion never takes the newest good checkpoint: when one stops being     *)
(* complete other than by being saved again, a newer good one is there, even *)
(* if the store cuts writes short behind the writer's back.                  *)
NewestGoodKept ==
  [][\A i \in Iter : (Good(i) /\ ~Good(i)' /\ writer'.iter # i) => \E j \in Iter : j > i /\ Good(j)']_vars

(* No object of a save_iter milestone is ever removed, even if the iteration *)
(* was a wall-clock save under the save_iter of an earlier start.            *)
MilestonesKept ==
  [][\A i \in Iter : IsMilestone(i) => files[i] \cap Payload \subseteq files'[i]]_vars

(* The history holds the newest wall-clock checkpoints in ascending order,   *)
(* which is what popping from its front and checking against its back rely   *)
(* on: what was popped from it, and what a declined deletion is about to put *)
(* back into it, is older than all of it, in spite of deferrals, restarts and *)
(* saves confirmed in between.                                               *)
Popped == {deleteQ[k].iter : k \in {n \in DOMAIN deleteQ : deleteQ[n].by # None}}
          \cup {deferred[k] : k \in DOMAIN deferred}
HistoryIsNewest ==
  /\ \A m, n \in DOMAIN tracked : m < n => tracked[m] < tracked[n]
  /\ success.phase # "prune" => \A i \in Popped, m \in DOMAIN tracked : i < tracked[m]

(* As long as no storage operation has failed, the window is kept across     *)
(* restarts and kills: when nothing is queued, deferred or under way, the    *)
(* marked checkpoints that are no milestones are at most KeepLast.  What a    *)
(* kill between the landing of a wall-clock save and its mark leaves is       *)
(* recognised by no later start and stays for good; there is at most one of   *)
(* these for each earlier start, so a deletion, which also removes the mark,  *)
(* adds none, wherever it is interrupted.                                     *)
Quiet == /\ pc # "down" /\ success.phase = "none" /\ writer.phase = "none"
         /\ deleteQ = <<>> /\ worker = Idle /\ deferred = <<>>
Marked(i) == files[i] \cap {"saved", "deleting"} # {}
Orphans == {i \in wallClock : files[i] \cap Payload # {} /\ ~Marked(i)}
WindowKept ==
  Quiet /\ failures = 0 =>
    /\ Cardinality({i \in Iter : Marked(i) /\ ~IsMilestone(i)}) <= KeepLast
    /\ Cardinality(Orphans) <= run - 1

(* A deletion that a kill interrupted is finished by the next start, if its  *)
(* process lives long enough and storage works.                              *)
InterruptedFinished ==
  \A i \in Iter :
    (pc # "down" /\ "deleting" \in files[i] /\ ~IsMilestone(i))
      ~> ("deleting" \notin files[i] \/ pc = "down" \/ failures > 0)
=============================================================================
