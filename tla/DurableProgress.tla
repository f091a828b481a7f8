--------------------------- MODULE DurableProgress --------------------------
(***************************************************************************)
(* What asynchronous checkpointing promises to a training job that may be  *)
(* stopped at any moment: training advances while at most one checkpoint   *)
(* is on its way to storage; a checkpoint becomes the one to resume from   *)
(* after all of it is stored; the name of the one to resume from is        *)
(* unreadable, if ever, only while the next one is on its way, and what    *)
(* follows is that one's publication or a job that stays down; a           *)
(* checkpoint that failed stops training before the next one is taken; and *)
(* a restart gives up exactly the steps taken since the checkpoint         *)
(* published last.                                                         *)
(***************************************************************************)
EXTENDS Integers

CONSTANT Max    \* the last iteration

VARIABLES
  progress,   \* optimizer steps taken
  inflight,   \* iteration of the newest checkpoint that was handed over
  durable,    \* iteration a restart resumes from
  halted      \* training has stopped and waits for a restart

Unreadable == -1    \* there is a pointer, and it names nothing

vars == <<progress, inflight, durable, halted>>

Init == progress = 0 /\ inflight = 0 /\ durable = 0 /\ halted = FALSE

Train ==
  /\ ~halted
  /\ progress < Max
  /\ progress' = progress + 1
  /\ UNCHANGED <<inflight, durable, halted>>

(* The previous checkpoint must have been published by now. *)
Submit ==
  /\ ~halted
  /\ inflight = durable
  /\ durable # Unreadable
  /\ inflight' = progress
  /\ UNCHANGED <<progress, durable, halted>>

(* Storage that does not replace the pointer in one step. *)
Tear ==
  /\ inflight # Unreadable
  /\ durable' = Unreadable
  /\ UNCHANGED <<progress, inflight, halted>>

Publish ==
  /\ durable' = inflight
  /\ UNCHANGED <<progress, inflight, halted>>

(* A failed save or a kill.  The unpublished checkpoint is given up, or its *)
(* writer is still at it and may yet publish it.                            *)
Halt ==
  /\ halted' = TRUE
  /\ inflight' \in {inflight, durable}
  /\ UNCHANGED <<progress, durable>>

Restart ==
  /\ durable # Unreadable
  /\ progress' = durable
  /\ inflight' = durable
  /\ halted' = FALSE
  /\ UNCHANGED durable

Next == Train \/ Submit \/ Tear \/ Publish \/ Halt \/ Restart

Spec == Init /\ [][Next]_vars
=============================================================================
