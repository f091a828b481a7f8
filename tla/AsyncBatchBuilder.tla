------------------------- MODULE AsyncBatchBuilder -------------------------
(***************************************************************************)
(* The asynchronous batch building of IterativeJointDataLoader             *)
(* (data/generator/joint_dataloader.py): a daemon thread advances the      *)
(* packing iterator one batch ahead of the trainer, which asks for a batch *)
(* by sequence number and takes it from a result queue.                    *)
(*                                                                         *)
(* Three threads run: the trainer's, inside the generator returned by      *)
(* iter(dataloader); the daemon; and an owner that may close the loader    *)
(* at any moment.  A step is what one thread does between two accesses to  *)
(* the state it shares with the others.  The packing iterator itself is    *)
(* abstract: it yields the batches 1, 2, ..., Batches and then ends, and   *)
(* may fail or hang in between.                                            *)
(***************************************************************************)
EXTENDS Integers, Sequences

CONSTANTS
    Batches,      \* batches the packing iterator yields before it ends
    Starts,       \* iterations a run may start from
    MaxEntries,   \* bound: how often the client calls iter(dataloader)
    None,         \* Python's None, as an absent sequence number
    Close         \* Python's None, as the message that ends a queue

ASSUME BuilderAssumption ==
    /\ Batches \in Nat
    /\ MaxEntries \in Nat
    /\ Starts \subseteq Nat
    /\ None \notin Nat
    /\ Close \notin Nat

VARIABLES
    eager,        \* child iterators are created by the constructor
    started,      \* _async_batch_builder is not None
    globalId,     \* global_id, the number of the batch being packed
    packed,       \* batches the packing iterator has yielded
    requests,     \* _requests
    results,      \* _results
    outstanding,  \* _outstanding_sequence_id
    closed,       \* _closed
    streamEnded,  \* _stream_ended
    daemon,       \* the daemon thread: [pc, seq, result]
    trainer,      \* the trainer thread: [pc, seq, result]
    closer,       \* the pc of the thread that closes the loader
    entries,      \* calls of iter(dataloader)
    first,        \* history: the iteration the run started from
    delivered,    \* history: the batches yielded to the trainer
    timedOut      \* history: get_batch has raised TimeoutError

daemonVars == <<globalId, packed, daemon>>
queueVars == <<requests, results>>
flagVars == <<outstanding, closed, streamEnded>>
historyVars == <<first, delivered, timedOut>>
vars == <<eager, started, daemonVars, queueVars, flagVars, trainer, closer, entries, historyVars>>

Outcome == {"batch", "error", "end"}

Result == [seq : Nat, outcome : Outcome, item : Nat]

ASSUME CloseAssumption == Close \notin Result

NoResult == [seq |-> 0, outcome |-> "error", item |-> 0]

ClosePc == {"closeTest", "closeSet", "closeRequests", "closeResults"}

TrainerPc == {"new", "loop", "enter", "wait", "examine", "request", "submit", "train"} \cup ClosePc

DaemonPc == {"off", "take", "build", "publish", "put", "exited"}

Init ==
    /\ eager \in BOOLEAN
    /\ started = FALSE
    /\ globalId = 0 /\ packed = 0
    /\ requests = <<>> /\ results = <<>>
    /\ outstanding = None /\ closed = FALSE /\ streamEnded = FALSE
    /\ daemon = [pc |-> "off", seq |-> 0, result |-> NoResult]
    /\ trainer = [pc |-> "new", seq |-> 0, result |-> NoResult]
    /\ closer = "off"
    /\ entries = 0
    /\ first = 0 /\ delivered = <<>> /\ timedOut = FALSE

----------------------------------------------------------------------------
(* The loader.                                                             *)

\* A mutant: the first two batches are requested at once.
StartBuilderTwoDeep(id) ==
    /\ started' = TRUE
    /\ daemon' = [daemon EXCEPT !.pc = "take"]
    /\ outstanding' = id
    /\ requests' = Append(Append(requests, id), id + 1)

\* _start_async_batch_builder: create the daemon and request the first batch.
StartBuilder(id) ==
    /\ started' = TRUE
    /\ daemon' = [daemon EXCEPT !.pc = "take"]
    /\ outstanding' = id
    /\ requests' = Append(requests, id)

\* set_start_iteration, called once by the trainer before it iterates: the
\* first batch is requested at once when the child iterators already exist.
SetStartIteration(n) ==
    /\ trainer.pc = "new"
    /\ globalId' = n
    /\ first' = n
    /\ IF eager
         THEN StartBuilder(n)
         ELSE UNCHANGED <<started, daemon, outstanding, requests>>
    /\ trainer' = [trainer EXCEPT !.pc = "loop"]
    /\ UNCHANGED <<eager, packed, results, closed, streamEnded, closer, entries, delivered, timedOut>>

\* A mutant: iterating starts a builder although set_start_iteration has.
IterateRestarts ==
    /\ trainer.pc = "loop"
    /\ entries < MaxEntries
    /\ entries' = entries + 1
    /\ IF entries > 0
         THEN UNCHANGED <<started, daemon, outstanding, requests>>
         ELSE StartBuilder(globalId)
    /\ trainer' = [trainer EXCEPT !.pc = "enter"]
    /\ UNCHANGED <<eager, globalId, packed, results, closed, streamEnded, closer, historyVars>>

\* iter(dataloader): a client may come back after an exception.
Iterate ==
    /\ trainer.pc = "loop"
    /\ entries < MaxEntries
    /\ entries' = entries + 1
    /\ IF started
         THEN UNCHANGED <<started, daemon, outstanding, requests>>
         ELSE StartBuilder(globalId)
    /\ trainer' = [trainer EXCEPT !.pc = "enter"]
    /\ UNCHANGED <<eager, globalId, packed, results, closed, streamEnded, closer, historyVars>>

Raise == trainer' = [trainer EXCEPT !.pc = "loop"]

\* get_batch up to the wait: a call with nothing outstanding, or on a closed
\* builder, raises.
EnterGetBatch ==
    /\ trainer.pc = "enter"
    /\ IF outstanding = None \/ closed
         THEN Raise
         ELSE trainer' = [trainer EXCEPT !.pc = "wait", !.seq = outstanding]
    /\ UNCHANGED <<eager, started, daemonVars, queueVars, flagVars, closer, entries, historyVars>>

\* _results.get returns the oldest result.
ReceiveResult ==
    /\ trainer.pc = "wait"
    /\ results # <<>>
    /\ trainer' = [trainer EXCEPT !.pc = "examine", !.result = Head(results)]
    /\ results' = Tail(results)
    /\ UNCHANGED <<eager, started, daemonVars, requests, flagVars, closer, entries, historyVars>>

\* A mutant: a timeout leaves the builder open.
TimeoutStaysOpen ==
    /\ trainer.pc = "wait"
    /\ results = <<>>
    /\ Raise
    /\ timedOut' = TRUE
    /\ UNCHANGED <<eager, started, daemonVars, queueVars, flagVars, closer, entries, first, delivered>>

\* _results.get raises Empty: the builder is closed before TimeoutError is
\* raised, because the daemon may still be running the request.
Timeout ==
    /\ trainer.pc = "wait"
    /\ results = <<>>
    /\ trainer' = [trainer EXCEPT !.pc = "closeTest"]
    /\ timedOut' = TRUE
    /\ UNCHANGED <<eager, started, daemonVars, queueVars, flagVars, closer, entries, first, delivered>>

\* A result is refused once the builder is closed, or when it answers another
\* request.
Refused == \/ closed
           \/ trainer.result = Close
           \/ trainer.result.seq # trainer.seq

\* The rest of get_batch.
ExamineResult ==
    /\ trainer.pc = "examine"
    /\ IF Refused
         THEN /\ Raise
              /\ UNCHANGED <<outstanding, streamEnded>>
         ELSE /\ outstanding' = None
              /\ streamEnded' = (streamEnded \/ trainer.result.outcome = "end")
              /\ IF trainer.result.outcome = "batch"
                   THEN trainer' = [trainer EXCEPT !.pc = "request"]
                   ELSE Raise
    /\ UNCHANGED <<eager, started, daemonVars, queueVars, closed, closer, entries, historyVars>>

\* request_batch for the replacement, up to the queue.
RequestNext ==
    /\ trainer.pc = "request"
    /\ IF closed \/ outstanding # None
         THEN Raise /\ UNCHANGED outstanding
         ELSE /\ outstanding' = globalId
              /\ trainer' = [trainer EXCEPT !.pc = "submit"]
    /\ UNCHANGED <<eager, started, daemonVars, queueVars, closed, streamEnded, closer, entries, historyVars>>

\* The request is queued and the batch is yielded.
SubmitAndYield ==
    /\ trainer.pc = "submit"
    /\ requests' = Append(requests, outstanding)
    /\ delivered' = Append(delivered, [seq |-> trainer.result.seq, item |-> trainer.result.item])
    /\ trainer' = [trainer EXCEPT !.pc = "train"]
    /\ UNCHANGED <<eager, started, daemonVars, results, flagVars, closer, entries, first, timedOut>>

\* The trainer is done with the batch and asks the generator for the next.
NextBatch ==
    /\ trainer.pc = "train"
    /\ trainer' = [trainer EXCEPT !.pc = "enter"]
    /\ UNCHANGED <<eager, started, daemonVars, queueVars, flagVars, closer, entries, historyVars>>

----------------------------------------------------------------------------
(* The daemon, _run.                                                       *)

TakeRequest ==
    /\ daemon.pc = "take"
    /\ requests # <<>>
    /\ requests' = Tail(requests)
    /\ daemon' = IF Head(requests) = Close \/ closed
                   THEN [daemon EXCEPT !.pc = "exited"]
                   ELSE [daemon EXCEPT !.pc = "build", !.seq = Head(requests)]
    /\ UNCHANGED <<eager, started, globalId, packed, results, flagVars, trainer, closer, entries, historyVars>>

Built(outcome, item) ==
    daemon' = [daemon EXCEPT !.pc = "publish",
                             !.result = [seq |-> daemon.seq, outcome |-> outcome, item |-> item]]

\* A mutant: global_id is advanced when the generator resumes after its
\* yield, so the request made meanwhile carries the old number.
BuildBatchLateCount ==
    /\ daemon.pc = "build"
    /\ globalId' = IF packed = 0 THEN globalId ELSE globalId + 1
    /\ \/ /\ packed < Batches
          /\ packed' = packed + 1
          /\ Built("batch", packed + 1)
       \/ /\ packed = Batches
          /\ Built("end", 0)
          /\ UNCHANGED packed
       \/ /\ Built("error", 0)
          /\ UNCHANGED packed
    /\ UNCHANGED <<eager, started, queueVars, flagVars, trainer, closer, entries, historyVars>>

\* next(self._batch_iterator): the packing loop advances global_id just before
\* it yields; it may also raise, end, or (no fairness) never return.
BuildBatch ==
    /\ daemon.pc = "build"
    /\ \/ /\ packed < Batches
          /\ packed' = packed + 1
          /\ globalId' = globalId + 1
          /\ Built("batch", packed + 1)
       \/ /\ packed = Batches
          /\ Built("end", 0)
          /\ UNCHANGED <<packed, globalId>>
       \/ /\ Built("error", 0)
          /\ UNCHANGED <<packed, globalId>>
    /\ UNCHANGED <<eager, started, queueVars, flagVars, trainer, closer, entries, historyVars>>

CheckClosed ==
    /\ daemon.pc = "publish"
    /\ daemon' = [daemon EXCEPT !.pc = IF closed THEN "exited" ELSE "put"]
    /\ UNCHANGED <<eager, started, globalId, packed, queueVars, flagVars, trainer, closer, entries, historyVars>>

PutResult ==
    /\ daemon.pc = "put"
    /\ results' = Append(results, daemon.result)
    /\ daemon' = [daemon EXCEPT !.pc = IF daemon.result.outcome = "batch" THEN "take" ELSE "exited"]
    /\ UNCHANGED <<eager, started, globalId, packed, requests, flagVars, trainer, closer, entries, historyVars>>

----------------------------------------------------------------------------
(* close(), by a thread at pc; `after` is where it goes on.  Its last act, *)
(* the bounded join, changes nothing.                                      *)

AfterClose(pc, after) ==
    CASE pc = "closeTest" -> IF closed THEN after ELSE "closeSet"
      [] pc = "closeSet" -> "closeRequests"
      [] pc = "closeRequests" -> "closeResults"
      [] pc = "closeResults" -> after

\* A mutant: close does not wake the daemon out of its request queue.
CloseStepResultsOnly(pc) ==
    /\ pc \in ClosePc
    /\ closed' = (closed \/ pc = "closeSet")
    /\ requests' = requests
    /\ results' = IF pc = "closeResults" THEN Append(results, Close) ELSE results

CloseStep(pc) ==
    /\ pc \in ClosePc
    /\ closed' = (closed \/ pc = "closeSet")
    /\ requests' = IF pc = "closeRequests" THEN Append(requests, Close) ELSE requests
    /\ results' = IF pc = "closeResults" THEN Append(results, Close) ELSE results

\* The trainer closes the builder before it raises TimeoutError.
CloseOnTimeout ==
    /\ CloseStep(trainer.pc)
    /\ trainer' = [trainer EXCEPT !.pc = AfterClose(trainer.pc, "loop")]
    /\ UNCHANGED <<eager, started, daemonVars, outstanding, streamEnded, closer, entries, historyVars>>

\* JointDataLoader.close, by whoever owns the loader.
CloseLoader ==
    /\ closer = "off"
    /\ started
    /\ closer' = "closeTest"
    /\ UNCHANGED <<eager, started, daemonVars, queueVars, flagVars, trainer, entries, historyVars>>

CloseByOwner ==
    /\ CloseStep(closer)
    /\ closer' = AfterClose(closer, "done")
    /\ UNCHANGED <<eager, started, daemonVars, outstanding, streamEnded, trainer, entries, historyVars>>

----------------------------------------------------------------------------
TrainerStep ==
    \/ Iterate \/ EnterGetBatch \/ ReceiveResult \/ Timeout
    \/ ExamineResult \/ RequestNext \/ SubmitAndYield \/ NextBatch \/ CloseOnTimeout

DaemonStep == TakeRequest \/ CheckClosed \/ PutResult

Next ==
    \/ \E n \in Starts : SetStartIteration(n)
    \/ TrainerStep
    \/ DaemonStep
    \/ BuildBatch
    \/ CloseLoader
    \/ CloseByOwner

Spec == Init /\ [][Next]_vars

\* Threads that can run do; the packing iterator may hang for ever, and
\* nobody has to close the loader.
FairSpec ==
    /\ Spec
    /\ WF_vars(TrainerStep)
    /\ WF_vars(DaemonStep)
    /\ WF_vars(CloseByOwner)

----------------------------------------------------------------------------
(***************************************************************************)
(* The trainer sees the batches of the packing iterator in order, each     *)
(* once and none skipped, each under the sequence number it was requested  *)
(* with -- which is also the global_id it was packed with, the seed of its *)
(* choice of dataset.                                                      *)
(***************************************************************************)
DeliveredInOrder ==
    \A k \in 1..Len(delivered) : delivered[k] = [seq |-> first + k - 1, item |-> k]

(***************************************************************************)
(* The packing state has one user at a time without a lock: the trainer    *)
(* reads global_id for its next request only while the daemon is not       *)
(* inside the packing loop, which writes it.                               *)
(***************************************************************************)
PackingExclusive ==
    trainer.pc = "request" /\ ~closed => daemon.pc # "build"

(***************************************************************************)
(* A timeout is terminal: the batch whose wait timed out may arrive later, *)
(* but neither it nor any later one is ever handed out, even to a client   *)
(* that iterates again.                                                    *)
(***************************************************************************)
TimeoutTerminal == [][timedOut => delivered' = delivered]_vars

(***************************************************************************)
(* A result is never matched with another request: the sequence number     *)
(* check of get_batch cannot fail on an open builder.                      *)
(***************************************************************************)
AnswersItsRequest ==
    trainer.pc = "examine" /\ ~closed => trainer.result # Close /\ trainer.result.seq = trainer.seq

(***************************************************************************)
(* A closed builder's daemon ends, unless the packing iterator holds it.   *)
(***************************************************************************)
ClosedDaemonExits == closed ~> daemon.pc \in {"exited", "build"}
=============================================================================
