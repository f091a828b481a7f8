--------------------------- MODULE DataflowResume ---------------------------
(***************************************************************************)
(* How a resumed job finds its place in the data: MapDistributor, the      *)
(* batchers and the loaders of data/generator/dataflow, the positions      *)
(* CosmosDataLoaderStateCallback keeps, and the trainer's fetching.        *)
(*                                                                         *)
(* One data-parallel rank.  JointCosmosDataLoader draws each batch from    *)
(* one of several loaders; the workers of a loader read disjoint streams,  *)
(* form batches ahead of the trainer and take turns in delivering them.    *)
(* An item is its number in its stream, counted over all epochs: shuffling *)
(* is a function of seed and epoch, so that the number determines the      *)
(* sample.  What fits into a batch depends on the samples' sizes and is    *)
(* left open within the limits of the batcher.                             *)
(***************************************************************************)
EXTENDS Integers, Sequences, FiniteSets

CONSTANTS
    Loaders,        \* names of the joint loader's datasets
    NumWorkers,     \* num_workers of each loader
    DatasetSize,    \* DatasetSize[l]: len(dataset) on this rank
    Batcher,        \* Batcher[l]: "simple", "pool" or "sequential"
    MaxBatch,       \* MaxBatch[l]: batch_size, max_batch_size, or what the budget admits
    PoolSize,       \* pool_size of the pool batchers
    Lookahead,      \* lookahead_limit of the sequential batchers
    Oversized,      \* Oversized[s]: items of stream s that alone exceed the budget
    Prefetch,       \* prefetch_factor: batches a worker forms ahead
    Selection,      \* Selection[k]: the loader drawn with RandomState(seed + k)
    GradAccum,      \* trainer.grad_accum_iter
    MaxIter,        \* trainer.max_iter
    MaxRuns         \* bound: starts of the job

Workers == 0..NumWorkers - 1
Streams == Loaders \X Workers

ASSUME DataflowAssumption ==
    /\ Loaders # {} /\ NumWorkers \in Nat \ {0}
    /\ \A l \in Loaders : /\ DatasetSize[l] \in Nat /\ DatasetSize[l] >= NumWorkers
                          /\ Batcher[l] \in {"simple", "pool", "sequential"}
                          /\ MaxBatch[l] \in Nat \ {0}
    /\ \A s \in Streams : Oversized[s] \subseteq Nat
    /\ Selection \in [0..MaxIter * GradAccum - 1 -> Loaders]
    /\ PoolSize \in Nat \ {0} /\ Lookahead \in Nat /\ Prefetch \in Nat \ {0}
    /\ GradAccum \in Nat \ {0} /\ MaxIter \in Nat /\ MaxRuns \in Nat

VARIABLES
    read,       \* read[s]: the stream's next item
    held,       \* held[s]: items read and not yet in a batch: the pool, the carry
    queue,      \* queue[s]: batches formed and not yet delivered
    turn,       \* turn[l]: the worker to deliver next
    globalId,   \* JointCosmosDataLoader._global_id
    batch,      \* data_batch of the trainer: [stream, items]; no items between two steps
    position,   \* position[s]: the callback's (epoch, index) of the worker
    steps,      \* training steps taken, GradAccum of them an iteration
    up,         \* the job is running
    saved,      \* the checkpoint to resume from
    runs,
    trained,    \* history: trained[s], items this line of runs was trained on
    picks       \* history: the loaders the batches came from, in order

workerVars == <<read, held, queue>>
history == <<trained, picks>>
vars == <<workerVars, turn, globalId, batch, position, steps, up, saved, runs, history>>

-----------------------------------------------------------------------------
(* Streams.  A worker's slice of an epoch is perm[worker::NumWorkers]. *)
SliceLength(s) == (DatasetSize[s[1]] - s[2] + NumWorkers - 1) \div NumWorkers
Epoch(s, i) == i \div SliceLength(s)
Index(s, i) == i % SliceLength(s)

(* A worker the callback has no position for starts from the defaults of the environment. *)
NoPosition == <<0, -1>>

(* Mutant: resume at the recorded item, not after it. *)
StartAtRecorded(s, p) == SliceLength(s) * p[1] + p[2]

(* The item a stream starts with when resumed from p. *)
Start(s, p) == SliceLength(s) * p[1] + p[2] + 1

(* Mutant: only batches that span epochs are refused. *)
ContiguousOneEpoch(s, items) == \A i, j \in items : Epoch(s, i) = Epoch(s, j)

(* Batches that resume can be recorded for; others are refused. *)
Contiguous(s, items) ==
    /\ \A i, j \in items : Epoch(s, i) = Epoch(s, j)
    /\ LET indices == {Index(s, i) : i \in items}
       IN  \E low, high \in indices : indices = low..high

Greatest(S) == CHOOSE x \in S : \A y \in S : y <= x
First(S) == CHOOSE x \in S : \A y \in S : x <= y

(* Mutant: a batch is stamped with its first sample. *)
StampFirst(s, items) ==
    <<First({Epoch(s, i) : i \in items}), First({Index(s, i) : i \in items})>>

(* sample_epoch and sample_index of a batch. *)
Stamp(s, items) ==
    <<Greatest({Epoch(s, i) : i \in items}), Greatest({Index(s, i) : i \in items})>>

Later(p, q) == p[1] > q[1] \/ (p[1] = q[1] /\ p[2] > q[2])
-----------------------------------------------------------------------------
NoCheckpoint ==
    [iteration |-> 0, position |-> [s \in Streams |-> NoPosition],
     trained |-> [s \in Streams |-> {}], picks |-> <<>>]

Init ==
    /\ read = [s \in Streams |-> 0]
    /\ held = [s \in Streams |-> {}]
    /\ queue = [s \in Streams |-> <<>>]
    /\ turn = [l \in Loaders |-> 0]
    /\ globalId = 0 /\ steps = 0 /\ up = TRUE /\ runs = 1
    /\ batch = [stream |-> CHOOSE s \in Streams : TRUE, items |-> {}]
    /\ position = [s \in Streams |-> NoPosition]
    /\ saved = NoCheckpoint
    /\ trained = [s \in Streams |-> {}] /\ picks = <<>>

(* A worker has room, and its iterator has not ended with a refused batch. *)
MayForm(s) ==
    /\ up
    /\ Len(queue[s]) < Prefetch
    /\ \A k \in DOMAIN queue[s] : Contiguous(s, queue[s][k])

Deliver(s, items, kept, next) ==
    /\ queue' = [queue EXCEPT ![s] = Append(@, items)]
    /\ held' = [held EXCEPT ![s] = kept]
    /\ read' = [read EXCEPT ![s] = next]
    /\ UNCHANGED <<turn, globalId, batch, position, steps, up, saved, runs, history>>

(* SimpleBatcher; also SequentialPackingBatcher with max_samples_per_batch. *)
FormSimple(s) ==
    /\ Batcher[s[1]] = "simple" /\ MayForm(s)
    /\ LET next == read[s] + MaxBatch[s[1]]
       IN  Deliver(s, read[s]..next - 1, {}, next)

(* PoolPackingBatcher: fill the pool, then the oldest sample and any that go with it. *)
FormPool(s) ==
    /\ Batcher[s[1]] = "pool" /\ MayForm(s)
    /\ \E next \in read[s]..read[s] + PoolSize :
          LET pool == held[s] \union (read[s]..next - 1) IN
          /\ Cardinality(pool) = PoolSize
          /\ \E items \in SUBSET pool :
                /\ First(pool) \in items
                /\ Cardinality(items) <= MaxBatch[s[1]]
                /\ Deliver(s, items, pool \ items, next)

(* SequentialPackingBatcher with a token budget: oversized samples at the head are discarded;  *)
(* then samples are taken in order, and those that do not fit put aside, up to Lookahead many. *)
FormSequential(s) ==
    /\ Batcher[s[1]] = "sequential" /\ MayForm(s)
    /\ \E last \in First(held[s] \union {read[s]})..
                     read[s] + MaxBatch[s[1]] + Lookahead + Cardinality(Oversized[s]) :
          LET offered == {i \in held[s] : i <= last} \union (read[s]..last)
              fitting == offered \ Oversized[s]
          IN  /\ fitting # {}
              /\ \E items \in SUBSET fitting :
                    LET skipped == {i \in offered \ items : i > First(fitting)} IN
                    /\ First(fitting) \in items
                    /\ Cardinality(items) <= MaxBatch[s[1]]
                    /\ Cardinality(skipped) = Lookahead
                    /\ last \in IF Lookahead = 0 THEN items ELSE skipped
                    /\ Lookahead = 0 => items = {First(fitting)}
                    /\ Deliver(s, items, skipped \union {i \in held[s] : i > last},
                               IF last >= read[s] THEN last + 1 ELSE read[s])

(* _fetch_data_batch: the loader drawn for this step delivers its next batch. *)
Drawn == <<Selection[globalId], turn[Selection[globalId]]>>

CanFetch ==
    /\ up /\ batch.items = {}
    /\ steps < MaxIter * GradAccum
    /\ queue[Drawn] # <<>>

Fetch ==
    /\ CanFetch
    /\ Contiguous(Drawn, Head(queue[Drawn]))
    /\ batch' = [stream |-> Drawn, items |-> Head(queue[Drawn])]
    /\ queue' = [queue EXCEPT ![Drawn] = Tail(@)]
    /\ turn' = [turn EXCEPT ![Drawn[1]] = (@ + 1) % NumWorkers]
    /\ globalId' = globalId + 1
    /\ UNCHANGED <<read, held, position, steps, up, saved, runs, history>>

(* The worker's ValueError is raised in the trainer. *)
FetchRefused ==
    /\ CanFetch
    /\ ~Contiguous(Drawn, Head(queue[Drawn]))
    /\ up' = FALSE
    /\ UNCHANGED <<workerVars, turn, globalId, batch, position, steps, saved, runs, history>>

(* training_step, then on_training_step_batch_end of the callback. *)
Recorded(s, items) ==
    LET stamp == Stamp(s, items)
    IN  IF Later(stamp, position[s]) THEN stamp ELSE position[s]

Train ==
    /\ up /\ batch.items # {}
    /\ LET s == batch.stream IN
       /\ position' = [position EXCEPT ![s] = Recorded(s, batch.items)]
       /\ trained' = [trained EXCEPT ![s] = @ \union batch.items]
       /\ picks' = Append(picks, s[1])
    /\ steps' = steps + 1
    /\ batch' = [batch EXCEPT !.items = {}]
    /\ UNCHANGED <<workerVars, turn, globalId, up, saved, runs>>

(* A checkpoint after an iteration, with the callback's state. *)
Save ==
    /\ up /\ batch.items = {}
    /\ steps % GradAccum = 0
    /\ steps # saved.iteration * GradAccum
    /\ saved' = [iteration |-> steps \div GradAccum, position |-> position,
                 trained |-> trained, picks |-> picks]
    /\ UNCHANGED <<workerVars, turn, globalId, batch, position, steps, up, runs, history>>

(* The job dies anywhere, with its workers and what they hold. *)
Kill ==
    /\ up
    /\ up' = FALSE
    /\ UNCHANGED <<workerVars, turn, globalId, batch, position, steps, saved, runs, history>>

(* Mutant: gradient accumulation is forgotten. *)
ResumeFetchCountIterations(iteration) == iteration

(* train() resets the position the callback gave the joint loader by counting iterations. *)
ResumeFetchCount(iteration) == iteration * GradAccum

Restart ==
    /\ ~up /\ runs < MaxRuns
    /\ up' = TRUE /\ runs' = runs + 1
    /\ read' = [s \in Streams |-> Start(s, saved.position[s])]
    /\ held' = [s \in Streams |-> {}]
    /\ queue' = [s \in Streams |-> <<>>]
    /\ turn' = [l \in Loaders |-> 0]
    /\ globalId' = ResumeFetchCount(saved.iteration)
    /\ position' = saved.position
    /\ steps' = saved.iteration * GradAccum
    /\ batch' = [batch EXCEPT !.items = {}]
    /\ trained' = saved.trained /\ picks' = saved.picks
    /\ UNCHANGED saved

Form(s) == FormSimple(s) \/ FormPool(s) \/ FormSequential(s)

Next ==
    \/ \E s \in Streams : Form(s)
    \/ Fetch \/ FetchRefused \/ Train \/ Save \/ Kill \/ Restart

Spec == Init /\ [][Next]_vars
-----------------------------------------------------------------------------
(* Items that a stream's batcher throws away. *)
Discarded(s) == IF Batcher[s[1]] = "sequential" THEN Oversized[s] ELSE {}

(* What the trainer has of a stream: trained on, or about to be. *)
Delivered(s) ==
    trained[s] \union (IF batch.stream = s THEN batch.items ELSE {})

(* "No skipped samples": whatever batcher forms the batches, however far the workers are ahead, *)
(* and wherever runs stop and resume, the trainer never goes past an item of a stream that it   *)
(* has neither trained on nor lost to the budget.                                               *)
NothingSkipped ==
    \A s \in Streams : \A i \in Delivered(s) :
        0..i - 1 \subseteq Delivered(s) \union Discarded(s)

(* "No duplicated samples": a batch the trainer takes holds only items its stream has not been  *)
(* trained on since the checkpoint the run resumed from, nor before it.                         *)
NothingRepeated ==
    batch.items \intersect trained[batch.stream] = {}

(* "Fully reproducible on resume": over all runs the batches come from the loaders that an      *)
(* uninterrupted run would draw, although the position the callback restores is overwritten     *)
(* with one counted from the iteration.                                                         *)
SelectionResumes ==
    /\ Len(picks) = steps
    /\ \A k \in 1..Len(picks) : picks[k] = Selection[k - 1]
    /\ up => globalId = (IF batch.items = {} THEN steps ELSE steps + 1)

(* Batches of one sample, and fixed-size batches that divide every worker's slice of an epoch,  *)
(* are never refused, in particular not because a run resumes between two of them.              *)
Supported(s) ==
    \/ MaxBatch[s[1]] = 1
    \/ Batcher[s[1]] = "simple" /\ SliceLength(s) % MaxBatch[s[1]] = 0

SupportedNeverRefused ==
    \A s \in Streams : Supported(s) =>
        \A k \in DOMAIN queue[s] : Contiguous(s, queue[s][k])
=============================================================================
