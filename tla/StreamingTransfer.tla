------------------------- MODULE StreamingTransfer -------------------------
(***************************************************************************)
(* Batched streaming Transfer generation                                   *)
(* (iter_samples_from_batch_autoregressive_streaming_transfer) over the    *)
(* rolling key-value caches, their buffers pooled by the model             *)
(* (KVBufferPool) and the forwards it captures as CUDA graphs.             *)
(*                                                                         *)
(* A generation is a generator: a call of next() runs one frame and the    *)
(* caller may then resume another generation, or drop this one.  Within a  *)
(* frame: the rows that restart, the control's forward, whose keys are     *)
(* stored, the denoising forwards, that only read, and the refresh, that   *)
(* stores the clean frame.  All layers and branches do the same, each in a *)
(* slot of the pool of its own: one is modelled.                           *)
(***************************************************************************)
EXTENDS GenKVCache

CONSTANTS
    Gens,           \* the generations of one model
    BatchSizes,     \* how many rows a generation may have
    MaxRestarts,    \* bound: rows restarted, in a generation
    None

ASSUME GenAssumption ==
    /\ None \notin Gens /\ None \notin Nat
    /\ BatchSizes \subseteq Nat \ {0}
    /\ MaxRestarts \in Nat

VARIABLES
    pc,         \* pc[g]: where the generator is
    running,    \* the generation whose next() is running
    batch,      \* batch[g]: its rows are 1..batch[g]
    frame,      \* frame[g]: chunk_start
    cacheIdx,   \* cacheIdx[g]: transfer_history_cache_idx
    rowReset,   \* rowReset[g][r]: _row_reset_frame
    filled,     \* filled[g]: the slots whose k_cache entry is not None
    staticPlan, \* staticPlan[g]: what the static buffer was rebuilt for
    ring,       \* the pooled ring, [row -> slot -> entry]
    static,     \* the pooled static buffer, [row -> logical entry -> entry]
    owner,      \* owner[key]: the cache that acquired the pooled buffer
    runners,    \* runners[kind]: the generation a captured graph is bound to
    episode,    \* history: [start, stored] of the row's current episode
    overlap,    \* history: another generation was alive when g started
    seen        \* history: what the last forward of the running one read

genVars == <<batch, frame, cacheIdx, rowReset, episode, overlap>>
poolVars == <<filled, staticPlan, ring, static, owner, runners>>
vars == <<pc, running, genVars, poolVars, seen>>

Kinds == {"refresh control", "denoise", "refresh target"}
Rows(g) == 1..batch[g]

\* A cached key-value pair, named by the episode that stored it.
Entry(g, start, n) == [gen |-> g, start |-> start, n |-> n]
Zero == [gen |-> None, start |-> 0, n |-> 0]

\* The static buffer is stale; no forward reads it before the first store.
NoPlan == [at |-> 0, plan |-> <<>>]

Init ==
    /\ pc = [g \in Gens |-> "new"]
    /\ running = None
    /\ batch \in [Gens -> BatchSizes]
    /\ frame = [g \in Gens |-> 0]
    /\ cacheIdx = [g \in Gens |-> 0]
    /\ rowReset = [g \in Gens |-> [r \in 1..batch[g] |-> 0]]
    /\ filled = [g \in Gens |-> {}]
    /\ staticPlan = [g \in Gens |-> NoPlan]
    /\ ring = <<>> /\ static = <<>>
    /\ owner = [k \in {"ring", "static"} |-> None]
    /\ runners = [k \in Kinds |-> None]
    /\ episode = [g \in Gens |-> [r \in 1..batch[g] |-> [start |-> 0, stored |-> 0]]]
    /\ overlap = [g \in Gens |-> FALSE]
    /\ seen = <<>>

Suspended(g) == pc[g] = "yield"
Ended(g) == pc[g] \in {"new", "closed", "failed"}

\* The caches of g exist while its generator or a captured graph holds them.
Alive(g) == ~Ended(g) \/ \E k \in Kinds : runners[k] = g

Goto(g, label) == pc' = [pc EXCEPT ![g] = label]

----------------------------------------------------------------------------
(* The life of a generation.                                               *)

\* Mutant: the captured graphs keep the caches of the last generation.
StartKeepingRunners(g) ==
    /\ running = None /\ pc[g] = "new"
    /\ running' = g
    /\ Goto(g, "step")
    /\ owner' = [k \in DOMAIN owner |->
                    IF owner[k] # None /\ Alive(owner[k]) THEN owner[k] ELSE None]
    /\ overlap' = [overlap EXCEPT ![g] = \E h \in Gens : ~Ended(h)]
    /\ UNCHANGED <<batch, frame, cacheIdx, rowReset, filled, staticPlan, ring,
                   static, runners, episode, seen>>

\* The first next(): the graphs of the last generation are dropped, and with
\* them its caches; the new caches forget the claims of dead ones.
Start(g) ==
    /\ running = None /\ pc[g] = "new"
    /\ running' = g
    /\ Goto(g, "step")
    /\ runners' = [k \in Kinds |-> None]
    /\ owner' = [k \in DOMAIN owner |->
                    IF owner[k] # None /\ ~Ended(owner[k]) THEN owner[k] ELSE None]
    /\ overlap' = [overlap EXCEPT ![g] = \E h \in Gens : ~Ended(h)]
    /\ UNCHANGED <<batch, frame, cacheIdx, rowReset, filled, staticPlan, ring,
                   static, episode, seen>>

Resume(g) ==
    /\ running = None /\ Suspended(g)
    /\ frame[g] < NumFrames
    /\ running' = g
    /\ Goto(g, "step")
    /\ UNCHANGED <<genVars, poolVars, seen>>

\* The generator is exhausted, or its caller drops it.
Close(g) ==
    /\ running = None /\ Suspended(g)
    /\ Goto(g, "closed")
    /\ UNCHANGED <<running, genVars, poolVars, seen>>

----------------------------------------------------------------------------
(* One frame.                                                              *)

Restarts(g) == Cardinality({r \in Rows(g) : rowReset[g][r] > 0})

\* reset_rows: from now on the rows read as a fresh cache would.
RestartAt(g, rows) ==
    [r \in Rows(g) |-> IF r \in rows THEN cacheIdx[g] ELSE rowReset[g][r]]

Episode(g, rows) ==
    [r \in Rows(g) |->
        IF r \in rows THEN [start |-> frame[g], stored |-> 0] ELSE episode[g][r]]

\* The control of the next frame, and the rows whose episode starts over.
Step(g, rows) ==
    /\ pc[g] = "step"
    /\ rows # {} => frame[g] > 0 /\ Cardinality(rows) + Restarts(g) <= MaxRestarts
    /\ rowReset' = [rowReset EXCEPT ![g] = RestartAt(g, rows)]
    /\ staticPlan' = [staticPlan EXCEPT ![g] = IF rows = {} THEN @ ELSE NoPlan]
    /\ episode' = [episode EXCEPT ![g] = Episode(g, rows)]
    /\ Goto(g, "control")
    /\ UNCHANGED <<running, batch, frame, cacheIdx, overlap, filled, ring, static,
                   owner, runners, seen>>

\* The slots each row attends to.
Plan(g, limit) ==
    [r \in Rows(g) |->
        IF Unlimited THEN SharedHistorySlots(cacheIdx[g])
        ELSE RowHistorySlots(rowReset[g][r], cacheIdx[g], limit)]

\* The static buffer holds what this forward asks for: no store and no
\* restart came after it was built for the same entry and the same slots.
Current(g, plan) == staticPlan[g] = [at |-> cacheIdx[g], plan |-> plan]

Gathered(plan) ==
    [r \in DOMAIN plan |-> [l \in DOMAIN plan[r] |-> ring[r][plan[r][l]]]]

\* An exception ends the generator; a captured graph may still hold its caches.
Fail(g) ==
    /\ Goto(g, "failed")
    /\ running' = None
    /\ UNCHANGED <<genVars, poolVars, seen>>

\* Mutant: a buffer is handed out whoever owns it.
HeldByNoOther(key, g) == FALSE

\* acquire refuses a buffer that another live cache owns.
HeldByOther(key, g) == owner[key] \notin {None, g} /\ Alive(owner[key])

\* The graph is bound to these caches, no other live cache owns the static
\* buffer, and what has to be copied into it is there.
Readable(g, kind, plan) ==
    /\ runners[kind] \in {None, g}
    /\ ~HeldByOther("static", g)
    /\ ~Current(g, plan) => \A r \in Rows(g) : \A l \in DOMAIN plan[r] : plan[r][l] \in filled[g]

\* A forward of the captured graph of this kind, captured at its first use:
\* the static buffer is brought up to date, then read.
Forward(g, kind, limit, next) ==
    LET plan == Plan(g, limit)
    IN  IF ~Readable(g, kind, plan) THEN Fail(g)
        ELSE /\ runners' = [runners EXCEPT ![kind] = g]
             /\ owner' = [owner EXCEPT !.static = g]
             /\ static' = IF Current(g, plan) THEN static ELSE Gathered(plan)
             /\ staticPlan' = [staticPlan EXCEPT ![g] = [at |-> cacheIdx[g], plan |-> plan]]
             /\ seen' = static'
             /\ Goto(g, next)
             /\ UNCHANGED <<running, genVars, filled, ring>>

\* The control's forward reads strictly past frames; the very first one runs
\* eagerly and has no history.
EagerControl(g) ==
    /\ pc[g] = "control"
    /\ cacheIdx[g] = 0
    /\ seen' = [r \in Rows(g) |-> <<>>]
    /\ Goto(g, "store control")
    /\ UNCHANGED <<running, genVars, poolVars>>

Control(g) ==
    \/ EagerControl(g)
    \/ /\ pc[g] = "control"
       /\ cacheIdx[g] > 0
       /\ Forward(g, "refresh control", ControlLimit, "store control")

\* A denoising forward; the sampler runs one or more.
Denoise(g) ==
    /\ pc[g] \in {"denoise", "denoised"}
    /\ Forward(g, "denoise", TargetLimit, "denoised")

\* The last frame is delivered without a refresh.
Refresh(g) ==
    /\ pc[g] = "denoised"
    /\ frame[g] < NumFrames - 1
    /\ Forward(g, "refresh target", TargetLimit, "store target")

Stamp(g, r) == Entry(g, episode[g][r].start, episode[g][r].stored)

\* Mutant: the early entries of a restarted row stay where they were stored.
MirroredNever(g, r, s) == FALSE

\* A row that restarted less than the sinks ago keeps a copy of its entry in
\* the sink slot.
Mirrored(g, r, s) ==
    /\ rowReset[g][r] > 0
    /\ s = cacheIdx[g] - rowReset[g][r]
    /\ s < SinkSize

OneMore(g) ==
    [r \in Rows(g) |-> [episode[g][r] EXCEPT !.stored = @ + 1]]

\* A pooled ring of another shape is replaced by zeros.
Acquired(g) ==
    IF DOMAIN ring = Rows(g) THEN ring
    ELSE [r \in Rows(g) |-> [s \in Slots |-> Zero]]

\* store_kv: the entry is written in place in the row of each sample, and the
\* static buffer is stale.
Store(g) ==
    /\ ring' = [r \in Rows(g) |->
                  [s \in Slots |->
                      IF s = CacheIndex(cacheIdx[g]) \/ Mirrored(g, r, s) THEN Stamp(g, r)
                      ELSE Acquired(g)[r][s]]]
    /\ owner' = [owner EXCEPT !.ring = g]
    /\ filled' = [filled EXCEPT ![g] = @ \cup {CacheIndex(cacheIdx[g])}]
    /\ staticPlan' = [staticPlan EXCEPT ![g] = NoPlan]
    /\ episode' = [episode EXCEPT ![g] = OneMore(g)]
    /\ cacheIdx' = [cacheIdx EXCEPT ![g] = @ + 1]
    /\ UNCHANGED <<batch, rowReset, overlap, static, runners, seen>>

\* The first store acquires the ring.
StoreControl(g) ==
    /\ pc[g] = "store control"
    /\ \/ /\ HeldByOther("ring", g)
          /\ Fail(g)
       \/ /\ ~HeldByOther("ring", g)
          /\ Store(g)
          /\ Goto(g, "denoise")
          /\ UNCHANGED <<running, frame>>

\* The frame is yielded.
Yield(g) ==
    /\ frame' = [frame EXCEPT ![g] = @ + 1]
    /\ running' = None
    /\ Goto(g, "yield")

StoreTarget(g) ==
    /\ pc[g] = "store target"
    /\ Store(g)
    /\ Yield(g)

LastFrame(g) ==
    /\ pc[g] = "denoised"
    /\ frame[g] = NumFrames - 1
    /\ Yield(g)
    /\ UNCHANGED <<batch, cacheIdx, rowReset, episode, overlap, poolVars, seen>>

Next ==
    \E g \in Gens :
        \/ Start(g) \/ Resume(g) \/ Close(g)
        \/ \E rows \in SUBSET Rows(g) : Step(g, rows)
        \/ Control(g) \/ StoreControl(g)
        \/ Denoise(g) \/ Refresh(g) \/ StoreTarget(g) \/ LastFrame(g)

Spec == Init /\ [][Next]_vars

----------------------------------------------------------------------------
(* Properties.                                                             *)

Read == {"store control", "denoised", "store target"}

\* What a forward of the row's episode is due: both entries of the sink frames
\* and of the RecentFrames frames before this one and, for the target, this
\* frame's control.
Due(g, r) ==
    LET start == episode[g][r].start
        now == frame[g] - start
        Visible(f) == Unlimited \/ f < Sinks \/ f >= now - RecentFrames
        Past == {n \in 0..2 * now - 1 : Visible(n \div 2)}
    IN  [n \in IF pc[g] = "store control" THEN Past ELSE Past \cup {2 * now} |->
            Entry(g, start, n)]

(***************************************************************************)
(* A forward attends, in each row, to exactly the window of the row's      *)
(* current episode in its own generation: nothing of an earlier episode,   *)
(* of the generation before it in the same buffers, or of a frame that has *)
(* rolled out, and nothing missing (reset_rows, row_history_slots,         *)
(* fetch_kv_static).                                                       *)
(***************************************************************************)
AttendsToItsEpisode ==
    \A g \in Gens : pc[g] \in Read => \A r \in Rows(g) : seen[r] = Due(g, r)

(***************************************************************************)
(* Two generations never have their keys in the same ring at a time: while *)
(* one that stored may still be resumed, no other has stored since         *)
(* (KVBufferPool.acquire).                                                 *)
(***************************************************************************)
RingHasOneOwner ==
    \A g \in Gens : ~Ended(g) /\ filled[g] # {} =>
        /\ owner.ring = g
        /\ \A r \in DOMAIN ring : \A s \in filled[g] : ring[r][s].gen = g

(***************************************************************************)
(* A generation fails only when another was alive as it started: those     *)
(* that run one after the other are never refused a buffer, neither        *)
(* because of what a captured graph still holds nor for an empty slot      *)
(* (reset_for_new_generation before the caches are created).               *)
(***************************************************************************)
OnlyOverlapFails ==
    \A g \in Gens : pc[g] = "failed" => overlap[g]
=============================================================================
