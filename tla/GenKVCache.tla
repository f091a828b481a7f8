----------------------------- MODULE GenKVCache -----------------------------
(***************************************************************************)
(* The index arithmetic of the rolling key-value cache of streaming        *)
(* Transfer generation (KVCache and GenKVCache, model/generator/utils/     *)
(* kv_cache.py).  Each frame stores two entries, its control C and its     *)
(* clean RGB R, so the cache holds 2 * Window entries of which the first   *)
(* 2 * Sinks are pinned.  A plan is the set of logical entries a forward   *)
(* attends to; their order is left out, keys carry their position.         *)
(***************************************************************************)
EXTENDS Integers, FiniteSets

CONSTANTS
    Window,     \* kv_cache_inference_size, 0 for None
    Sinks,      \* attention_sink_size
    NumFrames   \* num_frames

\* _validate_attention_sink_config and the check of num_frames.
ASSUME CacheAssumption ==
    /\ Window \in Nat /\ Sinks \in Nat /\ NumFrames \in Nat \ {0}
    /\ IF Window = 0 THEN Sinks = 0 ELSE Sinks < Window

Unlimited == Window = 0

CacheSize == IF Unlimited THEN 2 * NumFrames + 1 ELSE 2 * Window
SinkSize == 2 * Sinks

Slots == 0..CacheSize - 1

\* The physical slot of a logical entry.
CacheIndex(i) ==
    IF SinkSize = 0 THEN i % CacheSize
    ELSE IF i < SinkSize THEN i
    ELSE SinkSize + ((i - SinkSize) % (CacheSize - SinkSize))

\* The entries the ring still holds for the forward at entry n.
HistoryFrameIndices(n) ==
    IF SinkSize = 0 THEN {i \in 0..n - 1 : i >= n - CacheSize + 1}
    ELSE {i \in 0..n - 1 : i < SinkSize \/ i >= n - (CacheSize - SinkSize - 1)}

\* How many entries a forward may see besides the sinks.
RecentFrames == Window - Sinks - 1
ControlLimit == 2 * RecentFrames
TargetLimit == 2 * RecentFrames + 1

\* The sinks and the newest `limit` of the other entries.  The callers ask
\* for as many sinks as the ring pins.
TransferHistory(n, limit) ==
    {i \in HistoryFrameIndices(n) : i < SinkSize \/ i >= n - limit}

\* The slots a row that restarted at entry `reset` (0: never) reads at the
\* global entry n: the plan of a fresh cache, whose sinks are mirrored.
RowHistorySlots(reset, n, limit) ==
    [l \in TransferHistory(n - reset, limit) |->
        IF reset > 0 /\ l < SinkSize THEN l ELSE CacheIndex(reset + l)]

\* The slots every row reads when the cache has no Transfer limit.
SharedHistorySlots(n) ==
    [l \in HistoryFrameIndices(n) |-> CacheIndex(l)]
=============================================================================
