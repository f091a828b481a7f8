---------------------- MODULE StreamingTransferProofs ----------------------
(***************************************************************************)
(* Proofs about streaming Transfer for any number of rows, frames,         *)
(* restarts and generations that share the pooled buffers: no two have     *)
(* their keys in the ring at a time, only one that overlaps another fails, *)
(* and with a finite window, of any size and with any number of sinks,     *)
(* every forward attends to exactly its rows' windows.                     *)
(*                                                                         *)
(* The argument for the last: the ring holds, at the slot where it will be *)
(* looked for, every entry of a row's episode that is a sink of it or that *)
(* is at most a rolling part old (RingInv).  That rests on two facts of    *)
(* the index arithmetic: a store does not touch the slot of such an entry  *)
(* (StoreKeeps) and what a plan asks for is such an entry (PlanHeld).      *)
(* A second invariant, over the first, says what a generation that started *)
(* alone has to itself as long as it lives (AloneInv).                     *)
(***************************************************************************)
EXTENDS StreamingTransfer, TLAPS

RollingSize == CacheSize - SinkSize

\* The slot at which a row that restarted at `reset` keeps its entry l.
SlotOf(reset, l) == IF reset > 0 /\ l < SinkSize THEN l ELSE CacheIndex(reset + l)

\* The entries of an episode that are still held when `stored` are stored.
\* Without a window rows do not keep to their episodes, and nothing is claimed.
Held(stored) ==
    {l \in 0..stored - 1 : ~Unlimited /\ (l < SinkSize \/ l >= stored - RollingSize)}

----------------------------------------------------------------------------
(* Index arithmetic.                                                       *)

LEMMA SizeFacts ==
    ASSUME ~Unlimited
    PROVE  /\ CacheSize \in Nat \ {0} /\ SinkSize \in Nat /\ RollingSize \in Nat \ {0}
           /\ SinkSize + RollingSize = CacheSize
           /\ Sinks \in Nat /\ RecentFrames \in Nat
           /\ SinkSize = 2 * Sinks /\ RollingSize = 2 * RecentFrames + 2
  BY CacheAssumption DEF Unlimited, CacheSize, SinkSize, RollingSize, RecentFrames

\* Numbers less than m apart leave different remainders.
LEMMA ModDiffers ==
    ASSUME NEW a \in Nat, NEW b \in Nat, NEW m \in Nat \ {0}, a < b, b - a < m
    PROVE  a % m # b % m
<1> DEFINE p == a \div m
           q == b \div m
<1>1. a = m * p + (a % m) /\ b = m * q + (b % m) /\ p \in Nat /\ q \in Nat
  BY SMT
<1> HIDE DEF p, q
<1>2. SUFFICES ASSUME a % m = b % m PROVE FALSE
  OBVIOUS
<1>3. a % m \in Nat
  BY SMT
<1>4. b - a = m * q - m * p
  BY <1>1, <1>2, <1>3
<1>5. m * q - m * p = m * (q - p)
  BY <1>1
<1>6. CASE q <= p
  BY <1>1, <1>4, <1>5, <1>6
<1>7. CASE q > p
  <2>1. q - p >= 1
    BY <1>1, <1>7
  <2>2. m * (q - p) >= m
    BY <2>1, <1>1
  <2> QED
    BY <2>2, <1>4, <1>5
<1> QED
  BY <1>1, <1>6, <1>7

\* The pinned entries keep their slots and the others share the rest.
LEMMA CacheIndexRange ==
    ASSUME ~Unlimited, NEW i \in Nat
    PROVE  /\ i < SinkSize => CacheIndex(i) = i
           /\ i >= SinkSize => CacheIndex(i) \in SinkSize..CacheSize - 1
           /\ i >= SinkSize => CacheIndex(i) = SinkSize + ((i - SinkSize) % RollingSize)
           /\ CacheIndex(i) \in Slots
<1>1. CASE SinkSize = 0
  <2>1. CacheIndex(i) = i % CacheSize /\ RollingSize = CacheSize
    BY <1>1, SizeFacts DEF CacheIndex
  <2>2. i % CacheSize \in 0..CacheSize - 1
    BY SizeFacts
  <2> QED
    BY <1>1, <2>1, <2>2, SizeFacts DEF Slots
<1>2. CASE SinkSize # 0 /\ i < SinkSize
  BY <1>2, SizeFacts DEF CacheIndex, Slots
<1>3. CASE SinkSize # 0 /\ i >= SinkSize
  <2>1. CacheIndex(i) = SinkSize + ((i - SinkSize) % RollingSize)
    BY <1>3, SizeFacts DEF CacheIndex, RollingSize
  <2>2. i - SinkSize \in Nat
    BY <1>3, SizeFacts
  <2>3. (i - SinkSize) % RollingSize \in 0..RollingSize - 1
    BY <2>2, SizeFacts
  <2> QED
    BY <1>3, <2>1, <2>3, SizeFacts DEF Slots
<1> QED
  BY <1>1, <1>2, <1>3, SizeFacts

LEMMA CacheIndexInSlots ==
    ASSUME NEW i \in Nat
    PROVE  CacheIndex(i) \in Slots
<1>1. CASE Unlimited
  <2>1. SinkSize = 0 /\ CacheSize \in Nat \ {0}
    BY <1>1, CacheAssumption DEF Unlimited, SinkSize, CacheSize
  <2>2. i % CacheSize \in 0..CacheSize - 1
    BY <2>1
  <2> QED
    BY <2>1, <2>2 DEF CacheIndex, Slots
<1>2. CASE ~Unlimited
  BY <1>2, CacheIndexRange
<1> QED
  BY <1>1, <1>2

\* Two entries less than a rolling part apart have slots of their own.
LEMMA CacheIndexDiffers ==
    ASSUME ~Unlimited, NEW i \in Nat, NEW j \in Nat, i < j,
           i < SinkSize \/ j - i < RollingSize
    PROVE  CacheIndex(i) # CacheIndex(j)
<1>1. CASE i < SinkSize
  <2>1. CacheIndex(i) = i
    BY <1>1, CacheIndexRange
  <2>2. CASE j < SinkSize
    BY <2>1, <2>2, CacheIndexRange
  <2>3. CASE j >= SinkSize
    <3>1. CacheIndex(j) \in SinkSize..CacheSize - 1
      BY <2>3, CacheIndexRange
    <3> QED
      BY <1>1, <2>1, <3>1, SizeFacts
  <2> QED
    BY <2>2, <2>3, SizeFacts
<1>2. CASE i >= SinkSize
  <2> DEFINE a == i - SinkSize
             b == j - SinkSize
  <2>1. a \in Nat /\ b \in Nat /\ a < b /\ b - a < RollingSize
    BY <1>2, SizeFacts
  <2>2. a % RollingSize # b % RollingSize
    BY <2>1, ModDiffers, SizeFacts
  <2>3. a % RollingSize \in Nat /\ b % RollingSize \in Nat
    BY <2>1, SizeFacts
  <2>4. /\ CacheIndex(i) = SinkSize + (a % RollingSize)
        /\ CacheIndex(j) = SinkSize + (b % RollingSize)
    BY <1>2, CacheIndexRange, SizeFacts
  <2> HIDE DEF a, b
  <2> QED
    BY <2>2, <2>3, <2>4, SizeFacts
<1> QED
  BY <1>1, <1>2, SizeFacts

\* Storing the entry c of the cache leaves alone the slots of the entries of
\* the row's episode that are held with it, and puts the new one in its own.
LEMMA StoreKeeps ==
    ASSUME ~Unlimited, NEW reset \in Nat, NEW c \in Nat, reset <= c,
           NEW l \in Held(c + 1 - reset)
    PROVE  /\ SlotOf(reset, l) \in Slots
           /\ l < c - reset =>
                 /\ l \in Held(c - reset)
                 /\ SlotOf(reset, l) # CacheIndex(c)
                 /\ reset > 0 /\ c - reset < SinkSize => SlotOf(reset, l) # c - reset
           /\ l = c - reset =>
                 \/ SlotOf(reset, l) = CacheIndex(c)
                 \/ reset > 0 /\ c - reset < SinkSize /\ SlotOf(reset, l) = c - reset
           /\ l <= c - reset
<1>1. l \in Nat /\ l <= c - reset /\ reset + l \in Nat
  BY SizeFacts DEF Held
<1>2. l < SinkSize \/ c - (reset + l) < RollingSize
  BY SizeFacts, <1>1 DEF Held
<1>3. SlotOf(reset, l) \in Slots
  <2>1. CASE reset > 0 /\ l < SinkSize
    BY <2>1, <1>1, SizeFacts DEF SlotOf, Slots
  <2>2. CASE ~(reset > 0 /\ l < SinkSize)
    BY <2>2, <1>1, CacheIndexRange DEF SlotOf
  <2> QED
    BY <2>1, <2>2
<1>4. ASSUME l < c - reset
      PROVE  /\ l \in Held(c - reset)
             /\ SlotOf(reset, l) # CacheIndex(c)
             /\ reset > 0 /\ c - reset < SinkSize => SlotOf(reset, l) # c - reset
  <2>1. l \in Held(c - reset)
    BY <1>1, <1>2, <1>4, SizeFacts DEF Held
  <2>2. CASE reset > 0 /\ l < SinkSize
    <3>1. SlotOf(reset, l) = l
      BY <2>2 DEF SlotOf
    <3>2. CASE c < SinkSize
      BY <3>1, <3>2, <1>1, <1>4, <2>1, CacheIndexRange
    <3>3. CASE c >= SinkSize
      <4>1. CacheIndex(c) \in SinkSize..CacheSize - 1
        BY <3>3, CacheIndexRange
      <4> QED
        BY <3>1, <4>1, <1>1, <1>4, <2>1, <2>2, SizeFacts
    <3> QED
      BY <3>2, <3>3, SizeFacts
  <2>3. CASE ~(reset > 0 /\ l < SinkSize)
    <3>1. SlotOf(reset, l) = CacheIndex(reset + l)
      BY <2>3 DEF SlotOf
    <3>2. reset + l < c
      BY <1>1, <1>4
    <3>3. reset + l < SinkSize \/ c - (reset + l) < RollingSize
      BY <1>1, <1>2, <2>3, SizeFacts
    <3>4. CacheIndex(reset + l) # CacheIndex(c)
      BY <1>1, <3>2, <3>3, CacheIndexDiffers
    <3>5. ASSUME reset > 0, c - reset < SinkSize PROVE FALSE
      BY <3>5, <2>3, <1>1, <1>4, SizeFacts
    <3> QED
      BY <2>1, <3>1, <3>4, <3>5
  <2> QED
    BY <2>2, <2>3
<1>5. ASSUME l = c - reset
      PROVE  \/ SlotOf(reset, l) = CacheIndex(c)
             \/ reset > 0 /\ c - reset < SinkSize /\ SlotOf(reset, l) = c - reset
  <2>1. reset + l = c
    BY <1>1, <1>5
  <2> QED
    BY <2>1, <1>5 DEF SlotOf
<1> QED
  BY <1>1, <1>3, <1>4, <1>5

\* What a forward asks for when n entries of the episode are stored.
LEMMA PlanEntries ==
    ASSUME ~Unlimited, NEW n \in Nat, NEW limit \in {ControlLimit, TargetLimit}
    PROVE  TransferHistory(n, limit) = {i \in 0..n - 1 : i < SinkSize \/ i >= n - limit}
<1>1. limit \in Nat /\ limit <= RollingSize - 1
  BY SizeFacts DEF ControlLimit, TargetLimit
<1>2. HistoryFrameIndices(n) = {i \in 0..n - 1 : i < SinkSize \/ i >= n - (RollingSize - 1)}
  <2>1. CASE SinkSize = 0
    <3>1. \A i \in 0..n - 1 :
            i >= n - CacheSize + 1 <=> (i < SinkSize \/ i >= n - (RollingSize - 1))
      BY <2>1, SizeFacts
    <3> QED
      BY <2>1, <3>1 DEF HistoryFrameIndices
  <2>2. CASE SinkSize # 0
    BY <2>2 DEF HistoryFrameIndices, RollingSize
  <2> QED
    BY <2>1, <2>2
<1>3. \A i \in 0..n - 1 : i >= n - limit => i >= n - (RollingSize - 1)
  BY <1>1, SizeFacts
<1> QED
  BY <1>2, <1>3 DEF TransferHistory

\* It asks only for entries that are held.
LEMMA PlanHeld ==
    ASSUME ~Unlimited, NEW n \in Nat, NEW limit \in {ControlLimit, TargetLimit}
    PROVE  TransferHistory(n, limit) \subseteq Held(n)
<1>1. limit \in Nat /\ limit <= RollingSize - 1
  BY SizeFacts DEF ControlLimit, TargetLimit
<1>2. \A i \in 0..n - 1 : i >= n - limit => i >= n - RollingSize
  BY <1>1, SizeFacts
<1> QED
  BY <1>2, PlanEntries DEF Held

\* The control's plan is the past of its frame, the target's has the frame's
\* control besides.
LEMMA PlanIsPast ==
    ASSUME ~Unlimited, NEW now \in Nat
    PROVE  LET Past == {n \in 0..2 * now - 1 :
                          Unlimited \/ n \div 2 < Sinks \/ n \div 2 >= now - RecentFrames}
           IN  /\ TransferHistory(2 * now, ControlLimit) = Past
               /\ TransferHistory(2 * now + 1, TargetLimit) = Past \cup {2 * now}
<1> DEFINE Past == {n \in 0..2 * now - 1 :
                      Unlimited \/ n \div 2 < Sinks \/ n \div 2 >= now - RecentFrames}
<1>1. \A n \in 0..2 * now - 1 :
         /\ n \div 2 < Sinks <=> n < SinkSize
         /\ n \div 2 >= now - RecentFrames <=> n >= 2 * now - 2 * RecentFrames
  BY SizeFacts
<1>2. TransferHistory(2 * now, ControlLimit)
        = {i \in 0..2 * now - 1 : i < SinkSize \/ i >= 2 * now - 2 * RecentFrames}
  BY PlanEntries, SizeFacts DEF ControlLimit
<1>3. TransferHistory(2 * now + 1, TargetLimit)
        = {i \in 0..(2 * now + 1) - 1 :
             i < SinkSize \/ i >= (2 * now + 1) - (2 * RecentFrames + 1)}
  BY PlanEntries, SizeFacts DEF TargetLimit
<1>4. TransferHistory(2 * now, ControlLimit) = Past
  BY <1>1, <1>2
<1>5. TransferHistory(2 * now + 1, TargetLimit) = Past \cup {2 * now}
  <2>1. ASSUME NEW n
        PROVE  n \in TransferHistory(2 * now + 1, TargetLimit) <=> n \in Past \cup {2 * now}
    <3>1. CASE n = 2 * now
      BY <3>1, <1>3, SizeFacts
    <3>2. CASE n # 2 * now
      <4>1. n \in TransferHistory(2 * now + 1, TargetLimit)
              <=> n \in 0..2 * now - 1 /\ (n < SinkSize \/ n >= 2 * now - 2 * RecentFrames)
        BY <3>2, <1>3, SizeFacts
      <4> QED
        BY <4>1, <3>2, <1>1
    <3> QED
      BY <3>1, <3>2
  <2> QED
    BY <2>1
<1> QED
  BY <1>4, <1>5

----------------------------------------------------------------------------
(* The inductive invariant.                                                *)

InStep == {"step", "control", "store control", "denoise", "denoised", "store target"}
PcSet == InStep \cup {"new", "yield", "closed", "failed"}

TypeInv ==
    /\ pc \in [Gens -> PcSet]
    /\ running \in Gens \cup {None}
    /\ batch \in [Gens -> BatchSizes]
    /\ frame \in [Gens -> Nat]
    /\ cacheIdx \in [Gens -> Nat]
    /\ rowReset = [g \in Gens |-> rowReset[g]]
    /\ \A g \in Gens : rowReset[g] \in [Rows(g) -> Nat]
    /\ filled \in [Gens -> SUBSET Slots]
    /\ staticPlan = [g \in Gens |-> staticPlan[g]]
    /\ owner \in [{"ring", "static"} -> Gens \cup {None}]
    /\ runners \in [Kinds -> Gens \cup {None}]
    /\ episode = [g \in Gens |-> episode[g]]
    /\ \A g \in Gens : episode[g] \in [Rows(g) -> [start : Nat, stored : Nat]]

\* Only the running generation is inside a frame.
Lock(g) == pc[g] \in InStep <=> running = g

\* Each frame stores two entries.
Clock(g) ==
    /\ pc[g] \in {"new", "step", "control", "store control"} => cacheIdx[g] = 2 * frame[g]
    /\ pc[g] \in {"denoise", "denoised", "store target"} => cacheIdx[g] = 2 * frame[g] + 1
    /\ pc[g] = "yield" /\ frame[g] < NumFrames => cacheIdx[g] = 2 * frame[g]
    /\ pc[g] = "new" => filled[g] = {} /\ cacheIdx[g] = 0 /\ staticPlan[g] = NoPlan

\* A row's clock starts at its restart.
Episodes(g) ==
    \A r \in Rows(g) :
        /\ rowReset[g][r] = 2 * episode[g][r].start
        /\ episode[g][r].start <= frame[g]
        /\ rowReset[g][r] + episode[g][r].stored = cacheIdx[g]

\* A generation that may still be resumed owns the ring it stored to, and
\* finds in it the entries that are held.
RingInv(g) ==
    ~Ended(g) =>
        /\ cacheIdx[g] = 0 => filled[g] = {}
        /\ cacheIdx[g] > 0 =>
            /\ owner["ring"] = g
            /\ DOMAIN ring = Rows(g)
            /\ \A r \in Rows(g) : \A s \in filled[g] : ring[r][s].gen = g
            /\ \A r \in Rows(g) : \A l \in Held(episode[g][r].stored) :
                 ring[r][SlotOf(rowReset[g][r], l)] = Entry(g, episode[g][r].start, l)

\* The static buffer is what its key says.
StaticInv(g) ==
    ~Ended(g) /\ staticPlan[g].at > 0 =>
        /\ owner["static"] = g
        /\ cacheIdx[g] > 0
        /\ DOMAIN staticPlan[g].plan = Rows(g)
        /\ static = Gathered(staticPlan[g].plan)

SeenInv(g) == ~Unlimited /\ pc[g] \in Read => \A r \in Rows(g) : seen[r] = Due(g, r)

GInv(g) ==
    /\ Lock(g) /\ Clock(g) /\ Episodes(g)
    /\ RingInv(g) /\ StaticInv(g) /\ SeenInv(g)

IInv == TypeInv /\ \A g \in Gens : GInv(g)

LEMMA InitInv == Init => IInv
<1> SUFFICES ASSUME Init PROVE IInv
  OBVIOUS
<1> USE GenAssumption
<1>1. TypeInv
  BY CacheAssumption DEF Init, TypeInv, PcSet, InStep, Rows, Kinds
<1>2. ASSUME NEW g \in Gens PROVE GInv(g)
  <2>1. pc[g] = "new" /\ running = None /\ frame[g] = 0 /\ cacheIdx[g] = 0
    BY DEF Init
  <2>2. Lock(g) /\ RingInv(g) /\ StaticInv(g) /\ SeenInv(g)
    BY <2>1 DEF Lock, RingInv, StaticInv, SeenInv, InStep, Ended, Read
  <2>3. Clock(g)
    BY <2>1 DEF Clock, Init
  <2>4. Episodes(g)
    BY <2>1 DEF Episodes, Init, Rows
  <2> QED
    BY <2>2, <2>3, <2>4 DEF GInv
<1> QED
  BY <1>1, <1>2 DEF IInv

\* A step that leaves a generation's own state and the buffers it relies on
\* alone keeps its invariant, unless it is inside a frame.
LEMMA Untouched ==
    ASSUME IInv, NEW g \in Gens,
           pc'[g] = pc[g], batch'[g] = batch[g], frame'[g] = frame[g],
           cacheIdx'[g] = cacheIdx[g], rowReset'[g] = rowReset[g],
           filled'[g] = filled[g], staticPlan'[g] = staticPlan[g],
           episode'[g] = episode[g],
           running # g, running' # g,
           ~Ended(g) /\ cacheIdx[g] > 0 => owner'["ring"] = g /\ ring' = ring,
           ~Ended(g) /\ staticPlan[g].at > 0 => owner'["static"] = g /\ static' = static
    PROVE  GInv(g)'
<1>0. /\ Lock(g) /\ Clock(g) /\ Episodes(g)
      /\ RingInv(g) /\ StaticInv(g) /\ SeenInv(g)
  BY DEF IInv, GInv
<1>1. Lock(g)' /\ Clock(g)'
  BY <1>0 DEF Lock, Clock
<1>2. Episodes(g)'
  BY <1>0 DEF Episodes, Rows
<1>3. RingInv(g)'
  <2>1. CASE Ended(g)
    BY <2>1 DEF RingInv, Ended
  <2>2. CASE ~Ended(g) /\ cacheIdx[g] > 0
    <3>1. cacheIdx[g] # 0 /\ owner'["ring"] = g /\ ring' = ring /\ Rows(g)' = Rows(g)
      BY <2>2, <1>0 DEF IInv, TypeInv, Rows
    <3>2. DOMAIN ring' = Rows(g)'
      BY <1>0, <2>2, <3>1 DEF RingInv
    <3>3. \A r \in Rows(g)' : \A s \in filled'[g] : ring'[r][s].gen = g
      BY <1>0, <2>2, <3>1 DEF RingInv
    <3>4. ASSUME NEW r \in Rows(g), NEW l \in Held(episode'[g][r].stored)
          PROVE  ring'[r][SlotOf(rowReset'[g][r], l)] = Entry(g, episode'[g][r].start, l)
      BY <1>0, <2>2, <3>1 DEF RingInv
    <3> QED
      BY <3>1, <3>2, <3>3, <3>4 DEF RingInv
  <2>3. CASE ~Ended(g) /\ ~(cacheIdx[g] > 0)
    BY <1>0, <2>3 DEF RingInv, Ended
  <2> QED
    BY <2>1, <2>2, <2>3
<1>4. StaticInv(g)'
  <2> SUFFICES ASSUME ~Ended(g), staticPlan[g].at > 0
               PROVE  /\ owner'["static"] = g
                      /\ cacheIdx[g] > 0
                      /\ DOMAIN staticPlan[g].plan = Rows(g)
                      /\ static' = [r \in DOMAIN staticPlan[g].plan |->
                                      [l \in DOMAIN staticPlan[g].plan[r] |->
                                          ring'[r][staticPlan[g].plan[r][l]]]]
    BY DEF StaticInv, Ended, Rows, Gathered
  <2>1. cacheIdx[g] > 0 /\ DOMAIN staticPlan[g].plan = Rows(g)
        /\ static = Gathered(staticPlan[g].plan)
    BY <1>0 DEF StaticInv
  <2> QED
    BY <2>1 DEF Gathered
<1>5. SeenInv(g)'
  <2>1. pc[g] \notin Read
    BY <1>0 DEF Lock, InStep, Read
  <2> QED
    BY <2>1 DEF SeenInv, Read
<1> QED
  BY <1>1, <1>2, <1>3, <1>4, <1>5 DEF GInv

\* Steps that change no more than where a generation is, and who runs.
LEMMA Elsewhere ==
    ASSUME IInv, NEW h \in Gens, UNCHANGED <<genVars, poolVars>>, running \in {None, h},
           running' \in {None, h}, NEW label \in PcSet, pc' = [pc EXCEPT ![h] = label]
    PROVE  TypeInv' /\ \A g \in Gens \ {h} : GInv(g)'
<1>1. TypeInv'
  BY GenAssumption DEF IInv, TypeInv, genVars, poolVars, Rows
<1>2. ASSUME NEW g \in Gens \ {h} PROVE GInv(g)'
  <2>1. running # g /\ running' # g /\ pc'[g] = pc[g]
    BY GenAssumption DEF IInv, TypeInv
  <2>2. ~Ended(g) /\ cacheIdx[g] > 0 => owner'["ring"] = g /\ ring' = ring
    <3>1. RingInv(g)
      BY DEF IInv, GInv
    <3> QED
      BY <3>1 DEF RingInv, poolVars
  <2>3. ~Ended(g) /\ staticPlan[g].at > 0 => owner'["static"] = g /\ static' = static
    <3>1. StaticInv(g)
      BY DEF IInv, GInv
    <3> QED
      BY <3>1 DEF StaticInv, poolVars
  <2> QED
    BY <2>1, <2>2, <2>3, Untouched DEF genVars, poolVars
<1> QED
  BY <1>1, <1>2

LEMMA FailStep ==
    ASSUME IInv, NEW h \in Gens, Fail(h), running = h
    PROVE  IInv'
<1> USE DEF Fail, Goto
<1>1. TypeInv' /\ \A g \in Gens \ {h} : GInv(g)'
  BY Elsewhere DEF PcSet
<1>2. GInv(h)'
  <2>1. pc'[h] = "failed" /\ running' # h
    BY GenAssumption DEF IInv, TypeInv
  <2>2. Episodes(h)
    BY DEF IInv, GInv
  <2>3. Episodes(h)'
    BY <2>2 DEF Episodes, Rows, genVars
  <2> QED
    BY <2>1, <2>3 DEF GInv, Lock, Clock, RingInv, StaticInv, SeenInv, InStep, Ended, Read
<1> QED
  BY <1>1, <1>2 DEF IInv

\* What a captured forward would copy into the static buffer is what the
\* row's episode is due.
LEMMA GatheredIsDue ==
    ASSUME ~Unlimited, IInv, NEW g \in Gens, ~Ended(g), cacheIdx[g] > 0,
           NEW limit \in {ControlLimit, TargetLimit}, NEW r \in Rows(g)
    PROVE  Gathered(Plan(g, limit))[r]
             = [l \in TransferHistory(episode[g][r].stored, limit) |->
                   Entry(g, episode[g][r].start, l)]
<1> DEFINE n == episode[g][r].stored
           reset == rowReset[g][r]
           plan == RowHistorySlots(reset, cacheIdx[g], limit)
<1>1. Episodes(g) /\ RingInv(g)
  BY DEF IInv, GInv
<1>2. n \in Nat /\ reset \in Nat /\ cacheIdx[g] \in Nat
  BY DEF IInv, TypeInv
<1>3. cacheIdx[g] - reset = n
  BY <1>1, <1>2 DEF Episodes
<1>4. Plan(g, limit)[r] = plan /\ r \in DOMAIN Plan(g, limit)
  BY DEF Plan
<1>5. /\ DOMAIN plan = TransferHistory(n, limit)
      /\ \A l \in TransferHistory(n, limit) : plan[l] = SlotOf(reset, l)
  BY <1>3 DEF RowHistorySlots, SlotOf
<1>6. \A l \in TransferHistory(n, limit) : l \in Held(n)
  BY <1>2, PlanHeld
<1>7. \A l \in Held(n) : ring[r][SlotOf(reset, l)] = Entry(g, episode[g][r].start, l)
  BY <1>1 DEF RingInv
<1>8. Gathered(Plan(g, limit))[r] = [l \in DOMAIN plan |-> ring[r][plan[l]]]
  BY <1>4 DEF Gathered
<1> HIDE DEF n, reset, plan
<1>9. \A l \in TransferHistory(n, limit) : ring[r][plan[l]] = Entry(g, episode[g][r].start, l)
  BY <1>5, <1>6, <1>7
<1>10. [l \in DOMAIN plan |-> ring[r][plan[l]]]
         = [l \in TransferHistory(n, limit) |-> Entry(g, episode[g][r].start, l)]
  BY <1>5, <1>9
<1> QED
  BY <1>8, <1>10 DEF n

\* The limit of a forward, and where it leads.
Reads(g, limit, next) ==
    \/ /\ pc[g] = "control" /\ cacheIdx[g] > 0
       /\ limit = ControlLimit /\ next = "store control"
    \/ /\ pc[g] \in {"denoise", "denoised"} /\ limit = TargetLimit
       /\ next \in {"denoised", "store target"}

\* A captured forward reads exactly the window of each row's episode.
LEMMA ForwardStep ==
    ASSUME IInv, NEW h \in Gens, running = h, NEW kind \in Kinds,
           NEW limit, NEW next, Forward(h, kind, limit, next),
           Reads(h, limit, next)
    PROVE  IInv'
<1> DEFINE slots == Plan(h, limit)
<1>1. CASE ~Readable(h, kind, slots)
  BY <1>1, FailStep DEF Forward
<1>2. CASE Readable(h, kind, slots)
  <2>1. /\ runners' = [runners EXCEPT ![kind] = h]
        /\ owner' = [owner EXCEPT !["static"] = h]
        /\ static' = IF Current(h, slots) THEN static ELSE Gathered(slots)
        /\ staticPlan' = [staticPlan EXCEPT ![h] = [at |-> cacheIdx[h], plan |-> slots]]
        /\ seen' = static'
        /\ pc' = [pc EXCEPT ![h] = next]
        /\ UNCHANGED <<running, genVars, filled, ring>>
    BY <1>2 DEF Forward, Goto
  <2>2. /\ batch' = batch /\ frame' = frame /\ cacheIdx' = cacheIdx
        /\ rowReset' = rowReset /\ episode' = episode /\ filled' = filled
        /\ ring' = ring /\ running' = running
    BY <2>1 DEF genVars
  <2>3. Clock(h) /\ Episodes(h) /\ RingInv(h) /\ StaticInv(h)
    BY DEF IInv, GInv
  <2>13. frame[h] \in Nat /\ cacheIdx[h] \in Nat
    BY DEF IInv, TypeInv
  <2>14. /\ pc \in [Gens -> PcSet] /\ owner \in [{"ring", "static"} -> Gens \cup {None}]
         /\ staticPlan = [g \in Gens |-> staticPlan[g]]
    BY DEF IInv, TypeInv
  <2>10. \A r \in Rows(h) : /\ rowReset[h][r] \in Nat
                            /\ episode[h][r].start \in Nat /\ episode[h][r].stored \in Nat
    BY DEF IInv, TypeInv
  <2>11. ~Ended(h) /\ next \in PcSet /\ limit \in {ControlLimit, TargetLimit}
    BY DEF Reads, Ended, PcSet, InStep
  <2>12. cacheIdx[h] > 0
    <3>1. CASE pc[h] = "control"
      BY <3>1 DEF Reads
    <3>2. CASE pc[h] \in {"denoise", "denoised"}
      <4>1. cacheIdx[h] = 2 * frame[h] + 1
        BY <3>2, <2>3 DEF Clock
      <4> QED
        BY <4>1, <2>13
    <3> QED
      BY <3>1, <3>2 DEF Reads
  <2>4. ~Ended(h) /\ cacheIdx[h] > 0 /\ next \in PcSet /\ limit \in {ControlLimit, TargetLimit}
    BY <2>11, <2>12
  <2>5. DOMAIN slots = Rows(h)
    BY DEF Plan
  <2>6. static' = Gathered(slots)
    <3>1. CASE Current(h, slots)
      <4>1. staticPlan[h].at = cacheIdx[h] /\ staticPlan[h].plan = slots
        <5>1. staticPlan[h] = [at |-> cacheIdx[h], plan |-> slots]
          BY <3>1 DEF Current
        <5> HIDE DEF slots
        <5> QED
          BY <5>1
      <4>2. static = Gathered(staticPlan[h].plan)
        BY <4>1, <2>3, <2>4 DEF StaticInv
      <4> QED
        BY <4>1, <4>2, <3>1, <2>1
    <3>2. CASE ~Current(h, slots)
      BY <3>2, <2>1
    <3> QED
      BY <3>1, <3>2
  <2>7. TypeInv'
    BY <2>1, <2>2, <2>4 DEF IInv, TypeInv, Rows
  <2>8. ASSUME NEW g \in Gens \ {h} PROVE GInv(g)'
    <3>1. running # g /\ running' # g
      BY <2>2
    <3>2. pc'[g] = pc[g] /\ staticPlan'[g] = staticPlan[g] /\ owner'["ring"] = owner["ring"]
      BY <2>1, <2>14
    <3>3. ~Ended(g) /\ cacheIdx[g] > 0 => owner'["ring"] = g /\ ring' = ring
      <4>1. RingInv(g)
        BY DEF IInv, GInv
      <4> QED
        BY <4>1, <3>2, <2>2 DEF RingInv
    <3>4. ~(~Ended(g) /\ staticPlan[g].at > 0)
      <4> SUFFICES ASSUME ~Ended(g), staticPlan[g].at > 0 PROVE FALSE
        OBVIOUS
      <4>1. StaticInv(g)
        BY DEF IInv, GInv
      <4>2. owner["static"] = g /\ g # h /\ g # None
        BY <4>1, GenAssumption DEF StaticInv
      <4>3. HeldByOther("static", h)
        BY <4>2 DEF HeldByOther, Alive
      <4> QED
        BY <4>3, <1>2 DEF Readable
    <3> QED
      BY <3>1, <3>2, <3>3, <3>4, <2>2, Untouched
  <2>9. GInv(h)'
    <3>1. pc'[h] = next /\ staticPlan'[h] = [at |-> cacheIdx[h], plan |-> slots]
          /\ owner'["static"] = h /\ owner'["ring"] = owner["ring"]
      BY <2>1, <2>14
    <3>2. Lock(h)'
      BY <3>1, <2>2 DEF Lock, InStep, Reads
    <3>3. Clock(h)'
      BY <3>1, <2>2, <2>3, <2>13 DEF Clock, Reads
    <3>4. Episodes(h)'
      BY <2>2, <2>3 DEF Episodes, Rows
    <3>5. RingInv(h)'
      BY <3>1, <2>2, <2>3, <2>4 DEF RingInv, Ended, Rows
    <3>6. StaticInv(h)'
      <4>1. Gathered(slots)' = [r \in DOMAIN slots' |-> [l \in DOMAIN slots'[r] |-> ring'[r][slots'[r][l]]]]
        BY DEF Gathered
      <4>2. slots' = slots
        BY <2>2 DEF Plan, Rows
      <4>3. Gathered(slots)' = Gathered(slots)
        BY <4>1, <4>2, <2>2 DEF Gathered
      <4>4. staticPlan'[h].plan = slots
        <5> HIDE DEF slots
        <5> QED
          BY <3>1
      <4>5. DOMAIN staticPlan'[h].plan = Rows(h)'
        BY <4>4, <2>5, <2>2 DEF Rows
      <4>6. Gathered(staticPlan[h].plan)' = Gathered(slots)
        BY <4>4, <2>2 DEF Gathered
      <4> QED
        BY <3>1, <2>2, <2>4, <2>6, <4>5, <4>6 DEF StaticInv
    <3>7. SeenInv(h)'
      <4> SUFFICES ASSUME ~Unlimited, NEW r \in Rows(h) PROVE seen'[r] = Due(h, r)'
        BY <2>2 DEF SeenInv, Rows
      <4> DEFINE start == episode[h][r].start
                 now == frame[h] - start
                 Past == {n \in 0..2 * now - 1 :
                            Unlimited \/ n \div 2 < Sinks \/ n \div 2 >= now - RecentFrames}
      <4>1. start \in Nat /\ now \in Nat
        BY <2>3, <2>10, <2>13 DEF Episodes
      <4>2. episode[h][r].stored = cacheIdx[h] - 2 * start
        BY <2>3, <2>10, <2>13, <4>1 DEF Episodes
      <4>3. seen'[r] = [l \in TransferHistory(episode[h][r].stored, limit) |-> Entry(h, start, l)]
        <5>1. Gathered(Plan(h, limit))[r]
                = [l \in TransferHistory(episode[h][r].stored, limit) |-> Entry(h, start, l)]
          BY <2>11, <2>12, GatheredIsDue
        <5> QED
          BY <5>1, <2>1, <2>6
      <4>4. /\ TransferHistory(2 * now, ControlLimit) = Past
            /\ TransferHistory(2 * now + 1, TargetLimit) = Past \cup {2 * now}
        BY <4>1, PlanIsPast
      <4>5. Due(h, r)' = [n \in IF next = "store control" THEN Past ELSE Past \cup {2 * now} |->
                            Entry(h, start, n)]
        BY <3>1, <2>2 DEF Due
      <4>6. CASE next = "store control"
        <5>1. cacheIdx[h] = 2 * frame[h] /\ limit = ControlLimit
          BY <4>6, <2>3 DEF Clock, Reads
        <5>2. episode[h][r].stored = 2 * now
          BY <5>1, <4>1, <4>2, <2>13
        <5> HIDE DEF start, now, Past
        <5> QED
          BY <4>3, <4>4, <4>5, <4>6, <5>1, <5>2
      <4>7. CASE next # "store control"
        <5>1. cacheIdx[h] = 2 * frame[h] + 1 /\ limit = TargetLimit
          BY <4>7, <2>3 DEF Clock, Reads
        <5>2. episode[h][r].stored = 2 * now + 1
          BY <5>1, <4>1, <4>2, <2>13
        <5> HIDE DEF start, now, Past
        <5> QED
          BY <4>3, <4>4, <4>5, <4>7, <5>1, <5>2
      <4> QED
        BY <4>6, <4>7
    <3> QED
      BY <3>2, <3>3, <3>4, <3>5, <3>6, <3>7 DEF GInv
  <2> QED
    BY <2>7, <2>8, <2>9 DEF IInv
<1> QED
  BY <1>1, <1>2

\* Where a store happens; the ring is checked as it is acquired.
MayStore(g) ==
    /\ pc[g] \in {"store control", "store target"}
    /\ cacheIdx[g] = 0 => ~HeldByOther("ring", g)

\* A store leaves the other generations that may be resumed alone, and the
\* ring as the invariant says.
LEMMA StoreStep ==
    ASSUME IInv, NEW h \in Gens, running = h, Store(h),
           MayStore(h)
    PROVE  /\ cacheIdx'[h] = cacheIdx[h] + 1
           /\ Episodes(h)' \/ frame'[h] # frame[h]
           /\ \A r \in Rows(h) : /\ rowReset'[h][r] = rowReset[h][r]
                                 /\ episode'[h][r].start = episode[h][r].start
                                 /\ episode'[h][r].stored = episode[h][r].stored + 1
           /\ staticPlan'[h] = NoPlan
           /\ owner'["ring"] = h
           /\ Rows(h)' = Rows(h)
           /\ DOMAIN ring' = Rows(h)
           /\ \A r \in Rows(h) : \A s \in filled'[h] : ring'[r][s].gen = h
           /\ \A r \in Rows(h) : \A l \in Held(episode'[h][r].stored) :
                 ring'[r][SlotOf(rowReset'[h][r], l)] = Entry(h, episode'[h][r].start, l)
           /\ \A g \in Gens \ {h} :
                 /\ ~(~Ended(g) /\ cacheIdx[g] > 0)
                 /\ cacheIdx'[g] = cacheIdx[g] /\ filled'[g] = filled[g]
                 /\ staticPlan'[g] = staticPlan[g] /\ episode'[g] = episode[g]
                 /\ batch'[g] = batch[g] /\ rowReset'[g] = rowReset[g]
                 /\ static' = static /\ owner'["static"] = owner["static"]
           /\ cacheIdx' \in [Gens -> Nat]
           /\ filled' \in [Gens -> SUBSET Slots]
           /\ owner' \in [{"ring", "static"} -> Gens \cup {None}]
           /\ staticPlan' = [g \in Gens |-> staticPlan'[g]]
           /\ episode' = [g \in Gens |-> episode'[g]]
           /\ \A g \in Gens : episode'[g] \in [Rows(g)' -> [start : Nat, stored : Nat]]
           /\ UNCHANGED <<batch, rowReset, runners>>
<1>1. /\ ring' = [r \in Rows(h) |->
                    [s \in Slots |->
                        IF s = CacheIndex(cacheIdx[h]) \/ Mirrored(h, r, s) THEN Stamp(h, r)
                        ELSE Acquired(h)[r][s]]]
      /\ owner' = [owner EXCEPT !["ring"] = h]
      /\ filled' = [filled EXCEPT ![h] = @ \cup {CacheIndex(cacheIdx[h])}]
      /\ staticPlan' = [staticPlan EXCEPT ![h] = NoPlan]
      /\ episode' = [episode EXCEPT ![h] = OneMore(h)]
      /\ cacheIdx' = [cacheIdx EXCEPT ![h] = @ + 1]
      /\ UNCHANGED <<batch, rowReset, overlap, static, runners, seen>>
  BY DEF Store
<1>2. /\ cacheIdx \in [Gens -> Nat] /\ filled \in [Gens -> SUBSET Slots]
      /\ owner \in [{"ring", "static"} -> Gens \cup {None}]
  BY DEF IInv, TypeInv
<1>22. staticPlan = [g \in Gens |-> staticPlan[g]] /\ episode = [g \in Gens |-> episode[g]]
  BY DEF IInv, TypeInv
<1>3. \A g \in Gens : episode[g] \in [Rows(g) -> [start : Nat, stored : Nat]]
  BY DEF IInv, TypeInv
<1>4. \A r \in Rows(h) : rowReset[h][r] \in Nat
  BY DEF IInv, TypeInv
<1>5. Episodes(h) /\ RingInv(h) /\ ~Ended(h)
  BY DEF IInv, GInv, Ended, MayStore
<1>6. cacheIdx[h] \in Nat /\ CacheIndex(cacheIdx[h]) \in Slots
  BY <1>2, CacheIndexInSlots
<1>7. \A g \in Gens : Rows(g)' = Rows(g)
  BY <1>1 DEF Rows
<1>9. episode'[h] = OneMore(h) /\ episode' = [g \in Gens |-> episode'[g]]
  BY <1>1, <1>22
<1>8. \A r \in Rows(h) :
         /\ episode'[h][r] \in [start : Nat, stored : Nat]
         /\ episode'[h][r].start = episode[h][r].start
         /\ episode'[h][r].stored = episode[h][r].stored + 1
  BY <1>9, <1>3 DEF OneMore
<1>10. \A g \in Gens \ {h} : episode'[g] = episode[g]
  BY <1>1, <1>22
<1>11. \A g \in Gens : episode'[g] \in [Rows(g)' -> [start : Nat, stored : Nat]]
  <2>1. episode'[h] \in [Rows(h)' -> [start : Nat, stored : Nat]]
    BY <1>7, <1>8, <1>9 DEF OneMore
  <2> QED
    BY <2>1, <1>3, <1>7, <1>10
<1>12. ASSUME NEW g \in Gens \ {h} PROVE ~(~Ended(g) /\ cacheIdx[g] > 0)
  <2> SUFFICES ASSUME ~Ended(g), cacheIdx[g] > 0 PROVE FALSE
    OBVIOUS
  <2>1. RingInv(g)
    BY DEF IInv, GInv
  <2>2. owner["ring"] = g /\ g # h /\ g # None
    BY <2>1, GenAssumption DEF RingInv
  <2>3. CASE cacheIdx[h] = 0
    <3>1. HeldByOther("ring", h)
      BY <2>2 DEF HeldByOther, Alive
    <3> QED
      BY <3>1, <2>3 DEF MayStore
  <2>4. CASE cacheIdx[h] # 0
    BY <2>2, <2>4, <1>5, <1>6 DEF RingInv
  <2> QED
    BY <2>3, <2>4
<1>13. cacheIdx[h] > 0 => DOMAIN ring = Rows(h) /\ Acquired(h) = ring
  BY <1>5 DEF RingInv, Acquired
<1>14. \A r \in Rows(h) : Stamp(h, r) = Entry(h, episode[h][r].start, episode[h][r].stored)
  BY DEF Stamp
<1>15. ASSUME NEW r \in Rows(h), NEW s \in filled'[h] PROVE ring'[r][s].gen = h
  <2>1. s \in Slots
    BY <1>1, <1>2, <1>6
  <2>2. Stamp(h, r).gen = h
    BY <1>14 DEF Entry
  <2>3. CASE s = CacheIndex(cacheIdx[h]) \/ Mirrored(h, r, s)
    BY <2>1, <2>2, <2>3, <1>1
  <2>4. CASE ~(s = CacheIndex(cacheIdx[h]) \/ Mirrored(h, r, s))
    <3>1. s \in filled[h]
      BY <2>4, <1>1, <1>2
    <3>2. cacheIdx[h] > 0
      BY <3>1, <1>5, <1>6 DEF RingInv
    <3>3. ring'[r][s] = ring[r][s]
      BY <2>1, <2>4, <3>2, <1>1, <1>13
    <3> QED
      BY <3>1, <3>2, <3>3, <1>5 DEF RingInv
  <2> QED
    BY <2>3, <2>4
<1>16. ASSUME NEW r \in Rows(h), NEW l \in Held(episode'[h][r].stored)
       PROVE  ring'[r][SlotOf(rowReset'[h][r], l)] = Entry(h, episode'[h][r].start, l)
  <2> DEFINE reset == rowReset[h][r]
             c == cacheIdx[h]
             slot == SlotOf(reset, l)
  <2>1. rowReset'[h][r] = reset
    BY <1>1
  <2>2. reset \in Nat /\ c \in Nat /\ episode[h][r].stored \in Nat
    BY <1>3, <1>4, <1>6
  <2>3. episode[h][r].stored = c - reset /\ reset <= c
    BY <2>2, <1>5 DEF Episodes
  <2>4. episode'[h][r].stored = c + 1 - reset
    BY <2>2, <2>3, <1>8
  <2>5. /\ slot \in Slots
        /\ l < c - reset =>
              /\ l \in Held(c - reset)
              /\ slot # CacheIndex(c)
              /\ reset > 0 /\ c - reset < SinkSize => slot # c - reset
        /\ l = c - reset =>
              \/ slot = CacheIndex(c)
              \/ reset > 0 /\ c - reset < SinkSize /\ slot = c - reset
        /\ l <= c - reset
    <3>1. ~Unlimited
      BY DEF Held
    <3> QED
      BY <3>1, <2>2, <2>3, <2>4, StoreKeeps
  <2>6. l \in Nat
    BY <2>2, <2>4 DEF Held
  <2>7. Mirrored(h, r, slot) <=> reset > 0 /\ slot = c - reset /\ slot < SinkSize
    BY DEF Mirrored
  <2>8. ring'[r][slot] = IF slot = CacheIndex(c) \/ Mirrored(h, r, slot) THEN Stamp(h, r)
                         ELSE Acquired(h)[r][slot]
    BY <2>5, <1>1
  <2> HIDE DEF reset, c, slot
  <2>9. CASE l = c - reset
    <3>1. ring'[r][slot] = Stamp(h, r)
      BY <2>5, <2>7, <2>8, <2>9
    <3> QED
      BY <3>1, <2>1, <2>3, <2>9, <1>8, <1>14 DEF slot
  <2>10. CASE l < c - reset
    <3>1. slot # CacheIndex(c) /\ ~Mirrored(h, r, slot) /\ l \in Held(c - reset)
      BY <2>5, <2>7, <2>10
    <3>2. c > 0
      BY <2>2, <2>6, <2>10
    <3>3. ring'[r][slot] = ring[r][slot]
      BY <3>1, <3>2, <2>8, <1>13 DEF c
    <3>4. ring[r][slot] = Entry(h, episode[h][r].start, l)
      BY <3>1, <3>2, <2>3, <1>5 DEF RingInv, c, reset, slot
    <3> QED
      BY <3>3, <3>4, <2>1, <1>8 DEF slot
  <2> QED
    BY <2>2, <2>5, <2>6, <2>9, <2>10
<1>17. Episodes(h)' \/ frame'[h] # frame[h]
  <2> SUFFICES ASSUME frame'[h] = frame[h], NEW r \in Rows(h)
               PROVE  /\ rowReset'[h][r] = 2 * episode'[h][r].start
                      /\ episode'[h][r].start <= frame'[h]
                      /\ rowReset'[h][r] + episode'[h][r].stored = cacheIdx'[h]
    BY <1>7 DEF Episodes
  <2>1. cacheIdx'[h] = cacheIdx[h] + 1 /\ rowReset'[h][r] = rowReset[h][r]
    BY <1>1, <1>2
  <2>2. episode[h][r].stored \in Nat /\ rowReset[h][r] \in Nat
    BY <1>3, <1>4
  <2> QED
    BY <2>1, <2>2, <1>5, <1>6, <1>8 DEF Episodes
<1>18. DOMAIN ring' = Rows(h)
  BY <1>1
<1>19. /\ cacheIdx'[h] = cacheIdx[h] + 1 /\ staticPlan'[h] = NoPlan
       /\ owner'["ring"] = h /\ owner'["static"] = owner["static"]
       /\ static' = static /\ rowReset' = rowReset /\ batch' = batch
       /\ \A g \in Gens \ {h} :
             cacheIdx'[g] = cacheIdx[g] /\ filled'[g] = filled[g] /\ staticPlan'[g] = staticPlan[g]
  BY <1>1, <1>2, <1>22
<1>20. /\ cacheIdx' \in [Gens -> Nat] /\ filled' \in [Gens -> SUBSET Slots]
       /\ owner' \in [{"ring", "static"} -> Gens \cup {None}]
       /\ staticPlan' = [g \in Gens |-> staticPlan'[g]]
       /\ episode' = [g \in Gens |-> episode'[g]]
  <2>1. cacheIdx' \in [Gens -> Nat]
    BY <1>1, <1>2
  <2>2. filled' \in [Gens -> SUBSET Slots]
    BY <1>1, <1>2, <1>6
  <2>3. owner' \in [{"ring", "static"} -> Gens \cup {None}]
    BY <1>1, <1>2
  <2>4. staticPlan' = [g \in Gens |-> staticPlan'[g]]
    BY <1>1, <1>22
  <2> QED
    BY <2>1, <2>2, <2>3, <2>4, <1>9
<1>21. UNCHANGED <<batch, rowReset, runners>>
  BY <1>1
<1> QED
  BY <1>7, <1>8, <1>10, <1>11, <1>12, <1>15, <1>16, <1>17, <1>18, <1>19, <1>20, <1>21

\* Where a store leads: the control's to the denoising forwards, the
\* refresh's to the next frame.
AfterStore(g) ==
    \/ /\ pc[g] = "store control" /\ UNCHANGED <<running, frame>>
       /\ pc' = [pc EXCEPT ![g] = "denoise"]
    \/ pc[g] = "store target" /\ Yield(g)

LEMMA StoreInv ==
    ASSUME IInv, NEW h \in Gens, running = h, Store(h), MayStore(h),
           AfterStore(h)
    PROVE  IInv'
<1>1. pc \in [Gens -> PcSet] /\ frame \in [Gens -> Nat]
  BY DEF IInv, TypeInv
<1>2. \/ /\ pc[h] = "store control" /\ pc' = [pc EXCEPT ![h] = "denoise"]
         /\ running' = running /\ frame' = frame
      \/ /\ pc[h] = "store target" /\ pc' = [pc EXCEPT ![h] = "yield"]
         /\ running' = None /\ frame' = [frame EXCEPT ![h] = @ + 1]
  BY DEF AfterStore, Yield, Goto
<1>3. /\ \A g \in Gens \ {h} : pc'[g] = pc[g] /\ frame'[g] = frame[g]
      /\ running' \in {None, h}
      /\ \/ /\ pc[h] = "store control" /\ pc'[h] = "denoise"
            /\ running' = h /\ frame'[h] = frame[h]
         \/ /\ pc[h] = "store target" /\ pc'[h] = "yield"
            /\ running' = None /\ frame'[h] = frame[h] + 1
  BY <1>1, <1>2
<1>4. pc' \in [Gens -> PcSet] /\ frame' \in [Gens -> Nat] /\ running' \in Gens \cup {None}
  <2>1. pc' \in [Gens -> PcSet]
    BY <1>1, <1>2 DEF PcSet, InStep
  <2>2. frame' \in [Gens -> Nat]
    <3>1. CASE frame' = frame
      BY <3>1, <1>1
    <3>2. CASE frame' = [frame EXCEPT ![h] = @ + 1]
      BY <3>2, <1>1
    <3> QED
      BY <3>1, <3>2, <1>2
  <2> QED
    BY <2>1, <2>2, <1>3
<1>5. TypeInv'
  <2>1. TypeInv
    BY DEF IInv
  <2> QED
    BY <1>4, <2>1, StoreStep DEF TypeInv, Rows
<1>6. ASSUME NEW g \in Gens \ {h} PROVE GInv(g)'
  <2>1. running # g /\ running' # g
    BY <1>3, GenAssumption
  <2>2. ~(~Ended(g) /\ cacheIdx[g] > 0)
    BY StoreStep
  <2>3. ~(~Ended(g) /\ staticPlan[g].at > 0)
    <3>1. StaticInv(g)
      BY DEF IInv, GInv
    <3> QED
      BY <2>2, <3>1 DEF StaticInv
  <2>4. /\ cacheIdx'[g] = cacheIdx[g] /\ filled'[g] = filled[g]
        /\ staticPlan'[g] = staticPlan[g] /\ episode'[g] = episode[g]
        /\ batch'[g] = batch[g] /\ rowReset'[g] = rowReset[g]
    BY StoreStep
  <2> QED
    BY <1>3, <2>1, <2>2, <2>3, <2>4, Untouched
<1>7. GInv(h)'
  <2>1. Clock(h) /\ Episodes(h) /\ Lock(h)
    BY DEF IInv, GInv
  <2>2. frame[h] \in Nat /\ cacheIdx[h] \in Nat /\ cacheIdx'[h] = cacheIdx[h] + 1
    BY StoreStep DEF IInv, TypeInv
  <2>3. Lock(h)'
    BY <1>3, GenAssumption DEF Lock, InStep
  <2>4. Clock(h)'
    <3>1. CASE pc[h] = "store control"
      BY <3>1, <1>3, <2>1, <2>2 DEF Clock
    <3>2. CASE pc[h] = "store target"
      <4>1. pc'[h] = "yield" /\ frame'[h] = frame[h] + 1
        BY <3>2, <1>3
      <4>2. cacheIdx[h] = 2 * frame[h] + 1
        BY <3>2, <2>1 DEF Clock
      <4>3. cacheIdx'[h] = 2 * frame'[h]
        BY <4>1, <4>2, <2>2
      <4> QED
        BY <4>1, <4>3 DEF Clock
    <3> QED
      BY <1>3, <3>1, <3>2
  <2>5. Episodes(h)'
    <3> SUFFICES ASSUME NEW r \in Rows(h)
                 PROVE  /\ rowReset'[h][r] = 2 * episode'[h][r].start
                        /\ episode'[h][r].start <= frame'[h]
                        /\ rowReset'[h][r] + episode'[h][r].stored = cacheIdx'[h]
      <4>1. Rows(h)' = Rows(h)
        BY StoreStep
      <4> QED
        BY <4>1 DEF Episodes
    <3>1. /\ episode[h][r].start \in Nat /\ episode[h][r].stored \in Nat /\ rowReset[h][r] \in Nat
      BY DEF IInv, TypeInv
    <3>2. /\ rowReset'[h][r] = rowReset[h][r] /\ episode'[h][r].start = episode[h][r].start
          /\ episode'[h][r].stored = episode[h][r].stored + 1
      BY StoreStep
    <3>3. frame'[h] >= frame[h] /\ frame'[h] \in Nat
      <4>1. frame'[h] = frame[h] \/ frame'[h] = frame[h] + 1
        BY <1>3
      <4> QED
        BY <4>1, <2>2
    <3> QED
      BY <3>1, <3>2, <3>3, <2>1, <2>2 DEF Episodes
  <2>6. RingInv(h)'
    <3>1. cacheIdx'[h] # 0
      BY <2>2
    <3>2. /\ owner'["ring"] = h /\ DOMAIN ring' = Rows(h)' /\ Rows(h)' = Rows(h)
          /\ \A r \in Rows(h) : \A s \in filled'[h] : ring'[r][s].gen = h
      BY StoreStep
    <3>3. \A r \in Rows(h) : \A l \in Held(episode'[h][r].stored) :
             ring'[r][SlotOf(rowReset'[h][r], l)] = Entry(h, episode'[h][r].start, l)
      BY StoreStep
    <3> QED
      BY <3>1, <3>2, <3>3 DEF RingInv
  <2>7. StaticInv(h)'
    <3>1. staticPlan'[h] = NoPlan
      BY StoreStep
    <3>2. NoPlan.at = 0
      BY DEF NoPlan
    <3> QED
      BY <3>1, <3>2 DEF StaticInv
  <2>8. SeenInv(h)'
    <3>1. pc'[h] \notin Read
      BY <1>3 DEF Read
    <3> QED
      BY <3>1 DEF SeenInv, Read
  <2> QED
    BY <2>3, <2>4, <2>5, <2>6, <2>7, <2>8 DEF GInv
<1> QED
  BY <1>5, <1>6, <1>7 DEF IInv

LEMMA StartStep ==
    ASSUME IInv, NEW h \in Gens, Start(h)
    PROVE  IInv'
<1>1. TypeInv /\ GInv(h) /\ h # None
  BY GenAssumption DEF IInv
<1>2. /\ pc' = [pc EXCEPT ![h] = "step"] /\ pc[h] = "new" /\ running = None /\ running' = h
      /\ \A g \in Gens : ~Ended(g) /\ owner["ring"] = g => owner'["ring"] = g
      /\ \A g \in Gens : ~Ended(g) /\ owner["static"] = g => owner'["static"] = g
      /\ owner' \in [{"ring", "static"} -> Gens \cup {None}]
      /\ runners' \in [Kinds -> Gens \cup {None}]
  BY <1>1, GenAssumption DEF TypeInv, Start, Goto
<1>3. UNCHANGED <<batch, frame, cacheIdx, rowReset, filled, staticPlan, ring, static, episode>>
  BY DEF Start
<1>4. TypeInv'
  BY <1>1, <1>2, <1>3 DEF TypeInv, PcSet, InStep, Rows
<1>5. ASSUME NEW g \in Gens \ {h} PROVE GInv(g)'
  <2>1. running # g /\ running' # g /\ pc'[g] = pc[g]
    BY <1>1, <1>2, GenAssumption DEF TypeInv
  <2>2. ~Ended(g) /\ cacheIdx[g] > 0 => owner'["ring"] = g /\ ring' = ring
    <3>1. RingInv(g)
      BY DEF IInv, GInv
    <3> QED
      BY <3>1, <1>2, <1>3 DEF RingInv
  <2>3. ~Ended(g) /\ staticPlan[g].at > 0 => owner'["static"] = g /\ static' = static
    <3>1. StaticInv(g)
      BY DEF IInv, GInv
    <3> QED
      BY <3>1, <1>2, <1>3 DEF StaticInv
  <2> QED
    BY <2>1, <2>2, <2>3, <1>3, Untouched
<1>6. GInv(h)'
  <2>1. pc'[h] = "step" /\ running' = h
    BY <1>1, <1>2 DEF TypeInv
  <2>2. cacheIdx[h] = 0 /\ frame[h] = 0 /\ filled[h] = {} /\ staticPlan[h] = NoPlan
    BY <1>1, <1>2 DEF GInv, Clock, TypeInv
  <2>3. Lock(h)' /\ SeenInv(h)'
    BY <2>1 DEF Lock, SeenInv, InStep, Read
  <2>4. Clock(h)'
    <3>1. cacheIdx'[h] = 0 /\ frame'[h] = 0
      BY <2>2, <1>3
    <3> QED
      BY <2>1, <3>1 DEF Clock
  <2>5. Episodes(h)'
    BY <1>1, <1>3 DEF GInv, Episodes, Rows
  <2>6. RingInv(h)'
    BY <2>2, <1>3 DEF RingInv
  <2>7. StaticInv(h)'
    <3>1. NoPlan.at = 0
      BY DEF NoPlan
    <3>2. staticPlan'[h] = NoPlan
      BY <2>2, <1>3
    <3> QED
      BY <3>1, <3>2 DEF StaticInv
  <2> QED
    BY <2>3, <2>4, <2>5, <2>6, <2>7 DEF GInv
<1> QED
  BY <1>4, <1>5, <1>6 DEF IInv

\* A generation that starts its next frame, or is dropped, keeps what it has.
LEMMA Moves ==
    ASSUME IInv, NEW h \in Gens, UNCHANGED <<genVars, poolVars>>, running \in {None, h},
           NEW label \in {"step", "closed"}, pc' = [pc EXCEPT ![h] = label],
           pc[h] = "yield", running' = IF label = "step" THEN h ELSE None,
           label = "step" => frame[h] < NumFrames
    PROVE  IInv'
<1>1. TypeInv' /\ \A g \in Gens \ {h} : GInv(g)'
  BY Elsewhere DEF PcSet, InStep
<1>2. GInv(h)'
  <2>1. GInv(h) /\ pc'[h] = label /\ h # None
    BY GenAssumption DEF IInv, TypeInv
  <2>2. /\ batch' = batch /\ frame' = frame /\ cacheIdx' = cacheIdx /\ rowReset' = rowReset
        /\ episode' = episode /\ filled' = filled /\ staticPlan' = staticPlan
        /\ ring' = ring /\ static' = static /\ owner' = owner
    BY DEF genVars, poolVars
  <2>3. Lock(h)' /\ SeenInv(h)'
    BY <2>1 DEF Lock, SeenInv, InStep, Read
  <2>4. Clock(h)'
    BY <2>1, <2>2 DEF GInv, Clock
  <2>5. Episodes(h)'
    BY <2>1, <2>2 DEF GInv, Episodes, Rows
  <2>6. RingInv(h)'
    BY <2>1, <2>2 DEF GInv, RingInv, Rows, Ended
  <2>7. StaticInv(h)'
    <3>1. StaticInv(h)
      BY <2>1 DEF GInv
    <3>2. Rows(h)' = Rows(h) /\ Gathered(staticPlan[h].plan)' = Gathered(staticPlan[h].plan)
      BY <2>2 DEF Rows, Gathered
    <3> QED
      BY <3>1, <3>2, <2>1, <2>2 DEF StaticInv, Ended, Gathered
  <2> QED
    BY <2>3, <2>4, <2>5, <2>6, <2>7 DEF GInv
<1> QED
  BY <1>1, <1>2 DEF IInv

\* The rows that restart have nothing to find yet.
LEMMA StepStep ==
    ASSUME IInv, NEW h \in Gens, running = h, NEW rows \in SUBSET Rows(h),
           Step(h, rows)
    PROVE  IInv'
<1>1. /\ pc[h] = "step" /\ pc' = [pc EXCEPT ![h] = "control"]
      /\ rowReset' = [rowReset EXCEPT ![h] = RestartAt(h, rows)]
      /\ episode' = [episode EXCEPT ![h] = Episode(h, rows)]
      /\ staticPlan' = [staticPlan EXCEPT ![h] = IF rows = {} THEN @ ELSE NoPlan]
      /\ UNCHANGED <<running, batch, frame, cacheIdx, overlap, filled, ring, static,
                     owner, runners, seen>>
  BY DEF Step, Goto
<1>2. TypeInv /\ GInv(h)
  BY DEF IInv
<1>3. /\ rowReset'[h] = RestartAt(h, rows) /\ episode'[h] = Episode(h, rows)
      /\ staticPlan'[h] = staticPlan[h] \/ staticPlan'[h] = NoPlan
      /\ pc'[h] = "control"
      /\ \A g \in Gens \ {h} : /\ rowReset'[g] = rowReset[g] /\ episode'[g] = episode[g]
                               /\ staticPlan'[g] = staticPlan[g] /\ pc'[g] = pc[g]
  BY <1>1, <1>2 DEF TypeInv
<1>4. cacheIdx[h] = 2 * frame[h] /\ cacheIdx[h] \in Nat /\ frame[h] \in Nat
  BY <1>1, <1>2 DEF GInv, Clock, TypeInv
<1>5. \A r \in Rows(h) :
         /\ rowReset[h][r] \in Nat /\ episode[h][r] \in [start : Nat, stored : Nat]
         /\ episode[h][r].start \in Nat /\ episode[h][r].stored \in Nat
  BY <1>2 DEF TypeInv
<1>6. \A r \in Rows(h) :
         /\ r \in rows => /\ rowReset'[h][r] = cacheIdx[h]
                          /\ episode'[h][r] = [start |-> frame[h], stored |-> 0]
                          /\ episode'[h][r].start = frame[h] /\ episode'[h][r].stored = 0
         /\ r \notin rows => rowReset'[h][r] = rowReset[h][r] /\ episode'[h][r] = episode[h][r]
  BY <1>3 DEF RestartAt, Episode
<1>7. TypeInv'
  <2>1. rowReset'[h] \in [Rows(h) -> Nat]
    BY <1>3, <1>4, <1>5 DEF RestartAt
  <2>2. episode'[h] \in [Rows(h) -> [start : Nat, stored : Nat]]
    BY <1>3, <1>4, <1>5 DEF Episode
  <2>3. pc' \in [Gens -> PcSet] /\ rowReset' = [g \in Gens |-> rowReset'[g]]
        /\ episode' = [g \in Gens |-> episode'[g]] /\ staticPlan' = [g \in Gens |-> staticPlan'[g]]
    BY <1>1, <1>2 DEF TypeInv, PcSet, InStep
  <2>4. \A g \in Gens : Rows(g)' = Rows(g)
    BY <1>1 DEF Rows
  <2>5. \A g \in Gens : /\ rowReset'[g] \in [Rows(g)' -> Nat]
                        /\ episode'[g] \in [Rows(g)' -> [start : Nat, stored : Nat]]
    BY <2>1, <2>2, <2>4, <1>2, <1>3 DEF TypeInv
  <2> QED
    BY <2>3, <2>5, <1>1, <1>2 DEF TypeInv
<1>8. ASSUME NEW g \in Gens \ {h} PROVE GInv(g)'
  <2>1. running # g /\ running' # g
    BY <1>1
  <2>2. ~Ended(g) /\ cacheIdx[g] > 0 => owner'["ring"] = g /\ ring' = ring
    <3>1. RingInv(g)
      BY DEF IInv, GInv
    <3> QED
      BY <3>1, <1>1 DEF RingInv
  <2>3. ~Ended(g) /\ staticPlan[g].at > 0 => owner'["static"] = g /\ static' = static
    <3>1. StaticInv(g)
      BY DEF IInv, GInv
    <3> QED
      BY <3>1, <1>1 DEF StaticInv
  <2> QED
    BY <2>1, <2>2, <2>3, <1>1, <1>3, Untouched
<1>9. GInv(h)'
  <2>1. Lock(h)' /\ SeenInv(h)'
    BY <1>1, <1>3 DEF Lock, SeenInv, InStep, Read
  <2>2. Clock(h)'
    BY <1>1, <1>3, <1>4 DEF Clock
  <2>3. Rows(h)' = Rows(h)
    BY <1>1 DEF Rows
  <2>4. Episodes(h)
    BY <1>2 DEF GInv
  <2>5. Episodes(h)'
    <3> SUFFICES ASSUME NEW r \in Rows(h)
                 PROVE  /\ rowReset'[h][r] = 2 * episode'[h][r].start
                        /\ episode'[h][r].start <= frame[h]
                        /\ rowReset'[h][r] + episode'[h][r].stored = cacheIdx[h]
      BY <2>3, <1>1 DEF Episodes
    <3>1. CASE r \in rows
      BY <3>1, <1>4, <1>6
    <3>2. CASE r \notin rows
      BY <3>2, <1>6, <2>4 DEF Episodes
    <3> QED
      BY <3>1, <3>2
  <2>6. ~Ended(h) /\ RingInv(h)
    BY <1>1, <1>2 DEF GInv, Ended
  <2>7. RingInv(h)'
    <3>1. cacheIdx[h] = 0 => filled'[h] = {}
      BY <2>6, <1>1 DEF RingInv
    <3>2. ASSUME cacheIdx[h] > 0
          PROVE  /\ owner["ring"] = h
                 /\ DOMAIN ring = Rows(h)
                 /\ \A r \in Rows(h) : \A s \in filled[h] : ring[r][s].gen = h
                 /\ \A r \in Rows(h) : \A l \in Held(episode'[h][r].stored) :
                      ring[r][SlotOf(rowReset'[h][r], l)] = Entry(h, episode'[h][r].start, l)
      <4>1. /\ owner["ring"] = h
            /\ DOMAIN ring = Rows(h)
            /\ \A r \in Rows(h) : \A s \in filled[h] : ring[r][s].gen = h
            /\ \A r \in Rows(h) : \A l \in Held(episode[h][r].stored) :
                 ring[r][SlotOf(rowReset[h][r], l)] = Entry(h, episode[h][r].start, l)
        BY <3>2, <2>6 DEF RingInv
      <4>2. ASSUME NEW r \in Rows(h), NEW l \in Held(episode'[h][r].stored)
            PROVE  ring[r][SlotOf(rowReset'[h][r], l)] = Entry(h, episode'[h][r].start, l)
        <5>1. CASE r \in rows
          <6>1. Held(0) = {}
            BY DEF Held
          <6> QED
            BY <6>1, <5>1, <1>6
        <5>2. CASE r \notin rows
          BY <5>2, <4>1, <1>6
        <5> QED
          BY <5>1, <5>2
      <4> QED
        BY <4>1, <4>2
    <3> QED
      BY <3>1, <3>2, <2>3, <1>1 DEF RingInv
  <2>8. StaticInv(h)'
    <3>1. NoPlan.at = 0
      BY DEF NoPlan
    <3>2. CASE staticPlan'[h] = NoPlan
      BY <3>1, <3>2 DEF StaticInv
    <3>3. CASE staticPlan'[h] = staticPlan[h]
      <4>1. StaticInv(h)
        BY <1>2 DEF GInv
      <4>2. Gathered(staticPlan[h].plan)' = Gathered(staticPlan[h].plan)
        BY <1>1, <3>3 DEF Gathered
      <4> QED
        BY <4>1, <4>2, <3>3, <2>3, <2>6, <1>1 DEF StaticInv, Gathered
    <3> QED
      BY <3>2, <3>3, <1>3
  <2> QED
    BY <2>1, <2>2, <2>5, <2>7, <2>8 DEF GInv
<1> QED
  BY <1>7, <1>8, <1>9 DEF IInv

LEMMA EagerStep ==
    ASSUME IInv, NEW h \in Gens, running = h, EagerControl(h)
    PROVE  IInv'
<1>1. /\ pc[h] = "control" /\ cacheIdx[h] = 0
      /\ seen' = [r \in Rows(h) |-> <<>>]
      /\ pc' = [pc EXCEPT ![h] = "store control"]
      /\ UNCHANGED <<running, genVars, poolVars>>
  BY DEF EagerControl, Goto
<1>2. TypeInv' /\ \A g \in Gens \ {h} : GInv(g)'
  BY <1>1, Elsewhere DEF PcSet, InStep
<1>3. GInv(h) /\ pc'[h] = "store control"
  BY <1>1 DEF IInv, TypeInv
<1>4. /\ batch' = batch /\ frame' = frame /\ cacheIdx' = cacheIdx /\ rowReset' = rowReset
      /\ episode' = episode /\ filled' = filled /\ staticPlan' = staticPlan
      /\ ring' = ring /\ static' = static /\ owner' = owner /\ running' = running
  BY <1>1 DEF genVars, poolVars
<1>5. Lock(h)' /\ Clock(h)'
  BY <1>1, <1>3, <1>4 DEF GInv, Lock, Clock, InStep
<1>6. Episodes(h)'
  BY <1>3, <1>4 DEF GInv, Episodes, Rows
<1>7. RingInv(h)'
  BY <1>1, <1>3, <1>4 DEF GInv, RingInv, Rows, Ended
<1>8. StaticInv(h)'
  <2>1. StaticInv(h)
    BY <1>3 DEF GInv
  <2>2. Rows(h)' = Rows(h) /\ Gathered(staticPlan[h].plan)' = Gathered(staticPlan[h].plan)
    BY <1>4 DEF Rows, Gathered
  <2> QED
    BY <1>1, <1>3, <1>4, <2>1, <2>2 DEF StaticInv, Ended, Gathered
<1>9. SeenInv(h)'
  <2> SUFFICES ASSUME NEW r \in Rows(h) PROVE seen'[r] = Due(h, r)'
    BY <1>4 DEF SeenInv, Rows
  <2>1. frame[h] \in Nat /\ episode[h][r].start \in Nat
    BY DEF IInv, TypeInv
  <2>2. cacheIdx[h] = 2 * frame[h]
    BY <1>1, <1>3 DEF GInv, Clock
  <2>3. frame[h] = 0
    <3>1. cacheIdx[h] = 0
      BY <1>1
    <3> QED
      BY <3>1, <2>1, <2>2
  <2>4. episode[h][r].start <= frame[h]
    BY <1>3 DEF GInv, Episodes
  <2>5. episode[h][r].start = 0
    BY <2>1, <2>3, <2>4
  <2> DEFINE Past == {n \in 0..2 * (0 - 0) - 1 :
                        Unlimited \/ n \div 2 < Sinks \/ n \div 2 >= (0 - 0) - RecentFrames}
  <2>6. Due(h, r)' = [n \in Past |-> Entry(h, 0, n)]
    BY <1>3, <1>4, <2>3, <2>5 DEF Due
  <2>7. Past = {}
    OBVIOUS
  <2>8. seen'[r] = <<>>
    BY <1>1
  <2> HIDE DEF Past
  <2>9. [n \in Past |-> Entry(h, 0, n)] = <<>>
    BY <2>7
  <2> QED
    BY <2>6, <2>8, <2>9
<1> QED
  BY <1>2, <1>5, <1>6, <1>7, <1>8, <1>9 DEF IInv, GInv

LEMMA ControlStep ==
    ASSUME IInv, NEW h \in Gens, running = h, Control(h)
    PROVE  IInv'
<1>1. CASE EagerControl(h)
  BY <1>1, EagerStep
<1>2. CASE /\ pc[h] = "control" /\ cacheIdx[h] > 0
           /\ Forward(h, "refresh control", ControlLimit, "store control")
  <2>1. Reads(h, ControlLimit, "store control")
    BY <1>2 DEF Reads
  <2> QED
    BY <1>2, <2>1, ForwardStep DEF Kinds
<1> QED
  BY <1>1, <1>2 DEF Control

LEMMA LastFrameStep ==
    ASSUME IInv, NEW h \in Gens, running = h, LastFrame(h)
    PROVE  IInv'
<1>1. /\ pc[h] = "denoised" /\ frame[h] = NumFrames - 1
      /\ frame' = [frame EXCEPT ![h] = @ + 1] /\ running' = None
      /\ pc' = [pc EXCEPT ![h] = "yield"]
      /\ UNCHANGED <<batch, cacheIdx, rowReset, episode, overlap, poolVars, seen>>
  BY DEF LastFrame, Yield, Goto
<1>2. TypeInv /\ GInv(h) /\ h # None
  BY GenAssumption DEF IInv
<1>3. /\ batch' = batch /\ cacheIdx' = cacheIdx /\ rowReset' = rowReset
      /\ episode' = episode /\ filled' = filled /\ staticPlan' = staticPlan
      /\ ring' = ring /\ static' = static /\ owner' = owner /\ runners' = runners
  BY <1>1 DEF poolVars
<1>4. frame[h] \in Nat /\ frame'[h] = frame[h] + 1 /\ pc'[h] = "yield" /\ NumFrames \in Nat
      /\ \A g \in Gens \ {h} : frame'[g] = frame[g] /\ pc'[g] = pc[g]
  BY <1>1, <1>2, CacheAssumption DEF TypeInv
<1>5. TypeInv'
  <2>1. frame' \in [Gens -> Nat]
    BY <1>1, <1>2, <1>4 DEF TypeInv
  <2> QED
    BY <2>1, <1>1, <1>2, <1>3 DEF TypeInv, PcSet, InStep, Rows
<1>6. ASSUME NEW g \in Gens \ {h} PROVE GInv(g)'
  <2>1. running # g /\ running' # g
    BY <1>1, GenAssumption
  <2>2. RingInv(g) /\ StaticInv(g)
    BY DEF IInv, GInv
  <2>3. /\ ~Ended(g) /\ cacheIdx[g] > 0 => owner'["ring"] = g /\ ring' = ring
        /\ ~Ended(g) /\ staticPlan[g].at > 0 => owner'["static"] = g /\ static' = static
    BY <2>2, <1>3 DEF RingInv, StaticInv
  <2> QED
    BY <2>1, <2>3, <1>3, <1>4, Untouched
<1>7. GInv(h)'
  <2>1. ~(frame'[h] < NumFrames)
    BY <1>1, <1>4
  <2>2. Lock(h)' /\ SeenInv(h)'
    BY <1>1, <1>2, <1>4 DEF Lock, SeenInv, InStep, Read
  <2>3. Clock(h)'
    BY <2>1, <1>4 DEF Clock
  <2>4. Episodes(h)'
    <3> SUFFICES ASSUME NEW r \in Rows(h) PROVE episode[h][r].start <= frame'[h]
      BY <1>2, <1>3 DEF GInv, Episodes, Rows
    <3>1. episode[h][r].start \in Nat /\ episode[h][r].start <= frame[h]
      BY <1>2 DEF GInv, Episodes, TypeInv
    <3> QED
      BY <3>1, <1>4
  <2>5. ~Ended(h) /\ RingInv(h) /\ StaticInv(h)
    BY <1>1, <1>2 DEF GInv, Ended
  <2>6. RingInv(h)'
    BY <2>5, <1>3 DEF RingInv, Rows
  <2>7. StaticInv(h)'
    <3>1. Rows(h)' = Rows(h) /\ Gathered(staticPlan[h].plan)' = Gathered(staticPlan[h].plan)
      BY <1>3 DEF Rows, Gathered
    <3> QED
      BY <3>1, <2>5, <1>3 DEF StaticInv, Gathered
  <2> QED
    BY <2>2, <2>3, <2>4, <2>6, <2>7 DEF GInv
<1> QED
  BY <1>5, <1>6, <1>7 DEF IInv

----------------------------------------------------------------------------
(* The theorems.                                                           *)

LEMMA NextInv ==
    ASSUME IInv, [Next]_vars
    PROVE  IInv'
<1>1. \A g \in Gens : pc[g] \in InStep => running = g
  BY DEF IInv, GInv, Lock
<1>2. ASSUME NEW g \in Gens, Start(g) PROVE IInv'
  BY <1>2, StartStep
<1>3. ASSUME NEW g \in Gens, Resume(g) PROVE IInv'
  BY <1>3, Moves DEF Resume, Suspended, Goto
<1>4. ASSUME NEW g \in Gens, Close(g) PROVE IInv'
  BY <1>4, Moves DEF Close, Suspended, Goto
<1>5. ASSUME NEW g \in Gens, NEW rows \in SUBSET Rows(g), Step(g, rows) PROVE IInv'
  BY <1>1, <1>5, StepStep DEF Step, InStep
<1>6. ASSUME NEW g \in Gens, Control(g) PROVE IInv'
  BY <1>1, <1>6, ControlStep DEF Control, EagerControl, InStep
<1>7. ASSUME NEW g \in Gens, StoreControl(g) PROVE IInv'
  <2>1. running = g /\ pc[g] = "store control"
    BY <1>1, <1>7 DEF StoreControl, InStep
  <2>2. CASE Fail(g)
    BY <2>1, <2>2, FailStep
  <2>3. CASE ~HeldByOther("ring", g) /\ Store(g) /\ Goto(g, "denoise") /\ UNCHANGED <<running, frame>>
    BY <2>1, <2>3, StoreInv DEF MayStore, AfterStore, Goto
  <2> QED
    BY <1>7, <2>2, <2>3 DEF StoreControl
<1>8. ASSUME NEW g \in Gens, Denoise(g) PROVE IInv'
  <2>1. running = g /\ Forward(g, "denoise", TargetLimit, "denoised")
        /\ Reads(g, TargetLimit, "denoised")
    BY <1>1, <1>8 DEF Denoise, InStep, Reads
  <2> QED
    BY <2>1, ForwardStep DEF Kinds
<1>9. ASSUME NEW g \in Gens, Refresh(g) PROVE IInv'
  <2>1. running = g /\ Forward(g, "refresh target", TargetLimit, "store target")
        /\ Reads(g, TargetLimit, "store target")
    BY <1>1, <1>9 DEF Refresh, InStep, Reads
  <2> QED
    BY <2>1, ForwardStep DEF Kinds
<1>10. ASSUME NEW g \in Gens, StoreTarget(g) PROVE IInv'
  <2>1. running = g /\ pc[g] = "store target" /\ Store(g) /\ Yield(g)
    BY <1>1, <1>10 DEF StoreTarget, InStep
  <2>2. cacheIdx[g] # 0
    <3>1. Clock(g) /\ frame[g] \in Nat
      BY DEF IInv, GInv, TypeInv
    <3>2. cacheIdx[g] = 2 * frame[g] + 1
      BY <2>1, <3>1 DEF Clock
    <3> QED
      BY <3>1, <3>2
  <2> QED
    BY <2>1, <2>2, StoreInv DEF MayStore, AfterStore
<1>11. ASSUME NEW g \in Gens, LastFrame(g) PROVE IInv'
  BY <1>1, <1>11, LastFrameStep DEF LastFrame, InStep
<1>12. ASSUME UNCHANGED vars PROVE IInv'
  <2>1. /\ pc' = pc /\ running' = running /\ batch' = batch /\ frame' = frame
        /\ cacheIdx' = cacheIdx /\ rowReset' = rowReset /\ filled' = filled
        /\ staticPlan' = staticPlan /\ ring' = ring /\ static' = static /\ owner' = owner
        /\ runners' = runners /\ episode' = episode /\ seen' = seen
    BY <1>12 DEF vars, genVars, poolVars
  <2>2. TypeInv'
    BY <2>1 DEF IInv, TypeInv, Rows
  <2>3. ASSUME NEW g \in Gens PROVE GInv(g)'
    <3>1. GInv(g)
      BY DEF IInv
    <3>2. Lock(g)' /\ Clock(g)' /\ Episodes(g)'
      BY <2>1, <3>1 DEF GInv, Lock, Clock, Episodes, Rows
    <3>3. RingInv(g)'
      BY <2>1, <3>1 DEF GInv, RingInv, Rows, Ended
    <3>4. StaticInv(g)'
      BY <2>1, <3>1 DEF GInv, StaticInv, Rows, Ended, Gathered
    <3>5. SeenInv(g)'
      <4>1. Rows(g)' = Rows(g) /\ pc'[g] = pc[g]
        BY <2>1 DEF Rows
      <4>2. ASSUME NEW r PROVE Due(g, r)' = Due(g, r)
        BY <2>1 DEF Due
      <4> QED
        BY <2>1, <3>1, <4>1, <4>2 DEF GInv, SeenInv
    <3> QED
      BY <3>2, <3>3, <3>4, <3>5 DEF GInv
  <2> QED
    BY <2>2, <2>3 DEF IInv
<1> QED
  BY <1>2, <1>3, <1>4, <1>5, <1>6, <1>7, <1>8, <1>9, <1>10, <1>11, <1>12 DEF Next

(***************************************************************************)
(* With a finite window, whatever its size, the number of sinks, of rows,  *)
(* of frames, of restarts and of generations, a forward attends to exactly *)
(* the window of the current episode of each row.                          *)
(***************************************************************************)
THEOREM AttendsToItsEpisodeCorrect ==
    ASSUME ~Unlimited
    PROVE  Spec => []AttendsToItsEpisode
<1>1. Init => IInv
  BY InitInv
<1>2. IInv /\ [Next]_vars => IInv'
  BY NextInv
<1>3. IInv => AttendsToItsEpisode
  BY DEF IInv, GInv, SeenInv, AttendsToItsEpisode
<1> QED
  BY <1>1, <1>2, <1>3, PTL DEF Spec

(***************************************************************************)
(* No two generations that may still run have their entries in the pooled  *)
(* ring at a time.                                                         *)
(***************************************************************************)
THEOREM RingHasOneOwnerCorrect == Spec => []RingHasOneOwner
<1>1. Init => IInv
  BY InitInv
<1>2. IInv /\ [Next]_vars => IInv'
  BY NextInv
<1>3. IInv => RingHasOneOwner
  <2> SUFFICES ASSUME IInv, NEW g \in Gens, ~Ended(g), filled[g] # {}
               PROVE  /\ owner["ring"] = g
                      /\ \A r \in DOMAIN ring : \A s \in filled[g] : ring[r][s].gen = g
    BY DEF RingHasOneOwner
  <2>1. RingInv(g) /\ cacheIdx[g] \in Nat
    BY DEF IInv, GInv, TypeInv
  <2> QED
    BY <2>1 DEF RingInv
<1> QED
  BY <1>1, <1>2, <1>3, PTL DEF Spec

----------------------------------------------------------------------------
(* Who fails.  A generation that started alone stays alone in the pool: any *)
(* other that starts while it lives is refused the ring at the first entry  *)
(* it stores, before a graph is captured for it.                            *)

FirstFrame == {"step", "control", "store control"}

\* The slots that have been stored to.
FilledInv(g) == filled[g] = {CacheIndex(i) : i \in 0..cacheIdx[g] - 1}

Alone(g) ==
    ~Ended(g) /\ ~overlap[g] =>
        /\ \A k \in Kinds : runners[k] \in {None, g}
        /\ owner["ring"] \in {None, g} /\ owner["static"] \in {None, g}
        /\ \A h \in Gens \ {g} : ~Ended(h) =>
              /\ pc[h] \in FirstFrame /\ cacheIdx[h] = 0 /\ overlap[h]
              /\ cacheIdx[g] > 0

AloneInv ==
    /\ overlap \in [Gens -> BOOLEAN]
    /\ \A g \in Gens :
          /\ FilledInv(g) /\ Alone(g)
          /\ Suspended(g) => cacheIdx[g] > 0
          /\ pc[g] = "failed" => overlap[g]

\* A generation that started alone is alive besides h.
Intrudes(h) == \E g \in Gens \ {h} : ~Ended(g) /\ ~overlap[g]

LEMMA IntruderRefused ==
    ASSUME IInv, AloneInv, NEW h \in Gens, ~Ended(h), Intrudes(h)
    PROVE  pc[h] \in FirstFrame /\ cacheIdx[h] = 0 /\ overlap[h] /\ HeldByOther("ring", h)
<1>1. PICK g \in Gens \ {h} : ~Ended(g) /\ ~overlap[g]
  BY DEF Intrudes
<1>2. Alone(g)
  BY DEF AloneInv
<1>3. pc[h] \in FirstFrame /\ cacheIdx[h] = 0 /\ overlap[h] /\ cacheIdx[g] > 0
  BY <1>1, <1>2 DEF Alone
<1>4. owner["ring"] = g
  <2>1. RingInv(g)
    BY DEF IInv, GInv
  <2> QED
    BY <1>1, <1>3, <2>1 DEF RingInv
<1> QED
  BY <1>1, <1>3, <1>4, GenAssumption DEF HeldByOther, Alive

\* A generation that is alone has its graphs, the static buffer and every slot
\* its plan names to itself.
LEMMA AloneReads ==
    ASSUME IInv, AloneInv, NEW h \in Gens, ~Ended(h), ~overlap[h],
           NEW kind \in Kinds, NEW limit \in {ControlLimit, TargetLimit}
    PROVE  Readable(h, kind, Plan(h, limit))
<1>1. Alone(h) /\ FilledInv(h) /\ Episodes(h)
  BY DEF AloneInv, IInv, GInv
<1>2. runners[kind] \in {None, h} /\ ~HeldByOther("static", h)
  BY <1>1 DEF Alone, HeldByOther
<1>3. ASSUME NEW r \in Rows(h), NEW l \in DOMAIN Plan(h, limit)[r]
      PROVE  Plan(h, limit)[r][l] \in filled[h]
  <2>1. PICK c \in Nat, n \in Nat, reset \in Nat :
            /\ c = cacheIdx[h] /\ n = episode[h][r].stored /\ reset = rowReset[h][r]
            /\ reset + n = c
    BY <1>1 DEF IInv, TypeInv, Episodes
  <2>2. \A i \in 0..c - 1 : CacheIndex(i) \in filled[h]
    BY <1>1, <2>1 DEF FilledInv
  <2>3. CASE Unlimited
    <3>1. Plan(h, limit)[r] = SharedHistorySlots(c)
      BY <2>1, <2>3 DEF Plan
    <3>2. l \in 0..c - 1 /\ Plan(h, limit)[r][l] = CacheIndex(l)
      BY <3>1 DEF SharedHistorySlots, HistoryFrameIndices
    <3> QED
      BY <2>2, <3>2
  <2>4. CASE ~Unlimited
    <3>1. Plan(h, limit)[r] = RowHistorySlots(reset, c, limit)
      BY <2>1, <2>4 DEF Plan
    <3>2. c - reset = n
      BY <2>1
    <3>3. /\ l \in TransferHistory(n, limit)
          /\ Plan(h, limit)[r][l] = SlotOf(reset, l)
      BY <3>1, <3>2 DEF RowHistorySlots, SlotOf
    <3>4. l \in 0..n - 1
      BY <2>4, <3>3, PlanEntries
    <3>5. CASE reset > 0 /\ l < SinkSize
      <4>1. l \in 0..c - 1 /\ l \in Nat
        BY <2>1, <3>4
      <4>2. CacheIndex(l) = l
        BY <2>4, <3>5, <4>1, CacheIndexRange
      <4> QED
        BY <2>2, <3>3, <3>5, <4>1, <4>2 DEF SlotOf
    <3>6. CASE ~(reset > 0 /\ l < SinkSize)
      <4>1. reset + l \in 0..c - 1
        BY <2>1, <3>4
      <4> QED
        BY <2>2, <3>3, <3>6, <4>1 DEF SlotOf
    <3> QED
      BY <3>5, <3>6
  <2> QED
    BY <2>3, <2>4
<1>4. DOMAIN Plan(h, limit) = Rows(h)
  BY DEF Plan
<1> QED
  BY <1>2, <1>3 DEF Readable

\* A step of a generation that is alive: it may bind graphs and buffers to
\* itself unless it intrudes.
LEMMA StepAlone ==
    ASSUME IInv, AloneInv, NEW h \in Gens, ~Ended(h),
           NEW label \in PcSet \ {"new"}, pc' = [pc EXCEPT ![h] = label],
           overlap' = overlap,
           \A g \in Gens \ {h} : filled'[g] = filled[g] /\ cacheIdx'[g] = cacheIdx[g],
           FilledInv(h)', cacheIdx'[h] \in Nat, cacheIdx'[h] >= cacheIdx[h],
           \A k \in Kinds : runners'[k] \in {runners[k], h},
           \A k \in {"ring", "static"} : owner'[k] \in {owner[k], h},
           label = "yield" => cacheIdx'[h] > 0,
           label = "failed" => overlap[h],
           Intrudes(h) => /\ label \in FirstFrame \cup {"closed", "failed"}
                          /\ cacheIdx'[h] = 0 /\ runners' = runners /\ owner' = owner
    PROVE  AloneInv'
<1>1. pc'[h] = label /\ \A g \in Gens \ {h} : pc'[g] = pc[g]
  BY DEF IInv, TypeInv
<1>2. ASSUME NEW g \in Gens PROVE FilledInv(g)'
  <2>1. CASE g # h
    BY <2>1 DEF AloneInv, FilledInv
  <2> QED
    BY <2>1
<1>3. ASSUME NEW g \in Gens
      PROVE  (Suspended(g) => cacheIdx[g] > 0)' /\ (pc'[g] = "failed" => overlap'[g])
  BY <1>1 DEF AloneInv, Suspended
<1>4. ASSUME NEW g \in Gens PROVE Alone(g)'
  <2> SUFFICES ASSUME ~Ended(g)', ~overlap[g] PROVE Alone(g)'
    BY DEF Alone
  <2>1. Alone(g)
    BY DEF AloneInv
  <2>2. CASE g = h
    <3>1. /\ \A k \in Kinds : runners[k] \in {None, h}
          /\ owner["ring"] \in {None, h} /\ owner["static"] \in {None, h}
          /\ \A f \in Gens \ {h} : ~Ended(f) =>
                pc[f] \in FirstFrame /\ cacheIdx[f] = 0 /\ overlap[f] /\ cacheIdx[h] > 0
      BY <2>1, <2>2 DEF Alone
    <3>2. /\ \A k \in Kinds : runners'[k] \in {None, h}
          /\ owner'["ring"] \in {None, h} /\ owner'["static"] \in {None, h}
      BY <3>1
    <3>3. ASSUME NEW f \in Gens \ {h}, ~Ended(f)'
          PROVE  pc'[f] \in FirstFrame /\ cacheIdx'[f] = 0 /\ overlap'[f] /\ cacheIdx'[h] > 0
      <4>1. ~Ended(f)
        BY <1>1, <3>3 DEF Ended
      <4>2. cacheIdx[h] \in Nat
        BY DEF IInv, TypeInv
      <4> QED
        BY <1>1, <3>1, <4>1, <4>2
    <3> QED
      BY <2>2, <3>2, <3>3 DEF Alone
  <2>3. CASE g # h
    <3>1. ~Ended(g) /\ Intrudes(h)
      BY <1>1, <2>3 DEF Ended, Intrudes
    <3>2. /\ \A k \in Kinds : runners'[k] \in {None, g}
          /\ owner'["ring"] \in {None, g} /\ owner'["static"] \in {None, g}
      BY <2>1, <3>1 DEF Alone
    <3>3. overlap[h] /\ cacheIdx[g] > 0
      BY <2>1, <2>3, <3>1 DEF Alone
    <3>4. ASSUME NEW f \in Gens \ {g}, ~Ended(f)'
          PROVE  pc'[f] \in FirstFrame /\ cacheIdx'[f] = 0 /\ overlap'[f] /\ cacheIdx'[g] > 0
      <4>1. CASE f = h
        BY <1>1, <2>3, <3>1, <3>3, <3>4, <4>1 DEF Ended
      <4>2. CASE f # h
        BY <1>1, <2>1, <2>3, <3>1, <3>4, <4>2 DEF Alone, Ended
      <4> QED
        BY <4>1, <4>2
    <3> QED
      BY <3>2, <3>4 DEF Alone
  <2> QED
    BY <2>2, <2>3
<1> QED
  BY <1>2, <1>3, <1>4 DEF AloneInv

LEMMA InitAlone == Init => AloneInv
<1> SUFFICES ASSUME Init PROVE AloneInv
  OBVIOUS
<1>1. ASSUME NEW g \in Gens
      PROVE  pc[g] = "new" /\ filled[g] = {} /\ cacheIdx[g] = 0 /\ 0..cacheIdx[g] - 1 = {}
  BY DEF Init
<1>2. overlap \in [Gens -> BOOLEAN]
  BY DEF Init
<1> QED
  BY <1>1, <1>2 DEF AloneInv, FilledInv, Alone, Suspended, Ended

LEMMA StartAlone ==
    ASSUME IInv, AloneInv, NEW h \in Gens, Start(h)
    PROVE  AloneInv'
<1>1. /\ running = None /\ pc[h] = "new" /\ pc' = [pc EXCEPT ![h] = "step"]
      /\ runners' = [k \in Kinds |-> None]
      /\ owner' = [k \in DOMAIN owner |->
                      IF owner[k] # None /\ ~Ended(owner[k]) THEN owner[k] ELSE None]
      /\ overlap' = [overlap EXCEPT ![h] = \E g \in Gens : ~Ended(g)]
      /\ UNCHANGED <<cacheIdx, filled>>
  BY DEF Start, Goto
<1>2. pc'[h] = "step" /\ \A g \in Gens \ {h} : pc'[g] = pc[g] /\ overlap'[g] = overlap[g]
  BY <1>1 DEF IInv, TypeInv, AloneInv
<1>3. /\ overlap' \in [Gens -> BOOLEAN]
      /\ overlap'[h] = \E g \in Gens : ~Ended(g)
  BY <1>1 DEF AloneInv
<1>4. DOMAIN owner = {"ring", "static"} /\ \A k \in DOMAIN owner : owner[k] \in Gens \cup {None}
  BY DEF IInv, TypeInv
<1>5. Ended(h) /\ cacheIdx[h] = 0
  <2>1. Clock(h)
    BY DEF IInv, GInv
  <2> QED
    BY <1>1, <2>1 DEF Clock, Ended
<1>6. ASSUME NEW g \in Gens
      PROVE  /\ FilledInv(g)' /\ (Suspended(g) => cacheIdx[g] > 0)'
             /\ pc'[g] = "failed" => overlap'[g]
  <2>1. FilledInv(g) /\ (Suspended(g) => cacheIdx[g] > 0) /\ (pc[g] = "failed" => overlap[g])
    BY DEF AloneInv
  <2> QED
    BY <1>1, <1>2, <2>1 DEF FilledInv, Suspended
<1>7. ASSUME NEW g \in Gens, ~Ended(g)', ~overlap'[g] PROVE Alone(g)'
  <2>1. CASE g = h
    <3>1. \A f \in Gens : Ended(f)
      BY <1>3, <1>7, <2>1
    <3>2. \A k \in {"ring", "static"} : owner'[k] = None
      BY <1>1, <1>4, <3>1
    <3>3. \A f \in Gens \ {h} : Ended(f)'
      BY <1>2, <3>1 DEF Ended
    <3> QED
      BY <1>1, <2>1, <3>2, <3>3 DEF Alone
  <2>2. CASE g # h
    <3>1. ~Ended(g) /\ ~overlap[g] /\ Alone(g)
      BY <1>2, <1>7, <2>2 DEF Ended, AloneInv
    <3>2. Suspended(g) /\ cacheIdx[g] > 0
      <4>1. Lock(g) /\ pc[g] \in PcSet
        BY DEF IInv, GInv, TypeInv
      <4>2. pc[g] = "yield"
        BY <1>1, <3>1, <4>1, GenAssumption DEF Lock, PcSet, Ended
      <4> QED
        BY <4>2 DEF AloneInv, Suspended
    <3>3. /\ \A k \in Kinds : runners'[k] = None
          /\ \A k \in {"ring", "static"} : owner'[k] \in {None, owner[k]}
          /\ cacheIdx' = cacheIdx
      BY <1>1, <1>4
    <3>4. ASSUME NEW f \in Gens \ {g}, ~Ended(f)'
          PROVE  pc'[f] \in FirstFrame /\ cacheIdx'[f] = 0 /\ overlap'[f] /\ cacheIdx'[g] > 0
      <4>1. CASE f = h
        BY <1>2, <1>3, <1>5, <3>1, <3>2, <3>3, <4>1 DEF FirstFrame
      <4>2. CASE f # h
        BY <1>2, <3>1, <3>3, <3>4, <4>2 DEF Alone, Ended
      <4> QED
        BY <4>1, <4>2
    <3>5. /\ \A k \in Kinds : runners'[k] \in {None, g}
          /\ owner'["ring"] \in {None, g} /\ owner'["static"] \in {None, g}
      BY <3>1, <3>3 DEF Alone
    <3> QED
      BY <3>4, <3>5 DEF Alone
  <2> QED
    BY <2>1, <2>2
<1> QED
  BY <1>3, <1>6, <1>7 DEF AloneInv, Alone

\* Steps that leave graphs, buffers and the clock alone.
LEMMA MoveAlone ==
    ASSUME IInv, AloneInv, NEW h \in Gens, ~Ended(h),
           NEW label \in PcSet \ {"new", "yield"}, pc' = [pc EXCEPT ![h] = label],
           UNCHANGED <<overlap, filled, cacheIdx, owner, runners>>,
           label = "failed" => overlap[h],
           Intrudes(h) => label \in FirstFrame \cup {"closed", "failed"}
    PROVE  AloneInv'
<1>1. FilledInv(h)'
  BY DEF AloneInv, FilledInv
<1>2. cacheIdx[h] \in Nat
  BY DEF IInv, TypeInv
<1>3. Intrudes(h) => cacheIdx[h] = 0
  BY IntruderRefused
<1>4. /\ \A k \in Kinds : runners'[k] \in {runners[k], h}
      /\ \A k \in {"ring", "static"} : owner'[k] \in {owner[k], h}
      /\ cacheIdx'[h] \in Nat /\ cacheIdx'[h] >= cacheIdx[h]
      /\ \A g \in Gens \ {h} : filled'[g] = filled[g] /\ cacheIdx'[g] = cacheIdx[g]
  BY <1>2
<1>5. Intrudes(h) => /\ label \in FirstFrame \cup {"closed", "failed"}
                     /\ cacheIdx'[h] = 0 /\ runners' = runners /\ owner' = owner
  BY <1>3
<1>6. label \in PcSet \ {"new"} /\ label # "yield"
  OBVIOUS
<1> QED
  BY <1>1, <1>4, <1>5, <1>6, StepAlone

LEMMA ForwardAlone ==
    ASSUME IInv, AloneInv, NEW h \in Gens, ~Ended(h), pc[h] \in InStep,
           NEW kind \in Kinds, NEW limit \in {ControlLimit, TargetLimit},
           NEW next \in InStep, Forward(h, kind, limit, next), cacheIdx[h] > 0
    PROVE  AloneInv'
<1>1. ~Intrudes(h)
  BY IntruderRefused
<1>2. CASE ~Readable(h, kind, Plan(h, limit))
  <2>1. pc' = [pc EXCEPT ![h] = "failed"] /\ UNCHANGED <<overlap, filled, cacheIdx, owner, runners>>
    BY <1>2 DEF Forward, Fail, Goto, genVars, poolVars
  <2>2. overlap[h]
    BY <1>2, AloneReads DEF AloneInv
  <2>3. "failed" \in PcSet \ {"new", "yield"}
    BY DEF PcSet
  <2> QED
    BY <1>1, <2>1, <2>2, <2>3, MoveAlone
<1>3. CASE Readable(h, kind, Plan(h, limit))
  <2>1. /\ runners' = [runners EXCEPT ![kind] = h] /\ owner' = [owner EXCEPT !["static"] = h]
        /\ pc' = [pc EXCEPT ![h] = next] /\ UNCHANGED <<overlap, filled, cacheIdx>>
    BY <1>3 DEF Forward, Goto, genVars
  <2>2. \A k \in Kinds : runners'[k] \in {runners[k], h}
    BY <2>1 DEF IInv, TypeInv
  <2>3. \A k \in {"ring", "static"} : owner'[k] \in {owner[k], h}
    BY <2>1 DEF IInv, TypeInv
  <2>4. FilledInv(h)'
    BY <2>1 DEF AloneInv, FilledInv
  <2>5. next \in PcSet \ {"new"} /\ next # "failed"
    BY DEF InStep, PcSet
  <2>6. cacheIdx'[h] \in Nat /\ cacheIdx'[h] >= cacheIdx[h] /\ cacheIdx'[h] > 0
    BY <2>1 DEF IInv, TypeInv
  <2> QED
    BY <1>1, <2>1, <2>2, <2>3, <2>4, <2>5, <2>6, StepAlone
<1> QED
  BY <1>2, <1>3

\* The slots after a store.
LEMMA StoreFills ==
    ASSUME IInv, AloneInv, NEW h \in Gens, Store(h)
    PROVE  /\ FilledInv(h)'
           /\ cacheIdx'[h] = cacheIdx[h] + 1 /\ cacheIdx[h] \in Nat
           /\ \A g \in Gens \ {h} : filled'[g] = filled[g] /\ cacheIdx'[g] = cacheIdx[g]
           /\ owner' = [owner EXCEPT !["ring"] = h]
           /\ UNCHANGED <<overlap, runners>>
<1>1. PICK c \in Nat : c = cacheIdx[h]
  BY DEF IInv, TypeInv
<1>2. /\ filled' = [filled EXCEPT ![h] = @ \cup {CacheIndex(c)}]
      /\ cacheIdx' = [cacheIdx EXCEPT ![h] = @ + 1]
      /\ owner' = [owner EXCEPT !["ring"] = h] /\ UNCHANGED <<overlap, runners>>
  BY <1>1 DEF Store
<1>3. /\ cacheIdx'[h] = c + 1
      /\ \A g \in Gens \ {h} : filled'[g] = filled[g] /\ cacheIdx'[g] = cacheIdx[g]
      /\ filled'[h] = filled[h] \cup {CacheIndex(c)}
  BY <1>1, <1>2 DEF IInv, TypeInv
<1>4. filled[h] = {CacheIndex(i) : i \in 0..c - 1}
  BY <1>1 DEF AloneInv, FilledInv
<1>5. filled'[h] = {CacheIndex(i) : i \in 0..c}
  <2>1. 0..c = (0..c - 1) \cup {c}
    OBVIOUS
  <2> QED
    BY <1>3, <1>4, <2>1
<1>6. 0..cacheIdx'[h] - 1 = 0..c
  BY <1>3
<1> QED
  BY <1>1, <1>2, <1>3, <1>5, <1>6 DEF FilledInv

LEMMA StoreAlone ==
    ASSUME IInv, AloneInv, NEW h \in Gens, ~Ended(h), ~Intrudes(h), Store(h),
           NEW label \in PcSet \ {"new", "failed"}, pc' = [pc EXCEPT ![h] = label]
    PROVE  AloneInv'
<1>1. \A k \in {"ring", "static"} : owner'[k] \in {owner[k], h}
  BY StoreFills DEF IInv, TypeInv
<1>2. cacheIdx'[h] \in Nat /\ cacheIdx'[h] >= cacheIdx[h] /\ cacheIdx'[h] > 0
  BY StoreFills
<1> QED
  BY <1>1, <1>2, StoreFills, StepAlone

LEMMA StoreControlAlone ==
    ASSUME IInv, AloneInv, NEW h \in Gens, StoreControl(h)
    PROVE  AloneInv'
<1>1. ~Ended(h)
  BY DEF StoreControl, Ended
<1>2. CASE HeldByOther("ring", h) /\ Fail(h)
  <2>1. overlap[h]
    <3>1. Alone(h) /\ overlap[h] \in BOOLEAN
      BY DEF AloneInv
    <3> QED
      BY <1>1, <1>2, <3>1 DEF Alone, HeldByOther
  <2>2. pc' = [pc EXCEPT ![h] = "failed"] /\ UNCHANGED <<overlap, filled, cacheIdx, owner, runners>>
    BY <1>2 DEF Fail, Goto, genVars, poolVars
  <2>3. "failed" \in PcSet \ {"new", "yield"}
    BY DEF PcSet
  <2> QED
    BY <1>1, <2>1, <2>2, <2>3, MoveAlone
<1>3. CASE ~HeldByOther("ring", h) /\ Store(h) /\ Goto(h, "denoise")
  <2>1. ~Intrudes(h)
    BY <1>1, <1>3, IntruderRefused
  <2>2. "denoise" \in PcSet \ {"new", "failed"}
    BY DEF PcSet, InStep
  <2> QED
    BY <1>1, <1>3, <2>1, <2>2, StoreAlone DEF Goto
<1> QED
  BY <1>2, <1>3 DEF StoreControl

LEMMA LastFrameAlone ==
    ASSUME IInv, AloneInv, NEW h \in Gens, LastFrame(h)
    PROVE  AloneInv'
<1>1. ~Ended(h) /\ pc[h] = "denoised" /\ pc' = [pc EXCEPT ![h] = "yield"]
      /\ UNCHANGED <<overlap, filled, cacheIdx, owner, runners>>
  BY DEF LastFrame, Ended, Yield, Goto, poolVars
<1>2. cacheIdx[h] \in Nat /\ cacheIdx[h] > 0
  <2>1. Clock(h) /\ frame[h] \in Nat /\ cacheIdx[h] \in Nat
    BY DEF IInv, GInv, TypeInv
  <2> QED
    BY <1>1, <2>1 DEF Clock
<1>3. ~Intrudes(h)
  BY <1>1, <1>2, IntruderRefused
<1>4. FilledInv(h)'
  BY <1>1 DEF AloneInv, FilledInv
<1>5. "yield" \in PcSet \ {"new"}
  BY DEF PcSet
<1>6. /\ \A k \in Kinds : runners'[k] \in {runners[k], h}
      /\ \A k \in {"ring", "static"} : owner'[k] \in {owner[k], h}
      /\ cacheIdx'[h] \in Nat /\ cacheIdx'[h] >= cacheIdx[h] /\ cacheIdx'[h] > 0
      /\ \A g \in Gens \ {h} : filled'[g] = filled[g] /\ cacheIdx'[g] = cacheIdx[g]
  BY <1>1, <1>2
<1>7. overlap' = overlap /\ pc' = [pc EXCEPT ![h] = "yield"] /\ ~Ended(h)
  BY <1>1
<1> QED
  BY <1>3, <1>4, <1>5, <1>6, <1>7, StepAlone

LEMMA NextAlone ==
    ASSUME IInv, AloneInv, [Next]_vars
    PROVE  AloneInv'
<1>1. ASSUME NEW g \in Gens, Resume(g) \/ Close(g) PROVE AloneInv'
  <2>1. ~Ended(g) /\ pc[g] = "yield"
    BY <1>1 DEF Resume, Close, Suspended, Ended
  <2>2. ~Intrudes(g)
    BY <2>1, IntruderRefused DEF FirstFrame
  <2>3. UNCHANGED <<overlap, filled, cacheIdx, owner, runners>>
    BY <1>1 DEF Resume, Close, genVars, poolVars
  <2>4. PICK label \in {"step", "closed"} : pc' = [pc EXCEPT ![g] = label]
    BY <1>1 DEF Resume, Close, Goto
  <2>5. label \in PcSet \ {"new", "yield"} /\ label # "failed"
    BY DEF PcSet, InStep
  <2> QED
    BY <2>1, <2>2, <2>3, <2>4, <2>5, MoveAlone
<1>2. ASSUME NEW g \in Gens, (\E rows \in SUBSET Rows(g) : Step(g, rows)) \/ EagerControl(g)
      PROVE  AloneInv'
  <2>1. ~Ended(g) /\ UNCHANGED <<overlap, filled, cacheIdx, owner, runners>>
    BY <1>2 DEF Step, EagerControl, Ended, genVars, poolVars
  <2>2. PICK label \in {"control", "store control"} : pc' = [pc EXCEPT ![g] = label]
    BY <1>2 DEF Step, EagerControl, Goto
  <2>3. /\ label \in PcSet \ {"new", "yield"} /\ label # "failed"
        /\ label \in FirstFrame \cup {"closed", "failed"}
    BY DEF PcSet, InStep, FirstFrame
  <2> QED
    BY <2>1, <2>2, <2>3, MoveAlone
<1>3. ASSUME NEW g \in Gens, Control(g) PROVE AloneInv'
  <2>1. CASE EagerControl(g)
    BY <1>2, <2>1
  <2>2. CASE pc[g] = "control" /\ cacheIdx[g] > 0
             /\ Forward(g, "refresh control", ControlLimit, "store control")
    BY <2>2, ForwardAlone DEF Kinds, InStep, Ended
  <2> QED
    BY <1>3, <2>1, <2>2 DEF Control
<1>4. ASSUME NEW g \in Gens, Denoise(g) \/ Refresh(g) PROVE AloneInv'
  <2>1. pc[g] \in {"denoise", "denoised"} /\ pc[g] \in InStep /\ ~Ended(g)
    BY <1>4 DEF Denoise, Refresh, InStep, Ended
  <2>2. cacheIdx[g] > 0
    <3>1. Clock(g) /\ frame[g] \in Nat
      BY DEF IInv, GInv, TypeInv
    <3>2. cacheIdx[g] = 2 * frame[g] + 1
      BY <2>1, <3>1 DEF Clock
    <3> QED
      BY <3>1, <3>2
  <2>3. CASE Denoise(g)
    BY <2>1, <2>2, <2>3, ForwardAlone DEF Denoise, Kinds, InStep
  <2>4. CASE Refresh(g)
    BY <2>1, <2>2, <2>4, ForwardAlone DEF Refresh, Kinds, InStep
  <2> QED
    BY <1>4, <2>3, <2>4
<1>5. ASSUME NEW g \in Gens, StoreTarget(g) PROVE AloneInv'
  <2>1. ~Ended(g) /\ pc[g] = "store target" /\ Store(g) /\ pc' = [pc EXCEPT ![g] = "yield"]
    BY <1>5 DEF StoreTarget, Yield, Goto, Ended
  <2>2. ~Intrudes(g)
    BY <2>1, IntruderRefused DEF FirstFrame
  <2>3. "yield" \in PcSet \ {"new", "failed"}
    BY DEF PcSet
  <2> QED
    BY <2>1, <2>2, <2>3, StoreAlone
<1>6. CASE UNCHANGED vars
  BY <1>6 DEF vars, genVars, poolVars, AloneInv, FilledInv, Alone, Suspended, Ended
<1> QED
  BY <1>1, <1>2, <1>3, <1>4, <1>5, <1>6, StartAlone, StoreControlAlone, LastFrameAlone DEF Next

(***************************************************************************)
(* Generations that run one after the other are never refused a buffer, a  *)
(* graph or a slot, with or without a window, for any rows and restarts;   *)
(* where they overlap, the one that started alone is not refused either.   *)
(***************************************************************************)
THEOREM OnlyOverlapFailsCorrect == Spec => []OnlyOverlapFails
<1>1. Init => IInv /\ AloneInv
  BY InitInv, InitAlone
<1>2. IInv /\ AloneInv /\ [Next]_vars => IInv' /\ AloneInv'
  BY NextInv, NextAlone
<1>3. AloneInv => OnlyOverlapFails
  BY DEF AloneInv, OnlyOverlapFails
<1> QED
  BY <1>1, <1>2, <1>3, PTL DEF Spec
=============================================================================
