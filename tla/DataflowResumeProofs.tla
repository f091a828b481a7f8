------------------------ MODULE DataflowResumeProofs ------------------------
(***************************************************************************)
(* Proofs about DataflowResume for any loaders, batchers, slices, pools,   *)
(* oversized samples and prefetching, and any number of runs.              *)
(*                                                                         *)
(* The invariant follows a stream from the checkpoint to the dataset: the  *)
(* callback's position, the batch in the trainer, the batches waiting in   *)
(* the worker and what its batcher holds back are consecutive stretches of *)
(* the stream, up to the item the worker reads next.  A second invariant,  *)
(* over the first, says that where fixed-size batches divide an epoch's    *)
(* slice, every one of these places is a whole number of batches.          *)
(***************************************************************************)
EXTENDS DataflowResume, FiniteSetTheorems, WellFoundedInduction, TLAPS

Positions == Nat \X (Nat \union {-1})

TypeInv ==
    /\ read \in [Streams -> Nat]
    /\ held \in [Streams -> SUBSET Nat]
    /\ queue \in [Streams -> Seq(SUBSET Nat)]
    /\ turn \in [Loaders -> Workers]
    /\ globalId \in Nat
    /\ batch \in [stream : Streams, items : SUBSET Nat]
    /\ position \in [Streams -> Positions]
    /\ steps \in Nat
    /\ up \in BOOLEAN
    /\ trained \in [Streams -> SUBSET Nat]
    /\ picks \in Seq(Loaders)
    /\ saved \in [iteration : Nat, position : [Streams -> Positions],
                  trained : [Streams -> SUBSET Nat], picks : Seq(Loaders)]

(* The first item of the stream the callback does not account for. *)
From(s) == Start(s, position[s])

(* Items first to next - 1, but for those the batcher discards. *)
Stretch(s, first, next) == (first..next - 1) \ Discarded(s)

(* A batch that starts where first is and ends before next. *)
Covers(s, items, first, next) ==
    items = Stretch(s, first, next) /\ next - 1 \in items

(* Where the batch in the trainer ends, and the queue begins. *)
Base(s) ==
    IF batch.items # {} /\ batch.stream = s THEN Greatest(batch.items) + 1 ELSE From(s)

(* The batches of q follow each other from first to last. *)
Chain(s, first, q, last) ==
    \E end \in [0..Len(q) -> Nat] :
        /\ end[0] = first /\ end[Len(q)] = last
        /\ \A k \in 1..Len(q) :
              Contiguous(s, q[k]) => Covers(s, q[k], end[k - 1], end[k])

(* No batch of the queue has been refused. *)
Accepted(s, q) == \A k \in DOMAIN q : Contiguous(s, q[k])

QueueInv(s) ==
    \E last \in Nat :
        /\ Chain(s, Base(s), queue[s], last)
        /\ Accepted(s, queue[s]) => last <= read[s] /\ held[s] = last..read[s] - 1

BatchInv ==
    batch.items # {} =>
        /\ Contiguous(batch.stream, batch.items)
        /\ \E next \in Nat : Covers(batch.stream, batch.items, From(batch.stream), next)

StreamInv ==
    /\ BatchInv
    /\ \A s \in Streams :
          /\ QueueInv(s)
          /\ Batcher[s[1]] = "simple" => held[s] = {}
          /\ trained[s] = Stretch(s, 0, From(s))

SavedInv ==
    \A s \in Streams : saved.trained[s] = Stretch(s, 0, Start(s, saved.position[s]))

PickInv ==
    /\ Len(picks) = steps
    /\ \A k \in 1..Len(picks) : picks[k] = Selection[k - 1]
    /\ batch.items # {} => batch.stream[1] = Selection[steps]
    /\ up => globalId = (IF batch.items = {} THEN steps ELSE steps + 1)
    /\ Len(saved.picks) = saved.iteration * GradAccum
    /\ \A k \in 1..Len(saved.picks) : saved.picks[k] = Selection[k - 1]

IInv == TypeInv /\ StreamInv /\ SavedInv /\ PickInv
-----------------------------------------------------------------------------
(* Arithmetic of slices. *)
LEMMA QuotientPositive ==
    ASSUME NEW a \in Nat, NEW b \in Nat \ {0}, a >= b
    PROVE  a \div b \in Nat /\ a \div b >= 1
  OBVIOUS

LEMMA SliceLengthPositive ==
    ASSUME NEW s \in Streams
    PROVE  SliceLength(s) \in Nat /\ SliceLength(s) >= 1
  <1>1. s[1] \in Loaders /\ s[2] \in Workers
    BY DEF Streams
  <1>2. NumWorkers \in Nat \ {0} /\ DatasetSize[s[1]] \in Nat /\ DatasetSize[s[1]] >= NumWorkers
    BY <1>1, DataflowAssumption
  <1>3. DatasetSize[s[1]] - s[2] + NumWorkers - 1 \in Nat
        /\ DatasetSize[s[1]] - s[2] + NumWorkers - 1 >= NumWorkers
    BY <1>1, <1>2 DEF Workers
  <1> QED
    BY <1>2, <1>3, QuotientPositive DEF SliceLength

LEMMA DivMod ==
    ASSUME NEW i \in Nat, NEW n \in Nat, n >= 1
    PROVE  /\ i \div n \in Nat /\ i % n \in Nat /\ i % n < n
           /\ i = n * (i \div n) + (i % n)
  OBVIOUS

LEMMA Place ==
    ASSUME NEW s \in Streams, NEW i \in Nat
    PROVE  /\ Epoch(s, i) \in Nat /\ Index(s, i) \in Nat /\ Index(s, i) < SliceLength(s)
           /\ i = SliceLength(s) * Epoch(s, i) + Index(s, i)
  BY SliceLengthPositive, DivMod DEF Epoch, Index

LEMMA StartInNat ==
    ASSUME NEW s \in Streams, NEW p \in Positions
    PROVE  Start(s, p) \in Nat
  <1>1. p[1] \in Nat /\ p[2] \in Nat \union {-1}
    BY DEF Positions
  <1>2. SliceLength(s) * p[1] \in Nat
    BY <1>1, SliceLengthPositive
  <1> QED
    BY <1>1, <1>2 DEF Start

(* What a stamped batch covers is a stretch of the stream without holes. *)
LEMMA ContiguousIsInterval ==
    ASSUME NEW s \in Streams, NEW items \in SUBSET Nat, Contiguous(s, items)
    PROVE  \E low, high \in items : items = low..high
  <1>1. PICK x \in {Index(s, i) : i \in items}, y \in {Index(s, i) : i \in items} :
            {Index(s, i) : i \in items} = x..y
    BY DEF Contiguous
  <1>2. PICK low \in items, high \in items : x = Index(s, low) /\ y = Index(s, high)
    OBVIOUS
  <1> DEFINE base == SliceLength(s) * Epoch(s, low)
  <1>3. \A i \in items : Epoch(s, i) = Epoch(s, low)
    BY DEF Contiguous
  <1>4. \A i \in items : i = base + Index(s, i) /\ Index(s, i) \in Nat
    BY <1>3, Place
  <1>5. base \in Nat
    BY SliceLengthPositive, Place
  <1> HIDE DEF base
  <1>6. items \subseteq low..high
    BY <1>1, <1>2, <1>4, <1>5
  <1>7. ASSUME NEW j \in low..high PROVE j \in items
    <2>1. j - base \in x..y
      BY <1>2, <1>4, <1>5
    <2>2. PICK i \in items : Index(s, i) = j - base
      BY <2>1, <1>1
    <2> QED
      BY <2>2, <1>4, <1>5
  <1> QED
    BY <1>6, <1>7

LEMMA SmallestExists ==
    ASSUME NEW S \in SUBSET Nat, S # {}
    PROVE  \E m \in S : \A y \in S : m <= y
  <1> DEFINE less == {r \in Nat \X Nat : r[1] < r[2]}
  <1>1. OpToRel(<, Nat) = less
    BY DEF OpToRel
  <1>2. IsWellFoundedOn(less, Nat)
    BY <1>1, NatLessThanWellFounded
  <1>3. PICK m \in S : \A y \in S : <<y, m>> \notin less
    <2> HIDE DEF less
    <2> QED
      BY <1>2, WFMin
  <1>4. ASSUME NEW y \in S PROVE m <= y
    <2>1. <<y, m>> \in Nat \X Nat /\ <<y, m>>[1] = y /\ <<y, m>>[2] = m
      BY <1>3
    <2>2. ~(y < m)
      BY <2>1, <1>3
    <2> QED
      BY <2>2
  <1> QED
    BY <1>3, <1>4

LEMMA GreatestIs ==
    ASSUME NEW S \in SUBSET Nat, NEW m \in S, \A y \in S : y <= m
    PROVE  Greatest(S) = m
  <1>1. \A x \in S : (\A y \in S : y <= x) => x = m
    OBVIOUS
  <1> QED
    BY <1>1 DEF Greatest

LEMMA FirstIs ==
    ASSUME NEW S \in SUBSET Nat, NEW m \in S, \A y \in S : m <= y
    PROVE  First(S) = m
  <1>1. \A x \in S : (\A y \in S : x <= y) => x = m
    OBVIOUS
  <1> QED
    BY <1>1 DEF First

LEMMA CoversGreatest ==
    ASSUME NEW s \in Streams, NEW first \in Nat, NEW next \in Nat,
           NEW items \in SUBSET Nat, Covers(s, items, first, next)
    PROVE  Greatest(items) + 1 = next /\ next > first /\ next - 1 \in Nat
  <1>1. \A y \in items : y <= next - 1
    BY DEF Covers, Stretch
  <1>2. next - 1 \in items /\ next - 1 \in Nat /\ next > first
    BY DEF Covers, Stretch
  <1> QED
    BY <1>1, <1>2, GreatestIs

(* Of a contiguous batch the stamp is the place of its last item. *)
LEMMA StampIsPlaceOfLast ==
    ASSUME NEW s \in Streams, NEW items \in SUBSET Nat, NEW m \in items,
           Contiguous(s, items), \A i \in items : i <= m
    PROVE  Stamp(s, items) = <<Epoch(s, m), Index(s, m)>>
  <1> DEFINE base == SliceLength(s) * Epoch(s, m)
  <1>1. \A i \in items : Epoch(s, i) = Epoch(s, m)
    BY DEF Contiguous
  <1>2. {Epoch(s, i) : i \in items} = {Epoch(s, m)}
    BY <1>1
  <1>3. Greatest({Epoch(s, i) : i \in items}) = Epoch(s, m)
    <2>1. Epoch(s, m) \in Nat
      BY Place
    <2>2. Greatest({Epoch(s, m)}) = Epoch(s, m)
      BY <2>1, GreatestIs
    <2> QED
      BY <1>2, <2>2
  <1>4. \A i \in items : i = base + Index(s, i) /\ Index(s, i) \in Nat
    BY <1>1, Place
  <1>5. base \in Nat
    BY SliceLengthPositive, Place
  <1> HIDE DEF base
  <1>6. \A i \in items : Index(s, i) <= Index(s, m)
    BY <1>4, <1>5
  <1> DEFINE indices == {Index(s, i) : i \in items}
  <1>7. indices \in SUBSET Nat /\ Index(s, m) \in indices /\ \A y \in indices : y <= Index(s, m)
    BY <1>4, <1>6
  <1>8. Greatest(indices) = Index(s, m)
    BY <1>7, GreatestIs
  <1> QED
    BY <1>3, <1>8 DEF Stamp

LEMMA LaterEpoch ==
    ASSUME NEW n \in Nat, n >= 1, NEW a \in Nat, NEW b \in Nat, a < b
    PROVE  n * a + n <= n * b
  <1>1. PICK d \in Nat : b = a + 1 + d
    <2>1. b - a - 1 \in Nat /\ b = a + 1 + (b - a - 1)
      OBVIOUS
    <2> QED
      BY <2>1
  <1>2. n * (a + 1 + d) = n * a + n + n * d
    OBVIOUS
  <1>3. n * d \in Nat /\ n * a \in Nat
    OBVIOUS
  <1> QED
    BY <1>1, <1>2, <1>3

(* What the callback records after a batch that starts where it was makes a resumed stream start *)
(* right after that batch.                                                                       *)
LEMMA RecordedAdvances ==
    ASSUME NEW s \in Streams, NEW next \in Nat, NEW items \in SUBSET Nat,
           position \in [Streams -> Positions],
           Contiguous(s, items), Covers(s, items, From(s), next)
    PROVE  Recorded(s, items) \in Positions /\ Start(s, Recorded(s, items)) = next
  <1> DEFINE m == next - 1
             p == position[s]
  <1>1. From(s) \in Nat /\ p \in Positions
    BY StartInNat DEF From
  <1>2. m \in items /\ m \in Nat /\ m >= From(s) /\ \A i \in items : i <= m
    BY <1>1, CoversGreatest DEF Covers, Stretch
  <1>3. Stamp(s, items) = <<Epoch(s, m), Index(s, m)>>
    BY <1>2, StampIsPlaceOfLast
  <1>4. /\ Epoch(s, m) \in Nat /\ Index(s, m) \in Nat /\ Index(s, m) < SliceLength(s)
        /\ m = SliceLength(s) * Epoch(s, m) + Index(s, m)
    BY <1>2, Place
  <1>5. Stamp(s, items) \in Positions /\ Start(s, Stamp(s, items)) = next
    BY <1>2, <1>3, <1>4 DEF Positions, Start
  <1>6. p[1] \in Nat /\ p[2] \in Nat \union {-1} /\ SliceLength(s) \in Nat /\ SliceLength(s) >= 1
    BY <1>1, SliceLengthPositive DEF Positions
  <1>7. SliceLength(s) * p[1] \in Nat /\ SliceLength(s) * Epoch(s, m) \in Nat
    BY <1>4, <1>6
  <1>8. From(s) = SliceLength(s) * p[1] + p[2] + 1
    BY DEF From, Start
  <1>9. ~(Epoch(s, m) < p[1])
    <2> SUFFICES ASSUME Epoch(s, m) < p[1] PROVE FALSE
      OBVIOUS
    <2>1. SliceLength(s) * Epoch(s, m) + SliceLength(s) <= SliceLength(s) * p[1]
      BY <1>4, <1>6, LaterEpoch
    <2> QED
      BY <2>1, <1>2, <1>4, <1>6, <1>7, <1>8
  <1>10. Epoch(s, m) = p[1] => Index(s, m) > p[2]
    BY <1>2, <1>4, <1>6, <1>7, <1>8
  <1>11. Later(Stamp(s, items), p)
    BY <1>3, <1>4, <1>6, <1>9, <1>10 DEF Later
  <1> QED
    BY <1>5, <1>11 DEF Recorded
-----------------------------------------------------------------------------
(* Chains of batches. *)
LEMMA ChainEmpty ==
    ASSUME NEW s \in Streams, NEW first \in Nat
    PROVE  Chain(s, first, <<>>, first)
  <1> DEFINE end == [k \in 0..0 |-> first]
  <1>1. end \in [0..Len(<<>>) -> Nat] /\ end[0] = first /\ end[Len(<<>>)] = first
    OBVIOUS
  <1>2. 1..Len(<<>>) = {}
    OBVIOUS
  <1> QED
    BY <1>1, <1>2 DEF Chain

LEMMA ChainAppend ==
    ASSUME NEW s \in Streams, NEW first \in Nat, NEW last \in Nat, NEW next \in Nat,
           NEW q \in Seq(SUBSET Nat), NEW items \in SUBSET Nat,
           Chain(s, first, q, last), Contiguous(s, items) => Covers(s, items, last, next)
    PROVE  Chain(s, first, Append(q, items), next)
  <1>1. PICK end \in [0..Len(q) -> Nat] :
            /\ end[0] = first /\ end[Len(q)] = last
            /\ \A k \in 1..Len(q) :
                  Contiguous(s, q[k]) => Covers(s, q[k], end[k - 1], end[k])
    BY DEF Chain
  <1> DEFINE r == Append(q, items)
             e == [k \in 0..Len(r) |-> IF k = Len(r) THEN next ELSE end[k]]
  <1>2. Len(r) = Len(q) + 1 /\ Len(q) \in Nat /\ r[Len(q) + 1] = items
    OBVIOUS
  <1>3. \A k \in 1..Len(q) : r[k] = q[k]
    OBVIOUS
  <1> HIDE DEF r
  <1>4. e \in [0..Len(r) -> Nat] /\ e[0] = first /\ e[Len(r)] = next /\ e[Len(q)] = last
    BY <1>1, <1>2
  <1>5. \A k \in 1..Len(q) : e[k - 1] = end[k - 1] /\ e[k] = end[k]
    BY <1>1, <1>2
  <1>6. ASSUME NEW k \in 1..Len(r), Contiguous(s, r[k]) PROVE Covers(s, r[k], e[k - 1], e[k])
    <2>1. CASE k \in 1..Len(q)
      BY <2>1, <1>1, <1>3, <1>5, <1>6
    <2>2. CASE k = Len(q) + 1
      BY <2>2, <1>2, <1>4, <1>6
    <2> QED
      BY <2>1, <2>2, <1>2
  <1> HIDE DEF e
  <1> QED
    BY <1>4, <1>6 DEF Chain, r

LEMMA ChainTail ==
    ASSUME NEW s \in Streams, NEW first \in Nat, NEW last \in Nat, NEW q \in Seq(SUBSET Nat),
           q # <<>>, Chain(s, first, q, last), Contiguous(s, Head(q))
    PROVE  \E next \in Nat : Covers(s, Head(q), first, next) /\ Chain(s, next, Tail(q), last)
  <1>1. PICK end \in [0..Len(q) -> Nat] :
            /\ end[0] = first /\ end[Len(q)] = last
            /\ \A k \in 1..Len(q) :
                  Contiguous(s, q[k]) => Covers(s, q[k], end[k - 1], end[k])
    BY DEF Chain
  <1> DEFINE r == Tail(q)
             e == [k \in 0..Len(r) |-> end[k + 1]]
  <1>2. Len(r) = Len(q) - 1 /\ Len(q) \in Nat /\ Len(q) >= 1 /\ Head(q) = q[1]
    OBVIOUS
  <1>3. \A k \in 1..Len(r) : r[k] = q[k + 1]
    OBVIOUS
  <1> HIDE DEF r
  <1>4. e \in [0..Len(r) -> Nat] /\ e[0] = end[1] /\ e[Len(r)] = last
    BY <1>1, <1>2
  <1>5. ASSUME NEW k \in 1..Len(r), Contiguous(s, r[k]) PROVE Covers(s, r[k], e[k - 1], e[k])
    <2>1. k + 1 \in 1..Len(q) /\ e[k] = end[k + 1] /\ e[k - 1] = end[k]
      BY <1>2
    <2> QED
      BY <2>1, <1>1, <1>3, <1>5
  <1>6. Covers(s, Head(q), first, end[1]) /\ end[1] \in Nat
    BY <1>1, <1>2
  <1> HIDE DEF e
  <1>7. Chain(s, end[1], r, last)
    BY <1>4, <1>5 DEF Chain
  <1> QED
    BY <1>6, <1>7 DEF r

-----------------------------------------------------------------------------
LEMMA InitHolds == Init => IInv
  <1> SUFFICES ASSUME Init PROVE IInv
    OBVIOUS
  <1> USE DEF Init
  <1>0. Streams # {} /\ (CHOOSE s \in Streams : TRUE) \in Streams /\ 0 \in Workers
    <2>1. PICK l \in Loaders : TRUE
      BY DataflowAssumption
    <2>2. 0 \in Workers
      BY DataflowAssumption DEF Workers
    <2>3. <<l, 0>> \in Streams
      BY <2>1, <2>2 DEF Streams
    <2> QED
      BY <2>2, <2>3
  <1>1. NoPosition \in Positions
    BY DEF NoPosition, Positions
  <1>2. saved \in [iteration : Nat, position : [Streams -> Positions],
                   trained : [Streams -> SUBSET Nat], picks : Seq(Loaders)]
    BY <1>1 DEF NoCheckpoint
  <1>3. TypeInv
    <2>1. queue \in [Streams -> Seq(SUBSET Nat)] /\ picks \in Seq(Loaders)
      OBVIOUS
    <2>2. batch \in [stream : Streams, items : SUBSET Nat]
      BY <1>0
    <2> QED
      BY <1>0, <1>1, <1>2, <2>1, <2>2 DEF TypeInv
  <1>4. ASSUME NEW s \in Streams PROVE Start(s, NoPosition) = 0
    <2>1. SliceLength(s) * 0 = 0
      BY SliceLengthPositive
    <2> QED
      BY <2>1 DEF Start, NoPosition
  <1>5. ASSUME NEW s \in Streams PROVE Stretch(s, 0, Start(s, NoPosition)) = {}
    BY <1>4 DEF Stretch
  <1>6. batch.items = {}
    OBVIOUS
  <1>7. ASSUME NEW s \in Streams
        PROVE  QueueInv(s) /\ held[s] = {} /\ trained[s] = Stretch(s, 0, From(s))
    <2>1. From(s) = 0 /\ Base(s) = 0
      BY <1>4, <1>6 DEF From, Base
    <2>2. Chain(s, 0, <<>>, 0)
      BY ChainEmpty
    <2>3. held[s] = 0..read[s] - 1 /\ 0 <= read[s] /\ queue[s] = <<>>
      OBVIOUS
    <2>4. QueueInv(s)
      BY <2>1, <2>2, <2>3 DEF QueueInv
    <2> QED
      BY <2>4, <1>5 DEF From
  <1>8. StreamInv
    BY <1>6, <1>7 DEF StreamInv, BatchInv
  <1>9. SavedInv
    BY <1>5 DEF SavedInv, NoCheckpoint
  <1>10. PickInv
    <2>1. Len(picks) = 0 /\ 1..0 = {} /\ saved.picks = <<>> /\ saved.iteration = 0
      BY DEF NoCheckpoint
    <2>2. 0 * GradAccum = 0
      BY DataflowAssumption
    <2> QED
      BY <2>1, <2>2, <1>6 DEF PickInv
  <1> QED
    BY <1>3, <1>8, <1>9, <1>10 DEF IInv

(* What a batcher does: an accepted batch covers the stream from where the previous one ended, *)
(* and what is held back follows it.                                                           *)
WellFormed(s, items, kept, next) ==
    /\ Batcher[s[1]] = "simple" => kept = {}
    /\ \A last \in Nat :
          last <= read[s] /\ held[s] = last..read[s] - 1 /\ Contiguous(s, items)
          => \E n \in Nat : Covers(s, items, last, n) /\ n <= next /\ kept = n..next - 1

(* A worker forms a batch: it suffices to look at the batch and at what is held back. *)
LEMMA FormHolds ==
    ASSUME IInv, NEW s \in Streams, NEW items \in SUBSET Nat, NEW kept \in SUBSET Nat,
           NEW next \in Nat, MayForm(s), Deliver(s, items, kept, next),
           WellFormed(s, items, kept, next)
    PROVE  IInv'
  <1> USE DEF IInv, Deliver, WellFormed
  <1>1. TypeInv'
    <2>1. Append(queue[s], items) \in Seq(SUBSET Nat)
      BY DEF TypeInv
    <2>2. queue' \in [Streams -> Seq(SUBSET Nat)] /\ held' \in [Streams -> SUBSET Nat]
            /\ read' \in [Streams -> Nat]
      BY <2>1 DEF TypeInv
    <2> QED
      BY <2>2 DEF TypeInv, history
  <1>2. ASSUME NEW t \in Streams PROVE From(t)' = From(t) /\ Base(t)' = Base(t)
    BY DEF From, Base, Greatest
  <1>3. BatchInv'
    BY <1>2 DEF StreamInv, BatchInv, TypeInv
  <1>4. ASSUME NEW t \in Streams PROVE QueueInv(t)'
    <2>1. CASE t # s
      <3>1. queue'[t] = queue[t] /\ held'[t] = held[t] /\ read'[t] = read[t]
        BY <2>1 DEF TypeInv
      <3> QED
        BY <3>1, <1>2 DEF StreamInv, QueueInv
    <2>2. CASE t = s
      <3>1. PICK last \in Nat :
                /\ Chain(s, Base(s), queue[s], last)
                /\ Accepted(s, queue[s]) => last <= read[s] /\ held[s] = last..read[s] - 1
        BY DEF StreamInv, QueueInv
      <3>2. last <= read[s] /\ held[s] = last..read[s] - 1
        BY <3>1 DEF MayForm, Accepted
      <3>3. queue'[s] = Append(queue[s], items) /\ held'[s] = kept /\ read'[s] = next
        BY DEF TypeInv
      <3>4. queue[s] \in Seq(SUBSET Nat)
        BY DEF TypeInv
      <3>5. Base(s) \in Nat
        BY <3>1 DEF Chain
      <3>6. CASE Contiguous(s, items)
        <4>1. PICK n \in Nat : Covers(s, items, last, n) /\ n <= next /\ kept = n..next - 1
          BY <3>2, <3>6
        <4>2. Chain(s, Base(s), queue'[s], n)
          BY <3>1, <3>3, <3>4, <3>5, <4>1, ChainAppend
        <4> QED
          BY <4>1, <4>2, <3>3, <1>2, <2>2 DEF QueueInv
      <3>7. CASE ~Contiguous(s, items)
        <4>1. Chain(s, Base(s), queue'[s], 0)
          BY <3>1, <3>3, <3>4, <3>5, <3>7, ChainAppend
        <4>2. ~Accepted(s, queue'[s])
          <5>1. Len(queue'[s]) \in DOMAIN queue'[s] /\ queue'[s][Len(queue'[s])] = items
            BY <3>3, <3>4
          <5> QED
            BY <5>1, <3>7 DEF Accepted
        <4> QED
          BY <4>1, <4>2, <1>2, <2>2 DEF QueueInv
      <3> QED
        BY <3>6, <3>7
    <2> QED
      BY <2>1, <2>2
  <1>5. ASSUME NEW t \in Streams, Batcher[t[1]] = "simple" PROVE held'[t] = {}
    BY <1>5 DEF StreamInv, TypeInv
  <1>6. StreamInv'
    BY <1>2, <1>3, <1>4, <1>5 DEF StreamInv, history
  <1>7. SavedInv' /\ PickInv'
    BY DEF SavedInv, PickInv, history
  <1> QED
    BY <1>1, <1>6, <1>7

(* An accepted batch with the first item that is not discarded covers the stream up to its last. *)
LEMMA AcceptedCovers ==
    ASSUME NEW s \in Streams, NEW items \in SUBSET Nat, Contiguous(s, items),
           NEW last \in Nat, NEW first \in items, last <= first,
           \A i \in items : first <= i /\ i \notin Discarded(s),
           last..first - 1 \subseteq Discarded(s)
    PROVE  \E n \in Nat : Covers(s, items, last, n) /\ items = first..n - 1
  <1>1. PICK low \in items, high \in items : items = low..high
    BY ContiguousIsInterval
  <1>2. low = first
    BY <1>1
  <1>3. high + 1 \in Nat /\ (high + 1) - 1 = high /\ high \in items
    BY <1>1
  <1>4. items = Stretch(s, last, high + 1)
    <2>1. ASSUME NEW i \in items PROVE i \in Stretch(s, last, high + 1)
      BY <1>1, <1>2 DEF Stretch
    <2>2. ASSUME NEW i \in Stretch(s, last, high + 1) PROVE i \in items
      <3>1. i \in last..high /\ i \notin Discarded(s)
        BY <1>3, <2>2 DEF Stretch
      <3>2. i \notin last..first - 1
        BY <3>1
      <3> QED
        BY <3>1, <3>2, <1>1, <1>2
    <2> QED
      BY <2>1, <2>2
  <1> QED
    BY <1>1, <1>2, <1>3, <1>4 DEF Covers

LEMMA FormSimpleHolds ==
    ASSUME IInv, NEW s \in Streams, FormSimple(s)
    PROVE  IInv'
  <1> DEFINE next == read[s] + MaxBatch[s[1]]
             items == read[s]..next - 1
  <1>1. read[s] \in Nat /\ MaxBatch[s[1]] \in Nat \ {0} /\ Discarded(s) = {}
    BY DataflowAssumption DEF IInv, TypeInv, Streams, FormSimple, Discarded
  <1>2. next \in Nat /\ items \in SUBSET Nat /\ read[s] \in items /\ \A i \in items : read[s] <= i
    BY <1>1
  <1>3. ASSUME NEW last \in Nat, last <= read[s], held[s] = last..read[s] - 1, Contiguous(s, items)
        PROVE  \E n \in Nat : Covers(s, items, last, n) /\ n <= next /\ {} = n..next - 1
    <2>1. held[s] = {}
      BY DEF IInv, StreamInv, FormSimple
    <2>2. last = read[s]
      <3>1. ASSUME last < read[s] PROVE FALSE
        <4>1. last \in last..read[s] - 1
          BY <3>1, <1>1
        <4> QED
          BY <4>1, <2>1, <1>3
      <3> QED
        BY <3>1, <1>1, <1>3
    <2>3. items = Stretch(s, last, next) /\ next - 1 \in items
      BY <1>1, <2>2 DEF Stretch
    <2> QED
      BY <2>3, <1>2 DEF Covers
  <1>4. MayForm(s) /\ Deliver(s, items, {}, next)
    BY DEF FormSimple
  <1> HIDE DEF next, items
  <1>5. WellFormed(s, items, {}, next)
    BY <1>3 DEF WellFormed
  <1> QED
    BY <1>2, <1>4, <1>5, FormHolds

LEMMA FormPoolHolds ==
    ASSUME IInv, NEW s \in Streams, FormPool(s)
    PROVE  IInv'
  <1>0. Batcher[s[1]] = "pool" /\ MayForm(s)
    BY DEF FormPool
  <1>1. read[s] \in Nat /\ held[s] \in SUBSET Nat /\ Discarded(s) = {}
    BY <1>0 DEF IInv, TypeInv, Discarded
  <1>a. PICK next \in read[s]..read[s] + PoolSize :
            \E g \in SUBSET (held[s] \union (read[s]..next - 1)) :
               /\ First(held[s] \union (read[s]..next - 1)) \in g
               /\ Deliver(s, g, (held[s] \union (read[s]..next - 1)) \ g, next)
    BY DEF FormPool
  <1> DEFINE pool == held[s] \union (read[s]..next - 1)
  <1>2. PICK items \in SUBSET pool : First(pool) \in items /\ Deliver(s, items, pool \ items, next)
    BY <1>a
  <1>3. next \in Nat /\ next >= read[s] /\ pool \in SUBSET Nat /\ items \in SUBSET Nat
    BY <1>1, <1>2, DataflowAssumption
  <1>4. ASSUME NEW last \in Nat, last <= read[s], held[s] = last..read[s] - 1, Contiguous(s, items)
        PROVE  \E n \in Nat : Covers(s, items, last, n) /\ n <= next /\ pool \ items = n..next - 1
    <2>1. pool = last..next - 1
      BY <1>1, <1>3, <1>4
    <2>2. items \subseteq last..next - 1
      BY <2>1
    <2>3. last \in pool
      <3>1. PICK i \in last..next - 1 : TRUE
        BY <1>2, <2>1
      <3>2. last \in last..next - 1
        BY <3>1, <1>3
      <3> QED
        BY <3>2, <2>1
    <2>4. First(pool) = last
      BY <2>1, <2>3, <1>3, FirstIs
    <2>5. last \in items
      BY <1>2, <2>4
    <2>6. \A i \in items : last <= i /\ i \notin Discarded(s)
      BY <2>2, <1>1
    <2>7. last..last - 1 \subseteq Discarded(s)
      OBVIOUS
    <2>8. PICK n \in Nat : Covers(s, items, last, n) /\ items = last..n - 1
      BY <1>3, <1>4, <2>5, <2>6, <2>7, AcceptedCovers
    <2>9. n - 1 \in items
      BY <2>8 DEF Covers
    <2>10. n <= next /\ (last..next - 1) \ (last..n - 1) = n..next - 1
      BY <2>2, <2>9, <1>3, <2>8
    <2> QED
      BY <2>1, <2>8, <2>10
  <1>5. Deliver(s, items, pool \ items, next) /\ pool \ items \in SUBSET Nat
    BY <1>2, <1>3
  <1> HIDE DEF pool
  <1>6. WellFormed(s, items, pool \ items, next)
    BY <1>0, <1>4 DEF WellFormed
  <1> QED
    BY <1>0, <1>3, <1>5, <1>6, FormHolds

LEMMA FormSequentialHolds ==
    ASSUME IInv, NEW s \in Streams, FormSequential(s)
    PROVE  IInv'
  <1>0. Batcher[s[1]] = "sequential" /\ MayForm(s)
    BY DEF FormSequential
  <1>1. read[s] \in Nat /\ held[s] \in SUBSET Nat /\ Discarded(s) = Oversized[s]
    BY <1>0 DEF IInv, TypeInv, Discarded
  <1> DEFINE offered(e) == {i \in held[s] : i <= e} \union (read[s]..e)
             fitting(e) == offered(e) \ Oversized[s]
             skipped(e, g) == {i \in offered(e) \ g : i > First(fitting(e))}
             kept(e, g) == skipped(e, g) \union {i \in held[s] : i > e}
             after(e) == IF e >= read[s] THEN e + 1 ELSE read[s]
  <1>a. PICK end \in First(held[s] \union {read[s]})..
                       read[s] + MaxBatch[s[1]] + Lookahead + Cardinality(Oversized[s]) :
            \E g \in SUBSET fitting(end) :
               First(fitting(end)) \in g /\ Deliver(s, g, kept(end, g), after(end))
    BY DEF FormSequential
  <1>2. PICK items \in SUBSET fitting(end) :
            First(fitting(end)) \in items /\ Deliver(s, items, kept(end, items), after(end))
    BY <1>a
  <1>3. end \in Int
    OBVIOUS
  <1>4. offered(end) \in SUBSET Nat /\ fitting(end) \in SUBSET Nat /\ items \in SUBSET Nat
    BY <1>1, <1>2, <1>3
  <1>5. kept(end, items) \in SUBSET Nat /\ after(end) \in Nat
    BY <1>1, <1>3, <1>4
  <1>6. ASSUME NEW last \in Nat, last <= read[s], held[s] = last..read[s] - 1, Contiguous(s, items)
        PROVE  \E n \in Nat : /\ Covers(s, items, last, n) /\ n <= after(end)
                              /\ kept(end, items) = n..after(end) - 1
    <2>1. offered(end) = last..end
      BY <1>1, <1>3, <1>6
    <2> DEFINE f == First(fitting(end))
    <2>2. f \in items /\ f \in last..end /\ f \in Nat
      BY <1>2, <1>4, <2>1
    <2>3. \A i \in fitting(end) : f <= i
      <3>1. fitting(end) # {}
        BY <1>2
      <3>2. \E m \in fitting(end) : \A i \in fitting(end) : m <= i
        BY <3>1, <1>4, SmallestExists
      <3>3. PICK m \in fitting(end) : \A i \in fitting(end) : m <= i
        BY <3>2
      <3>4. f = m
        BY <3>3, <1>4, FirstIs
      <3> QED
        BY <3>3, <3>4
    <2>4. fitting(end) = (last..end) \ Oversized[s]
      BY <2>1
    <2>5. items \subseteq last..end /\ items \intersect Oversized[s] = {}
      BY <2>4, <1>2
    <2> HIDE DEF f, fitting, offered
    <2>6. last..f - 1 \subseteq Discarded(s)
      BY <2>2, <2>3, <2>4, <1>1, <1>3
    <2>7. \A i \in items : f <= i /\ i \notin Discarded(s)
      BY <2>3, <2>5, <1>1, <1>2
    <2>8. PICK n \in Nat : Covers(s, items, last, n) /\ items = f..n - 1
      BY <1>4, <1>6, <2>2, <2>6, <2>7, AcceptedCovers
    <2>9. n - 1 \in items /\ n - 1 <= end
      BY <2>5, <2>8, <1>3 DEF Covers
    <2>10. skipped(end, items) = n..end
      <3>1. skipped(end, items) = {i \in (last..end) \ (f..n - 1) : i > f}
        BY <2>1, <2>8 DEF f
      <3> QED
        BY <3>1, <2>2, <2>8, <2>9, <1>3
    <2>11. n <= after(end) /\ kept(end, items) = n..after(end) - 1
      <3>1. kept(end, items) = (n..end) \union {i \in last..read[s] - 1 : i > end}
        BY <2>10, <1>6
      <3>2. CASE end >= read[s]
        BY <3>1, <3>2, <2>9, <1>1, <1>3
      <3>3. CASE ~(end >= read[s])
        BY <3>1, <3>3, <2>2, <2>9, <2>8, <1>1, <1>3
      <3> QED
        BY <3>2, <3>3
    <2> QED
      BY <2>8, <2>11
  <1>7. Deliver(s, items, kept(end, items), after(end))
    BY <1>2
  <1> HIDE DEF kept, after
  <1>8. WellFormed(s, items, kept(end, items), after(end))
    BY <1>0, <1>6 DEF WellFormed
  <1> HIDE DEF fitting
  <1> QED
    BY <1>0, <1>4, <1>5, <1>7, <1>8, FormHolds

-----------------------------------------------------------------------------
LEMMA FetchHolds ==
    ASSUME IInv, Fetch
    PROVE  IInv'
  <1> USE DEF IInv
  <1>a. batch.items = {} /\ up /\ steps < MaxIter * GradAccum /\ queue[Drawn] # <<>>
    BY DEF Fetch, CanFetch
  <1>b. globalId = steps /\ Drawn[1] = Selection[steps]
    BY <1>a DEF PickInv, Drawn
  <1>c. Drawn \in Streams
    <2>1. steps \in 0..MaxIter * GradAccum - 1
      <3>1. MaxIter * GradAccum \in Nat
        BY DataflowAssumption
      <3> QED
        BY <1>a, <3>1 DEF TypeInv
    <2>2. Selection[globalId] \in Loaders
      BY <1>b, <2>1, DataflowAssumption
    <2>3. turn[Selection[globalId]] \in Workers
      BY <2>2 DEF TypeInv
    <2> QED
      BY <2>2, <2>3 DEF Drawn, Streams
  <1>3. PICK d \in Streams : d = Drawn
    BY <1>c
  <1>d. PICK h : h = Head(queue[d])
    OBVIOUS
  <1>1. batch.items = {} /\ up /\ queue[d] # <<>>
    BY <1>a, <1>3
  <1>2. globalId = steps /\ d[1] = Selection[steps]
    BY <1>b, <1>3
  <1>4. queue[d] \in Seq(SUBSET Nat) /\ h \in SUBSET Nat /\ Tail(queue[d]) \in Seq(SUBSET Nat)
    BY <1>1, <1>3, <1>d DEF TypeInv
  <1>5. Contiguous(d, h) /\ batch' = [stream |-> d, items |-> h]
    BY <1>3, <1>d DEF Fetch
  <1>6. PICK last \in Nat :
            /\ Chain(d, Base(d), queue[d], last)
            /\ Accepted(d, queue[d]) => last <= read[d] /\ held[d] = last..read[d] - 1
    BY <1>3 DEF StreamInv, QueueInv
  <1>7. Base(d) = From(d) /\ From(d) \in Nat
    BY <1>1, <1>3, StartInNat DEF Base, From, TypeInv
  <1>8. PICK next \in Nat : Covers(d, h, From(d), next) /\ Chain(d, next, Tail(queue[d]), last)
    BY <1>1, <1>3, <1>d, <1>4, <1>5, <1>6, <1>7, ChainTail
  <1>9. h # {} /\ Greatest(h) + 1 = next
    BY <1>3, <1>4, <1>7, <1>8, CoversGreatest DEF Covers
  <1>10. queue' = [queue EXCEPT ![d] = Tail(@)] /\ UNCHANGED <<read, held, position, trained>>
    BY <1>3 DEF Fetch, history
  <1>11. \A t \in Streams : From(t)' = From(t)
    BY <1>10 DEF From
  <1>12. TypeInv'
    <2>1. turn' \in [Loaders -> Workers]
      <3>1. \A w \in Workers : (w + 1) % NumWorkers \in Workers
        BY DataflowAssumption DEF Workers
      <3>2. d[1] \in Loaders
        BY <1>3 DEF Streams
      <3>3. turn' = [turn EXCEPT ![d[1]] = (@ + 1) % NumWorkers]
        BY <1>3 DEF Fetch
      <3> QED
        BY <3>1, <3>2, <3>3 DEF TypeInv
    <2>2. batch' \in [stream : Streams, items : SUBSET Nat]
      BY <1>3, <1>4, <1>5
    <2>3. queue' \in [Streams -> Seq(SUBSET Nat)]
      BY <1>4, <1>10 DEF TypeInv
    <2>4. globalId' \in Nat
      BY DEF Fetch, TypeInv
    <2> QED
      BY <2>1, <2>2, <2>3, <2>4 DEF Fetch, TypeInv, history
  <1>13. BatchInv'
    <2>1. batch'.stream = d /\ batch'.items = h
      BY <1>5
    <2>2. From(d)' = From(d)
      BY <1>3, <1>11
    <2>3. Covers(d, h, From(d)', next)
      BY <1>8, <2>2
    <2> QED
      BY <2>1, <2>3, <1>5 DEF BatchInv, Covers, Stretch, Discarded
  <1>14. ASSUME NEW t \in Streams PROVE QueueInv(t)'
    <2>1. CASE t = d
      <3>1. Base(t)' = next
        BY <2>1, <1>5, <1>9 DEF Base, Greatest
      <3>2. queue'[t] = Tail(queue[d]) /\ read'[t] = read[d] /\ held'[t] = held[d]
        BY <2>1, <1>3, <1>10 DEF TypeInv
      <3>3. Accepted(d, Tail(queue[d])) => Accepted(d, queue[d])
        <4>1. \A k \in 2..Len(queue[d]) :
                  k - 1 \in 1..Len(Tail(queue[d])) /\ Tail(queue[d])[k - 1] = queue[d][k]
          BY <1>1, <1>4
        <4>2. Head(queue[d]) = queue[d][1] /\ Len(queue[d]) \in Nat
          BY <1>1, <1>4
        <4>3. ASSUME Accepted(d, Tail(queue[d])), NEW k \in 1..Len(queue[d])
              PROVE  Contiguous(d, queue[d][k])
          <5>1. CASE k = 1
            BY <5>1, <4>2, <1>5, <1>d
          <5>2. CASE k # 1
            <6>1. k \in 2..Len(queue[d])
              BY <5>2, <4>2
            <6>2. k - 1 \in DOMAIN Tail(queue[d]) /\ Tail(queue[d])[k - 1] = queue[d][k]
              BY <6>1, <4>1, <1>4
            <6>3. Contiguous(d, Tail(queue[d])[k - 1])
              BY <6>2, <4>3 DEF Accepted
            <6> QED
              BY <6>2, <6>3
          <5> QED
            BY <5>1, <5>2
        <4> QED
          BY <4>3, <1>4 DEF Accepted
      <3>4. /\ Chain(t, next, Tail(queue[d]), last)
            /\ Accepted(t, Tail(queue[d])) => last <= read[d] /\ held[d] = last..read[d] - 1
        BY <1>6, <1>8, <2>1, <3>3
      <3> QED
        BY <3>1, <3>2, <3>4 DEF QueueInv
    <2>2. CASE t # d
      <3>1. Base(t)' = Base(t)
        BY <2>2, <1>1, <1>5, <1>11 DEF Base
      <3>2. queue'[t] = queue[t] /\ read'[t] = read[t] /\ held'[t] = held[t]
        BY <2>2, <1>10 DEF TypeInv
      <3> QED
        BY <3>1, <3>2 DEF StreamInv, QueueInv
    <2> QED
      BY <2>1, <2>2
  <1>15. StreamInv'
    BY <1>10, <1>11, <1>13, <1>14 DEF StreamInv, Stretch, Discarded
  <1>16. SavedInv'
    BY DEF Fetch, SavedInv, Stretch, Discarded
  <1>17. PickInv'
    BY <1>1, <1>2, <1>5, <1>9 DEF Fetch, PickInv, history
  <1> QED
    BY <1>12, <1>15, <1>16, <1>17

LEMMA TrainHolds ==
    ASSUME IInv, Train
    PROVE  IInv'
  <1> USE DEF IInv
  <1>a. batch.stream \in Streams /\ batch.items \in SUBSET Nat /\ batch.items # {}
    BY DEF Train, TypeInv
  <1>1. PICK s \in Streams, g \in SUBSET Nat : s = batch.stream /\ g = batch.items /\ g # {}
    BY <1>a
  <1>2. Contiguous(s, g) /\ From(s) \in Nat
    BY <1>1, StartInNat DEF StreamInv, BatchInv, From, TypeInv
  <1>3. PICK next \in Nat : Covers(s, g, From(s), next)
    BY <1>1 DEF StreamInv, BatchInv
  <1>4. Recorded(s, g) \in Positions /\ Start(s, Recorded(s, g)) = next
    BY <1>1, <1>2, <1>3, RecordedAdvances DEF TypeInv
  <1>5. Greatest(g) + 1 = next /\ next > From(s)
    BY <1>1, <1>2, <1>3, CoversGreatest
  <1>6. /\ position' = [position EXCEPT ![s] = Recorded(s, g)]
        /\ trained' = [trained EXCEPT ![s] = @ \union g]
        /\ picks' = Append(picks, s[1])
        /\ steps' = steps + 1 /\ batch' = [batch EXCEPT !.items = {}]
        /\ UNCHANGED <<read, held, queue, turn, globalId, up, saved, runs>>
    BY <1>1 DEF Train, workerVars
  <1>7. position'[s] = Recorded(s, g) /\ trained'[s] = trained[s] \union g /\ batch'.items = {}
    BY <1>1, <1>6 DEF TypeInv
  <1>8. From(s)' = next
    BY <1>4, <1>7 DEF From, Start, SliceLength
  <1>9. \A t \in Streams : t # s => From(t)' = From(t) /\ trained'[t] = trained[t]
    BY <1>6 DEF From, Start, TypeInv
  <1>10. TypeInv'
    <2>1. position' \in [Streams -> Positions] /\ trained' \in [Streams -> SUBSET Nat]
      BY <1>1, <1>4, <1>6 DEF TypeInv
    <2>2. picks' \in Seq(Loaders)
      <3>1. s[1] \in Loaders
        BY <1>1 DEF Streams
      <3> QED
        BY <3>1, <1>6 DEF TypeInv
    <2>3. batch' \in [stream : Streams, items : SUBSET Nat] /\ steps' \in Nat
      <3>1. batch \in [stream : Streams, items : SUBSET Nat] /\ {} \in SUBSET Nat
        BY DEF TypeInv
      <3>2. [batch EXCEPT !.items = {}] \in [stream : Streams, items : SUBSET Nat]
        BY <3>1
      <3> QED
        BY <3>2, <1>6 DEF TypeInv
    <2> QED
      BY <2>1, <2>2, <2>3, <1>6 DEF TypeInv
  <1>11. ASSUME NEW t \in Streams PROVE Base(t)' = Base(t)
    <2>1. Base(t)' = From(t)'
      BY <1>7 DEF Base
    <2>2. CASE t = s
      BY <2>1, <2>2, <1>1, <1>5, <1>8 DEF Base
    <2>3. CASE t # s
      BY <2>1, <2>3, <1>1, <1>9 DEF Base
    <2> QED
      BY <2>2, <2>3
  <1>12. ASSUME NEW t \in Streams PROVE QueueInv(t)'
    BY <1>6, <1>11 DEF StreamInv, QueueInv
  <1>13. ASSUME NEW t \in Streams PROVE trained'[t] = Stretch(t, 0, From(t)')
    <2>1. CASE t # s
      BY <2>1, <1>9 DEF StreamInv
    <2>2. CASE t = s
      <3>1. trained'[t] = Stretch(s, 0, From(s)) \union Stretch(s, From(s), next)
        BY <2>2, <1>1, <1>3, <1>7 DEF StreamInv, Covers
      <3>2. @ = Stretch(s, 0, next)
        BY <1>2, <1>5 DEF Stretch
      <3> QED
        BY <3>1, <3>2, <2>2, <1>8
    <2> QED
      BY <2>1, <2>2
  <1>14. StreamInv'
    BY <1>6, <1>7, <1>12, <1>13 DEF StreamInv, BatchInv, Stretch, Discarded
  <1>15. SavedInv'
    BY <1>6 DEF SavedInv, Stretch, Discarded
  <1>16. PickInv'
    <2>1. Len(picks') = Len(picks) + 1 /\ picks'[Len(picks) + 1] = s[1]
            /\ \A k \in 1..Len(picks) : picks'[k] = picks[k]
      BY <1>6 DEF TypeInv
    <2>2. s[1] = Selection[steps] /\ Len(picks) = steps
      BY <1>1 DEF PickInv
    <2>3. ASSUME NEW k \in 1..Len(picks') PROVE picks'[k] = Selection[k - 1]
      <3>1. Len(picks) \in Nat /\ (Len(picks) + 1) - 1 = Len(picks)
        BY DEF TypeInv
      <3>2. CASE k = Len(picks) + 1
        BY <3>1, <3>2, <2>1, <2>2
      <3>3. CASE k # Len(picks) + 1
        <4>1. k \in 1..Len(picks)
          BY <3>1, <3>3, <2>1
        <4> QED
          BY <4>1, <2>1 DEF PickInv
      <3> QED
        BY <3>2, <3>3
    <2>4. up' => globalId' = steps'
      BY <1>1, <1>6 DEF PickInv
    <2> QED
      BY <2>1, <2>2, <2>3, <2>4, <1>6, <1>7 DEF PickInv
  <1> QED
    BY <1>10, <1>14, <1>15, <1>16

(* What the invariant says of the streams does not depend on the rest of the job. *)
LEMMA SameStreams ==
    ASSUME TypeInv, StreamInv, UNCHANGED <<read, held, queue, batch, position, trained>>
    PROVE  StreamInv'
  <1>1. ASSUME NEW t \in Streams PROVE Base(t)' = Base(t) /\ From(t)' = From(t)
    BY DEF Base, From, Start, Greatest
  <1>2. ASSUME NEW t \in Streams PROVE QueueInv(t)'
    BY <1>1 DEF StreamInv, QueueInv
  <1>3. BatchInv'
    <2>1. batch.stream \in Streams
      BY DEF TypeInv
    <2>2. From(batch.stream)' = From(batch.stream)
      BY <2>1 DEF From, Start
    <2> QED
      BY <2>2 DEF StreamInv, BatchInv
  <1> QED
    BY <1>1, <1>2, <1>3 DEF StreamInv, Stretch, Discarded

LEMMA SaveHolds ==
    ASSUME IInv, Save
    PROVE  IInv'
  <1> USE DEF IInv
  <1>1. /\ batch.items = {} /\ steps % GradAccum = 0
        /\ saved' = [iteration |-> steps \div GradAccum, position |-> position,
                     trained |-> trained, picks |-> picks]
        /\ UNCHANGED <<read, held, queue, turn, globalId, batch, position, steps, up, trained, picks>>
    BY DEF Save, workerVars, history
  <1>2. steps \in Nat /\ GradAccum \in Nat \ {0}
    BY DataflowAssumption DEF TypeInv
  <1>3. steps \div GradAccum \in Nat /\ (steps \div GradAccum) * GradAccum = steps
    <2>1. /\ steps \div GradAccum \in Nat
          /\ steps = GradAccum * (steps \div GradAccum) + (steps % GradAccum)
      BY <1>2, DivMod
    <2>2. steps = GradAccum * (steps \div GradAccum)
      BY <2>1, <1>1, <1>2
    <2> QED
      BY <2>1, <2>2, <1>2
  <1>4. TypeInv'
    BY <1>1, <1>3 DEF TypeInv
  <1>5. StreamInv'
    BY <1>1, SameStreams
  <1>6. SavedInv'
    BY <1>1 DEF SavedInv, StreamInv, From, Stretch, Discarded, Start
  <1>7. PickInv'
    BY <1>1, <1>3 DEF PickInv
  <1> QED
    BY <1>4, <1>5, <1>6, <1>7

LEMMA StopHolds ==
    ASSUME IInv, Kill \/ FetchRefused
    PROVE  IInv'
  <1> USE DEF IInv
  <1>1. up' = FALSE /\ UNCHANGED <<read, held, queue, turn, globalId, batch, position, steps,
                                    saved, trained, picks>>
    BY DEF Kill, FetchRefused, workerVars, history
  <1>2. StreamInv'
    BY <1>1, SameStreams
  <1>3. TypeInv' /\ SavedInv' /\ PickInv'
    BY <1>1 DEF TypeInv, SavedInv, PickInv, Stretch, Discarded, Start
  <1> QED
    BY <1>2, <1>3

LEMMA RestartHolds ==
    ASSUME IInv, Restart
    PROVE  IInv'
  <1> USE DEF IInv
  <1>1. /\ up' = TRUE
        /\ read' = [s \in Streams |-> Start(s, saved.position[s])]
        /\ held' = [s \in Streams |-> {}]
        /\ queue' = [s \in Streams |-> <<>>]
        /\ turn' = [l \in Loaders |-> 0]
        /\ globalId' = ResumeFetchCount(saved.iteration)
        /\ position' = saved.position
        /\ steps' = saved.iteration * GradAccum
        /\ batch' = [batch EXCEPT !.items = {}]
        /\ trained' = saved.trained /\ picks' = saved.picks /\ saved' = saved
    BY DEF Restart
  <1>2. saved.iteration \in Nat /\ saved.position \in [Streams -> Positions]
          /\ saved.trained \in [Streams -> SUBSET Nat] /\ saved.picks \in Seq(Loaders)
    BY DEF TypeInv
  <1>3. saved.iteration * GradAccum \in Nat
    BY <1>2, DataflowAssumption
  <1>4. \A s \in Streams : Start(s, saved.position[s]) \in Nat
    BY <1>2, StartInNat
  <1>5. batch' \in [stream : Streams, items : SUBSET Nat] /\ batch'.items = {}
    <2>1. batch \in [stream : Streams, items : SUBSET Nat] /\ {} \in SUBSET Nat
      BY DEF TypeInv
    <2> QED
      BY <2>1, <1>1
  <1>6. TypeInv'
    <2>1. 0 \in Workers
      BY DataflowAssumption DEF Workers
    <2>2. read' \in [Streams -> Nat] /\ held' \in [Streams -> SUBSET Nat]
            /\ turn' \in [Loaders -> Workers]
      BY <2>1, <1>1, <1>4
    <2>3. queue' \in [Streams -> Seq(SUBSET Nat)]
      BY <1>1
    <2>4. globalId' \in Nat /\ steps' \in Nat /\ up' \in BOOLEAN
      BY <1>1, <1>3 DEF ResumeFetchCount
    <2> QED
      BY <2>2, <2>3, <2>4, <1>1, <1>2, <1>5 DEF TypeInv
  <1>7. ASSUME NEW s \in Streams
        PROVE  From(s)' = Start(s, saved.position[s]) /\ Base(s)' = From(s)'
    BY <1>1, <1>5 DEF From, Base, Start
  <1>8. ASSUME NEW s \in Streams PROVE QueueInv(s)'
    <2> DEFINE n == Start(s, saved.position[s])
    <2>1. n \in Nat
      BY <1>4
    <2>2. queue'[s] = <<>> /\ held'[s] = {} /\ read'[s] = n /\ Base(s)' = n
      BY <1>1, <1>7
    <2> HIDE DEF n
    <2>3. Chain(s, n, queue'[s], n)
      BY <2>1, <2>2, ChainEmpty
    <2>4. n <= read'[s] /\ held'[s] = n..read'[s] - 1
      BY <2>1, <2>2
    <2> QED
      BY <2>1, <2>2, <2>3, <2>4 DEF QueueInv
  <1>9. StreamInv'
    BY <1>1, <1>5, <1>7, <1>8 DEF StreamInv, BatchInv, SavedInv, Stretch, Discarded
  <1>10. SavedInv'
    BY <1>1 DEF SavedInv, Stretch, Discarded, Start
  <1>11. PickInv'
    BY <1>1, <1>3, <1>5 DEF PickInv, ResumeFetchCount
  <1> QED
    BY <1>6, <1>9, <1>10, <1>11

LEMMA StutterHolds ==
    ASSUME IInv, UNCHANGED vars
    PROVE  IInv'
  <1> USE DEF IInv
  <1>1. UNCHANGED <<read, held, queue, turn, globalId, batch, position, steps, up, saved,
                    trained, picks>>
    BY DEF vars, workerVars, history
  <1>2. StreamInv'
    BY <1>1, SameStreams
  <1>3. TypeInv' /\ SavedInv' /\ PickInv'
    BY <1>1 DEF TypeInv, SavedInv, PickInv, Stretch, Discarded, Start
  <1> QED
    BY <1>2, <1>3

(* The invariant holds in every reachable state. *)
THEOREM Invariant == Spec => []IInv
  <1>1. ASSUME IInv, [Next]_vars PROVE IInv'
    <2>1. ASSUME NEW s \in Streams, Form(s) PROVE IInv'
      BY <1>1, <2>1, FormSimpleHolds, FormPoolHolds, FormSequentialHolds DEF Form
    <2>2. CASE Fetch \/ Train \/ Save
      BY <1>1, <2>2, FetchHolds, TrainHolds, SaveHolds
    <2>3. CASE Kill \/ FetchRefused \/ Restart
      BY <1>1, <2>3, StopHolds, RestartHolds
    <2>4. CASE UNCHANGED vars
      BY <1>1, <2>4, StutterHolds
    <2> QED
      BY <1>1, <2>1, <2>2, <2>3, <2>4 DEF Next
  <1> QED
    BY <1>1, InitHolds, PTL DEF Spec
-----------------------------------------------------------------------------
(* What the trainer has of a stream is the stream up to some item, but for the discarded ones.   *)
LEMMA DeliveredStretch ==
    ASSUME IInv, NEW s \in Streams
    PROVE  \E n \in Nat : Delivered(s) = Stretch(s, 0, n)
  <1> USE DEF IInv
  <1>1. From(s) \in Nat /\ trained[s] = Stretch(s, 0, From(s))
    BY StartInNat DEF From, TypeInv, StreamInv
  <1>2. CASE batch.items # {} /\ batch.stream = s
    <2>1. PICK n \in Nat : Covers(s, batch.items, From(s), n)
      BY <1>2 DEF StreamInv, BatchInv
    <2>2. n > From(s)
      BY <1>1, <2>1, CoversGreatest DEF TypeInv
    <2>3. Delivered(s) = Stretch(s, 0, From(s)) \union Stretch(s, From(s), n)
      BY <1>1, <1>2, <2>1 DEF Delivered, Covers
    <2>4. @ = Stretch(s, 0, n)
      BY <1>1, <2>2 DEF Stretch
    <2> QED
      BY <2>3, <2>4
  <1>3. CASE ~(batch.items # {} /\ batch.stream = s)
    BY <1>1, <1>3 DEF Delivered
  <1> QED
    BY <1>2, <1>3

(* The trainer never goes past an item of a stream that it has neither trained on nor lost to    *)
(* the token budget, for any dataset, batcher, prefetching and interruption.                     *)
THEOREM NothingSkippedCorrect == Spec => []NothingSkipped
  <1>1. ASSUME IInv PROVE NothingSkipped
    <2> SUFFICES ASSUME NEW s \in Streams, NEW i \in Delivered(s), NEW j \in 0..i - 1
                 PROVE  j \in Delivered(s) \union Discarded(s)
      BY DEF NothingSkipped
    <2>1. PICK n \in Nat : Delivered(s) = Stretch(s, 0, n)
      BY <1>1, DeliveredStretch
    <2> QED
      BY <2>1 DEF Stretch
  <1> QED
    BY <1>1, Invariant, PTL

(* No batch holds an item its stream has been trained on in the runs this one continues.         *)
THEOREM NothingRepeatedCorrect == Spec => []NothingRepeated
  <1>1. ASSUME IInv PROVE NothingRepeated
    <2> SUFFICES ASSUME NEW i \in batch.items, i \in trained[batch.stream] PROVE FALSE
      BY DEF NothingRepeated
    <2>1. batch.stream \in Streams
      BY <1>1 DEF IInv, TypeInv
    <2>2. PICK n \in Nat : Covers(batch.stream, batch.items, From(batch.stream), n)
      BY <1>1 DEF IInv, StreamInv, BatchInv
    <2>3. From(batch.stream) \in Nat
            /\ trained[batch.stream] = Stretch(batch.stream, 0, From(batch.stream))
      BY <1>1, <2>1, StartInNat DEF IInv, From, TypeInv, StreamInv
    <2> QED
      BY <2>2, <2>3 DEF Covers, Stretch
  <1> QED
    BY <1>1, Invariant, PTL

(* Over all runs the datasets are drawn as in one that was never interrupted.                    *)
THEOREM SelectionResumesCorrect == Spec => []SelectionResumes
  <1>1. IInv => SelectionResumes
    BY DEF IInv, PickInv, SelectionResumes
  <1> QED
    BY <1>1, Invariant, PTL
-----------------------------------------------------------------------------
(* Batches of one sample, and fixed-size batches that divide the slice.  The invariant says of   *)
(* the latter that every position, recorded or reached, is a whole number of batches.            *)
Single(items) == \E i \in Nat : items = {i}

Divides(s) == Batcher[s[1]] = "simple" /\ SliceLength(s) % MaxBatch[s[1]] = 0

Whole(s, n) == \E k \in Nat : n = MaxBatch[s[1]] * k

Block(s, items) ==
    \E k \in Nat : items = MaxBatch[s[1]] * k..MaxBatch[s[1]] * k + MaxBatch[s[1]] - 1

SingleInv(s) == MaxBatch[s[1]] = 1 => \A k \in DOMAIN queue[s] : Single(queue[s][k])

WholeInv(s) ==
    Divides(s) =>
        /\ Whole(s, read[s]) /\ Whole(s, From(s)) /\ Whole(s, Start(s, saved.position[s]))
        /\ \A k \in DOMAIN queue[s] : Block(s, queue[s][k])
        /\ batch.items # {} /\ batch.stream = s => Block(s, batch.items)

SupportedInv == \A s \in Streams : SingleInv(s) /\ WholeInv(s)

LEMMA QuotientUnique ==
    ASSUME NEW n \in Nat, NEW e \in Nat, NEW x \in Nat, x < n
    PROVE  (n * e + x) \div n = e /\ (n * e + x) % n = x
  <1>1. PICK p \in Nat : p = n * e
    <2>1. n * e \in Nat
      OBVIOUS
    <2> QED
      BY <2>1
  <1>2. PICK q \in Nat, r \in Nat : /\ q = (p + x) \div n /\ r = (p + x) % n
                                    /\ r < n /\ p + x = n * q + r
    <2>1. p + x \in Nat /\ n >= 1
      BY <1>1
    <2> QED
      BY <2>1, DivMod
  <1>3. n * q \in Nat
    OBVIOUS
  <1>4. ~(q < e)
    <2> SUFFICES ASSUME q < e PROVE FALSE
      OBVIOUS
    <2>1. n * q + n <= n * e
      BY LaterEpoch
    <2> QED
      BY <2>1, <1>1, <1>2, <1>3
  <1>5. ~(e < q)
    <2> SUFFICES ASSUME e < q PROVE FALSE
      OBVIOUS
    <2>1. n * e + n <= n * q
      BY LaterEpoch
    <2> QED
      BY <2>1, <1>1, <1>2, <1>3
  <1>6. q = e
    BY <1>4, <1>5
  <1>7. r = x
    BY <1>1, <1>2, <1>6
  <1> QED
    BY <1>1, <1>2, <1>6, <1>7

LEMMA SingleContiguous ==
    ASSUME NEW s \in Streams, NEW items, Single(items)
    PROVE  Contiguous(s, items)
  <1>1. PICK i \in Nat : items = {i}
    BY DEF Single
  <1>2. {Index(s, j) : j \in items} = {Index(s, i)}
    BY <1>1
  <1>3. Index(s, i) \in Nat
    BY Place
  <1>4. {Index(s, i)} = Index(s, i)..Index(s, i)
    BY <1>3
  <1> QED
    BY <1>1, <1>2, <1>4 DEF Contiguous

LEMMA BatchSize ==
    ASSUME NEW s \in Streams
    PROVE  MaxBatch[s[1]] \in Nat /\ MaxBatch[s[1]] >= 1
  BY DataflowAssumption DEF Streams

(* A block lies within one epoch, and its indices follow each other.                             *)
LEMMA BlockContiguous ==
    ASSUME NEW s \in Streams, NEW items, Divides(s), Block(s, items)
    PROVE  Contiguous(s, items)
  <1>1. PICK m \in Nat, n \in Nat : m = MaxBatch[s[1]] /\ n = SliceLength(s) /\ m >= 1 /\ n >= 1
    BY BatchSize, SliceLengthPositive
  <1>2. PICK k \in Nat : items = m * k..m * k + m - 1
    BY <1>1 DEF Block
  <1>3. PICK c \in Nat : n = m * c
    <2>1. n % m = 0
      BY <1>1 DEF Divides
    <2>2. n \div m \in Nat /\ n = m * (n \div m) + (n % m)
      BY <1>1, DivMod
    <2>3. n = m * (n \div m)
      BY <2>1, <2>2, <1>1
    <2> QED
      BY <2>2, <2>3
  <1>4. c >= 1
    <2> SUFFICES ASSUME c = 0 PROVE FALSE
      OBVIOUS
    <2> QED
      BY <1>1, <1>3
  <1>5. PICK e \in Nat, r \in Nat : k = c * e + r /\ r < c
    <2>1. k \div c \in Nat /\ k % c \in Nat /\ k % c < c /\ k = c * (k \div c) + (k % c)
      BY <1>4, DivMod
    <2> QED
      BY <2>1
  <1>6. m * k = n * e + m * r
    <2>1. m * (c * e + r) = (m * c) * e + m * r
      OBVIOUS
    <2> QED
      BY <2>1, <1>3, <1>5
  <1>7. m * r + m <= n
    <2>1. m * r + m <= m * c
      BY <1>1, <1>5, LaterEpoch
    <2> QED
      BY <2>1, <1>3
  <1>8. PICK p \in Nat, b \in Nat : p = n * e /\ b = m * r
    <2>1. n * e \in Nat /\ m * r \in Nat
      OBVIOUS
    <2> QED
      BY <2>1
  <1>9. ASSUME NEW i \in items PROVE Epoch(s, i) = e /\ Index(s, i) = i - p
    <2>1. i \in Nat /\ i - p \in Nat /\ i - p < n /\ i = p + (i - p)
      BY <1>2, <1>6, <1>7, <1>8
    <2>2. (n * e + (i - p)) \div n = e /\ (n * e + (i - p)) % n = i - p
      BY <2>1, QuotientUnique
    <2>3. n * e + (i - p) = i
      BY <2>1, <1>8
    <2> QED
      BY <2>2, <2>3, <1>1 DEF Epoch, Index
  <1>10. items = p + b..p + b + m - 1
    BY <1>2, <1>6, <1>8
  <1>11. {Index(s, i) : i \in items} = b..b + m - 1
    <2>1. ASSUME NEW x \in b..b + m - 1 PROVE x \in {Index(s, i) : i \in items}
      <3>1. p + x \in items /\ (p + x) - p = x
        BY <1>8, <1>10
      <3> QED
        BY <3>1, <1>9
    <2>2. ASSUME NEW i \in items PROVE Index(s, i) \in b..b + m - 1
      BY <1>9, <1>10
    <2> QED
      BY <2>1, <2>2
  <1>12. b \in b..b + m - 1 /\ b + m - 1 \in b..b + m - 1
    BY <1>1
  <1> QED
    BY <1>9, <1>11, <1>12 DEF Contiguous

LEMMA WholeNext ==
    ASSUME NEW s \in Streams, NEW n \in Nat, Whole(s, n), NEW next \in Nat, NEW items,
           next = n + MaxBatch[s[1]], items = n..next - 1
    PROVE  Whole(s, next) /\ Block(s, items)
  <1>1. PICK m \in Nat : m = MaxBatch[s[1]]
    BY BatchSize
  <1>2. PICK k \in Nat : n = m * k
    BY <1>1 DEF Whole
  <1>3. m * (k + 1) = m * k + m /\ k + 1 \in Nat
    OBVIOUS
  <1>4. Whole(s, next)
    BY <1>1, <1>2, <1>3 DEF Whole
  <1>5. items = m * k..m * k + m - 1
    <2>1. next - 1 = n + m - 1 /\ n + m - 1 = m * k + m - 1
      BY <1>1, <1>2
    <2> QED
      BY <1>2, <2>1
  <1> QED
    BY <1>1, <1>4, <1>5 DEF Block

(* A batch that is a block ends where a block starts.                                            *)
LEMMA BlockEnds ==
    ASSUME NEW s \in Streams, NEW items \in SUBSET Nat, Block(s, items),
           NEW first \in Nat, NEW next \in Nat, Covers(s, items, first, next)
    PROVE  Whole(s, next)
  <1>1. PICK m \in Nat : m = MaxBatch[s[1]] /\ m >= 1
    BY BatchSize
  <1>2. PICK k \in Nat : items = m * k..m * k + m - 1
    BY <1>1 DEF Block
  <1>3. PICK p \in Nat : p = m * k
    <2>1. m * k \in Nat
      OBVIOUS
    <2> QED
      BY <2>1
  <1>4. next - 1 \in items /\ \A i \in items : i <= next - 1
    BY DEF Covers, Stretch
  <1>5. next = p + m
    <2>1. items = p..p + m - 1
      BY <1>2, <1>3
    <2>2. p + m - 1 \in items /\ \A i \in items : i <= p + m - 1
      BY <1>1, <2>1
    <2>3. p + m - 1 <= next - 1 /\ next - 1 <= p + m - 1
      BY <2>2, <1>4
    <2> QED
      BY <2>3
  <1>6. m * (k + 1) = m * k + m /\ k + 1 \in Nat
    OBVIOUS
  <1> QED
    BY <1>1, <1>3, <1>5, <1>6 DEF Whole

LEMMA OneSample ==
    ASSUME NEW S \in SUBSET Nat, IsFiniteSet(S), NEW items \in SUBSET S, NEW i \in items,
           Cardinality(items) <= 1
    PROVE  Single(items)
  <1>1. IsFiniteSet(items) /\ IsFiniteSet({i})
    BY FS_Subset, FS_Singleton
  <1>2. Cardinality({i}) = 1 /\ Cardinality(items) \in Nat
    BY <1>1, FS_Singleton, FS_CardinalityType
  <1>3. {i} \subseteq items /\ Cardinality({i}) <= Cardinality(items)
    BY <1>1, FS_Subset
  <1>4. Cardinality(items) = 1
    BY <1>2, <1>3
  <1>5. PICK x : items = {x}
    BY <1>1, <1>4, FS_Singleton
  <1> QED
    BY <1>5 DEF Single

LEMMA InitSupported == Init => SupportedInv
  <1> SUFFICES ASSUME Init PROVE SupportedInv
    OBVIOUS
  <1> SUFFICES ASSUME NEW s \in Streams PROVE SingleInv(s) /\ WholeInv(s)
    BY DEF SupportedInv
  <1>1. read[s] = 0 /\ queue[s] = <<>> /\ position[s] = NoPosition /\ batch.items = {}
        /\ saved.position[s] = NoPosition
    BY DEF Init, NoCheckpoint
  <1>2. Start(s, NoPosition) = 0
    <2>1. SliceLength(s) * 0 = 0
      BY SliceLengthPositive
    <2> QED
      BY <2>1 DEF Start, NoPosition
  <1>3. Whole(s, 0)
    <2>1. MaxBatch[s[1]] * 0 = 0
      BY BatchSize
    <2> QED
      BY <2>1 DEF Whole
  <1> QED
    BY <1>1, <1>2, <1>3 DEF SingleInv, WholeInv, From

(* Only the batch a worker has formed needs a look.                                              *)
LEMMA FormSupported ==
    ASSUME TypeInv, SupportedInv, NEW s \in Streams, NEW items \in SUBSET Nat, NEW kept,
           NEW next \in Nat, Deliver(s, items, kept, next),
           MaxBatch[s[1]] = 1 => Single(items),
           Divides(s) => Whole(s, next) /\ Block(s, items)
    PROVE  SupportedInv'
  <1> SUFFICES ASSUME NEW t \in Streams PROVE SingleInv(t)' /\ WholeInv(t)'
    BY DEF SupportedInv
  <1>1. From(t)' = From(t) /\ batch' = batch /\ saved' = saved
    BY DEF Deliver, From
  <1>2. CASE t # s
    <2>1. queue'[t] = queue[t] /\ read'[t] = read[t]
      BY <1>2 DEF Deliver, TypeInv
    <2> QED
      BY <1>1, <2>1 DEF SupportedInv, SingleInv, WholeInv
  <1>3. CASE t = s
    <2>1. queue[s] \in Seq(SUBSET Nat) /\ queue'[s] = Append(queue[s], items) /\ read'[s] = next
      BY DEF Deliver, TypeInv
    <2>2. \A k \in DOMAIN queue'[s] :
              (k \in DOMAIN queue[s] /\ queue'[s][k] = queue[s][k]) \/ queue'[s][k] = items
      BY <2>1
    <2>3. SingleInv(t)'
      BY <1>3, <2>2 DEF SupportedInv, SingleInv
    <2>4. WholeInv(t)'
      <3> SUFFICES ASSUME Divides(s) PROVE WholeInv(t)'
        BY <1>3 DEF WholeInv
      <3>1. \A k \in DOMAIN queue'[s] : Block(s, queue'[s][k])
        BY <2>2 DEF SupportedInv, WholeInv
      <3> QED
        BY <1>1, <1>3, <2>1, <3>1 DEF SupportedInv, WholeInv
    <2> QED
      BY <2>3, <2>4
  <1> QED
    BY <1>2, <1>3

LEMMA FormSimpleSupported ==
    ASSUME IInv, SupportedInv, NEW s \in Streams, FormSimple(s)
    PROVE  SupportedInv'
  <1>1. read[s] \in Nat /\ MaxBatch[s[1]] \in Nat /\ MaxBatch[s[1]] >= 1
    BY BatchSize DEF IInv, TypeInv
  <1>2. PICK next \in Nat, items \in SUBSET Nat :
            /\ next = read[s] + MaxBatch[s[1]] /\ items = read[s]..next - 1
            /\ Deliver(s, items, {}, next)
    BY <1>1 DEF FormSimple
  <1>3. MaxBatch[s[1]] = 1 => Single(items)
    <2>1. MaxBatch[s[1]] = 1 => items = {read[s]}
      BY <1>1, <1>2
    <2> QED
      BY <1>1, <2>1 DEF Single
  <1>4. Divides(s) => Whole(s, next) /\ Block(s, items)
    <2>1. Divides(s) => Whole(s, read[s])
      BY DEF SupportedInv, WholeInv
    <2> QED
      BY <1>1, <1>2, <2>1, WholeNext
  <1> QED
    BY <1>2, <1>3, <1>4, FormSupported DEF IInv

(* Where no batch has been refused, what the batcher holds back is a finite stretch.             *)
LEMMA HeldFinite ==
    ASSUME IInv, NEW s \in Streams, MayForm(s)
    PROVE  IsFiniteSet(held[s]) /\ held[s] \in SUBSET Nat /\ read[s] \in Nat
  <1>1. held[s] \in SUBSET Nat /\ read[s] \in Nat
    BY DEF IInv, TypeInv
  <1>2. PICK last \in Nat : Accepted(s, queue[s]) => held[s] = last..read[s] - 1
    BY DEF IInv, StreamInv, QueueInv
  <1>3. held[s] = last..read[s] - 1
    BY <1>2 DEF MayForm, Accepted
  <1>4. last \in Int /\ read[s] - 1 \in Int
    BY <1>1
  <1> QED
    BY <1>1, <1>3, <1>4, FS_Interval

LEMMA FormPoolSupported ==
    ASSUME IInv, SupportedInv, NEW s \in Streams, FormPool(s)
    PROVE  SupportedInv'
  <1>1. Batcher[s[1]] = "pool" /\ MayForm(s)
    BY DEF FormPool
  <1>2. IsFiniteSet(held[s]) /\ held[s] \in SUBSET Nat /\ read[s] \in Nat
    BY <1>1, HeldFinite
  <1>3. PICK next \in read[s]..read[s] + PoolSize :
            \E g \in SUBSET (held[s] \union (read[s]..next - 1)) :
               /\ First(held[s] \union (read[s]..next - 1)) \in g
               /\ Cardinality(g) <= MaxBatch[s[1]]
               /\ Deliver(s, g, (held[s] \union (read[s]..next - 1)) \ g, next)
    BY DEF FormPool
  <1>4. next \in Nat
    BY <1>2, DataflowAssumption
  <1>5. PICK pool : pool = held[s] \union (read[s]..next - 1)
    OBVIOUS
  <1>6. PICK items \in SUBSET pool :
            /\ First(pool) \in items /\ Cardinality(items) <= MaxBatch[s[1]]
            /\ Deliver(s, items, pool \ items, next)
    BY <1>3, <1>5
  <1>7. IsFiniteSet(pool) /\ pool \in SUBSET Nat
    <2>1. IsFiniteSet(read[s]..next - 1)
      BY <1>2, <1>4, FS_Interval
    <2>2. read[s]..next - 1 \subseteq Nat
      BY <1>2
    <2> QED
      BY <1>2, <1>5, <2>1, <2>2, FS_Union
  <1>8. MaxBatch[s[1]] = 1 => Single(items)
    BY <1>6, <1>7, OneSample
  <1>9. items \in SUBSET Nat /\ ~Divides(s)
    BY <1>1, <1>6, <1>7 DEF Divides
  <1> QED
    BY <1>4, <1>6, <1>8, <1>9, FormSupported DEF IInv

LEMMA FormSequentialSupported ==
    ASSUME IInv, SupportedInv, NEW s \in Streams, FormSequential(s)
    PROVE  SupportedInv'
  <1>1. Batcher[s[1]] = "sequential" /\ MayForm(s)
    BY DEF FormSequential
  <1>2. IsFiniteSet(held[s]) /\ held[s] \in SUBSET Nat /\ read[s] \in Nat
    BY <1>1, HeldFinite
  <1> DEFINE offered(e) == {i \in held[s] : i <= e} \union (read[s]..e)
             fitting(e) == offered(e) \ Oversized[s]
             kept(e, g) == {i \in offered(e) \ g : i > First(fitting(e))}
                              \union {i \in held[s] : i > e}
             after(e) == IF e >= read[s] THEN e + 1 ELSE read[s]
  <1>3. PICK end \in First(held[s] \union {read[s]})..
                       read[s] + MaxBatch[s[1]] + Lookahead + Cardinality(Oversized[s]) :
            \E g \in SUBSET fitting(end) :
               /\ First(fitting(end)) \in g /\ Cardinality(g) <= MaxBatch[s[1]]
               /\ Deliver(s, g, kept(end, g), after(end))
    BY DEF FormSequential
  <1>4. PICK items \in SUBSET fitting(end) :
            /\ First(fitting(end)) \in items /\ Cardinality(items) <= MaxBatch[s[1]]
            /\ Deliver(s, items, kept(end, items), after(end))
    BY <1>3
  <1>5. end \in Int /\ after(end) \in Nat
    BY <1>2
  <1>6. IsFiniteSet(offered(end)) /\ offered(end) \in SUBSET Nat
    <2>1. IsFiniteSet(read[s]..end)
      <3>1. read[s] \in Int /\ end \in Int
        BY <1>2
      <3> QED
        BY <3>1, FS_Interval
    <2>2. {i \in held[s] : i <= end} \in SUBSET held[s]
      OBVIOUS
    <2>3. IsFiniteSet({i \in held[s] : i <= end})
      BY <1>2, <2>2, FS_Subset
    <2>4. read[s]..end \subseteq Nat
      BY <1>2
    <2> QED
      BY <1>2, <2>1, <2>3, <2>4, FS_Union
  <1>7. items \in SUBSET offered(end)
    BY <1>4
  <1>8. MaxBatch[s[1]] = 1 => Single(items)
    <2> HIDE DEF offered, fitting, kept, after
    <2> QED
      BY <1>4, <1>6, <1>7, OneSample
  <1>9. items \in SUBSET Nat /\ ~Divides(s)
    BY <1>1, <1>6, <1>7 DEF Divides
  <1>10. Deliver(s, items, kept(end, items), after(end))
    BY <1>4
  <1> HIDE DEF offered, fitting, kept, after
  <1> QED
    BY <1>5, <1>8, <1>9, <1>10, FormSupported DEF IInv

LEMMA FetchSupported ==
    ASSUME IInv, SupportedInv, Fetch
    PROVE  SupportedInv'
  <1> SUFFICES ASSUME NEW t \in Streams PROVE SingleInv(t)' /\ WholeInv(t)'
    BY DEF SupportedInv
  <1>1. queue' = [queue EXCEPT ![Drawn] = Tail(@)] /\ queue[Drawn] # <<>>
        /\ batch' = [stream |-> Drawn, items |-> Head(queue[Drawn])]
        /\ UNCHANGED <<read, position, saved>>
    BY DEF Fetch, CanFetch
  <1>2. From(t)' = From(t)
    BY <1>1 DEF From
  <1>3. queue[t] \in Seq(SUBSET Nat)
    BY DEF IInv, TypeInv
  <1>4. CASE t # Drawn
    <2>1. queue'[t] = queue[t] /\ batch'.stream # t
      BY <1>1, <1>4 DEF IInv, TypeInv
    <2> QED
      BY <1>1, <1>2, <2>1 DEF SupportedInv, SingleInv, WholeInv
  <1>5. CASE t = Drawn
    <2>1. queue'[t] = Tail(queue[t]) /\ batch'.items = Head(queue[t]) /\ queue[t] # <<>>
      BY <1>1, <1>5 DEF IInv, TypeInv
    <2>2. \A k \in DOMAIN Tail(queue[t]) :
              k + 1 \in DOMAIN queue[t] /\ Tail(queue[t])[k] = queue[t][k + 1]
      BY <1>3, <2>1
    <2>3. 1 \in DOMAIN queue[t] /\ Head(queue[t]) = queue[t][1]
      BY <1>3, <2>1
    <2> QED
      BY <1>1, <1>2, <2>1, <2>2, <2>3 DEF SupportedInv, SingleInv, WholeInv
  <1> QED
    BY <1>4, <1>5

LEMMA TrainSupported ==
    ASSUME IInv, SupportedInv, Train
    PROVE  SupportedInv'
  <1> SUFFICES ASSUME NEW t \in Streams PROVE SingleInv(t)' /\ WholeInv(t)'
    BY DEF SupportedInv
  <1>1. PICK s \in Streams, g \in SUBSET Nat : s = batch.stream /\ g = batch.items /\ g # {}
    BY DEF IInv, TypeInv, Train
  <1>2. /\ position' = [position EXCEPT ![s] = Recorded(s, g)]
        /\ batch' = [batch EXCEPT !.items = {}]
        /\ UNCHANGED <<read, queue, saved>>
    BY <1>1 DEF Train, workerVars
  <1>3. batch'.items = {}
    BY <1>2 DEF IInv, TypeInv
  <1>4. Divides(t) => Whole(t, From(t)')
    <2> SUFFICES ASSUME Divides(t) PROVE Whole(t, From(t)')
      OBVIOUS
    <2>1. CASE t # s
      <3>1. From(t)' = From(t)
        BY <1>2, <2>1 DEF From, IInv, TypeInv
      <3> QED
        BY <3>1 DEF SupportedInv, WholeInv
    <2>2. CASE t = s
      <3>1. Contiguous(s, g) /\ From(s) \in Nat
        BY <1>1, StartInNat DEF IInv, StreamInv, BatchInv, From, TypeInv
      <3>2. PICK next \in Nat : Covers(s, g, From(s), next)
        BY <1>1 DEF IInv, StreamInv, BatchInv
      <3>3. Start(s, Recorded(s, g)) = next
        BY <3>1, <3>2, RecordedAdvances DEF IInv, TypeInv
      <3>4. From(s)' = next
        BY <1>2, <3>3 DEF From, IInv, TypeInv
      <3>5. Block(s, g)
        BY <1>1, <2>2 DEF SupportedInv, WholeInv
      <3> QED
        BY <2>2, <3>1, <3>2, <3>4, <3>5, BlockEnds
    <2> QED
      BY <2>1, <2>2
  <1> QED
    BY <1>2, <1>3, <1>4 DEF SupportedInv, SingleInv, WholeInv

LEMMA SaveSupported ==
    ASSUME SupportedInv, Save
    PROVE  SupportedInv'
  <1> SUFFICES ASSUME NEW t \in Streams PROVE SingleInv(t)' /\ WholeInv(t)'
    BY DEF SupportedInv
  <1>1. saved'.position = position /\ UNCHANGED <<read, queue, position, batch>>
    BY DEF Save, workerVars
  <1>2. From(t)' = From(t)
    BY <1>1 DEF From
  <1> QED
    BY <1>1, <1>2 DEF SupportedInv, SingleInv, WholeInv, From

LEMMA StopSupported ==
    ASSUME SupportedInv, Kill \/ FetchRefused \/ UNCHANGED vars
    PROVE  SupportedInv'
  <1>1. UNCHANGED <<read, queue, position, batch, saved>>
    BY DEF Kill, FetchRefused, vars, workerVars
  <1>2. \A t \in Streams : From(t)' = From(t)
    BY <1>1 DEF From
  <1> QED
    BY <1>1, <1>2 DEF SupportedInv, SingleInv, WholeInv

LEMMA RestartSupported ==
    ASSUME IInv, SupportedInv, Restart
    PROVE  SupportedInv'
  <1> SUFFICES ASSUME NEW t \in Streams PROVE SingleInv(t)' /\ WholeInv(t)'
    BY DEF SupportedInv
  <1>1. /\ read'[t] = Start(t, saved.position[t]) /\ queue'[t] = <<>>
        /\ position' = saved.position /\ saved' = saved /\ batch'.items = {}
    BY DEF Restart, IInv, TypeInv
  <1>2. From(t)' = Start(t, saved.position[t])
    BY <1>1 DEF From
  <1> QED
    BY <1>1, <1>2 DEF SupportedInv, SingleInv, WholeInv

THEOREM SupportedHolds == Spec => [](IInv /\ SupportedInv)
  <1>1. ASSUME IInv, SupportedInv, [Next]_vars PROVE SupportedInv'
    <2>1. ASSUME NEW s \in Streams, Form(s) PROVE SupportedInv'
      BY <1>1, <2>1, FormSimpleSupported, FormPoolSupported, FormSequentialSupported DEF Form
    <2>2. CASE Fetch \/ Train \/ Restart
      BY <1>1, <2>2, FetchSupported, TrainSupported, RestartSupported
    <2>3. CASE Save
      BY <1>1, <2>3, SaveSupported
    <2>4. CASE Kill \/ FetchRefused \/ UNCHANGED vars
      BY <1>1, <2>4, StopSupported
    <2> QED
      BY <1>1, <2>1, <2>2, <2>3, <2>4 DEF Next
  <1> QED
    BY <1>1, InitSupported, Invariant, PTL DEF Spec

(* Batches of one sample, and fixed-size batches that divide the slice of an epoch, can always   *)
(* be stamped: no worker raises, wherever the runs before were interrupted.                      *)
THEOREM SupportedNeverRefusedCorrect == Spec => []SupportedNeverRefused
  <1>1. ASSUME IInv, SupportedInv PROVE SupportedNeverRefused
    <2> SUFFICES ASSUME NEW s \in Streams, Supported(s), NEW k \in DOMAIN queue[s]
                 PROVE  Contiguous(s, queue[s][k])
      BY DEF SupportedNeverRefused
    <2>1. CASE MaxBatch[s[1]] = 1
      BY <1>1, <2>1, SingleContiguous DEF SupportedInv, SingleInv
    <2>2. CASE Divides(s)
      BY <1>1, <2>2, BlockContiguous DEF SupportedInv, WholeInv
    <2> QED
      BY <2>1, <2>2 DEF Supported, Divides
  <1> QED
    BY <1>1, SupportedHolds, PTL
=============================================================================
