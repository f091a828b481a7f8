------------------------- MODULE CPDataWindowProofs -------------------------
(***************************************************************************)
(* Proofs about the CP data window, for any CP size and any accumulation:  *)
(* the trainer's offset never drifts from the model's slot, the ranks own  *)
(* the steps of a run in turn, and no batch is replayed while at most one  *)
(* partial window was discarded.                                           *)
(***************************************************************************)
EXTENDS CPDataWindow, SequenceTheorems, TLAPS

TypeOK ==
    /\ pc \in [Ranks -> Pc]
    /\ stop \in [Ranks -> BOOLEAN]
    /\ window \in [Ranks -> Batch \cup {None}]
    /\ offset \in [Ranks -> Ranks]
    /\ data \in [Ranks -> Batch \cup {None}]
    /\ slot \in [Ranks -> Ranks]
    /\ payload \in [Ranks -> Batch \cup {None}]
    /\ pos \in [Ranks -> Nat]
    /\ accum \in Nat /\ iter \in Nat
    /\ ckpt \in [iter : Nat, trained : Seq(Batch), discarded : Nat]
    /\ trained \in Seq(Batch) /\ discarded \in Nat
    /\ base \in 0..Len(trained)

NextSlot(s) == IF s = CpSize - 1 THEN 0 ELSE s + 1

\* What a rank holds is its own.
OwnData(r) ==
    /\ window[r] # None => window[r].rank = r
    /\ data[r] # None => data[r].rank = r
    /\ payload[r] # None => payload[r].rank = r

\* The window is active exactly inside it.
ActiveInside(r) == window[r] = None <=> offset[r] = 0

\* Before a rank has taken its batch, offset and slot are equal and the model
\* holds a payload exactly if this is not the first slot ...
Before(r) ==
    /\ offset[r] = slot[r]
    /\ payload[r] = None <=> slot[r] = 0

\* ... and afterwards the trainer is one slot ahead.
After(r) == offset[r] = NextSlot(slot[r])

RankInv(r) ==
    /\ pc[r] # "failed"
    /\ pc[r] \in {"fetch", "done"} => Before(r) /\ ActiveInside(r)
    /\ pc[r] = "load" => Before(r) /\ ActiveInside(r) /\ slot[r] = 0
    /\ pc[r] = "vote" => Before(r) /\ slot[r] = 0 /\ (~stop[r] => window[r] # None)
    /\ pc[r] = "take" => Before(r) /\ window[r] # None
    /\ pc[r] = "encode" =>
         /\ After(r) /\ ActiveInside(r)
         /\ data[r] # None
         /\ payload[r] = None <=> slot[r] = 0
    /\ pc[r] = "step" => After(r) /\ ActiveInside(r) /\ payload[r] # None

SameSlot == \A r, s \in Ranks : slot[r] = slot[s]

\* The slot counts the steps of this run.
SlotCounts == \A r \in Ranks : slot[r] = (Len(trained) - base) % CpSize

WindowInvariant ==
    /\ TypeOK
    /\ \A r \in Ranks : OwnData(r) /\ RankInv(r)
    /\ SameSlot
    /\ SlotCounts
    /\ OwnersTakeTurns

-----------------------------------------------------------------------------
(* Rank 0 exists, and no batch is None. *)
LEMMA RankZero == 0 \in Ranks /\ CpSize \in Nat \ {0}
BY WindowAssumption DEF Ranks

LEMMA NoneIsNoBatch == \A b \in Batch : b # None /\ b.rank \in Ranks
BY RankZero DEF Batch, None, Ranks

(* Multiples of c lie at least c apart. *)
LEMMA Multiples ==
    ASSUME NEW c \in Nat \ {0}, NEW a \in Nat, NEW b \in Nat, a < b
    PROVE  c * b >= c * a + c
<1> DEFINE e == b - a - 1
<1>1. e \in Nat /\ b = a + 1 + e
  OBVIOUS
<1>2. c * b = c * a + c + c * e
  BY <1>1
<1>3. c * e \in Nat /\ c * a \in Nat
  BY <1>1
<1> QED BY <1>2, <1>3

(* The remainder is the only residue. *)
LEMMA Residue ==
    ASSUME NEW c \in Nat \ {0}, NEW a \in Nat, NEW b \in 0..c - 1
    PROVE  (c * a + b) % c = b
<1>1. PICK x \in Nat : x = c * a + b
  OBVIOUS
<1>2. PICK q \in Nat, m \in 0..c - 1 : x = c * q + m /\ m = x % c
  <2>1. x \div c \in Nat /\ x % c \in 0..c - 1 /\ x = c * (x \div c) + (x % c)
    OBVIOUS
  <2> QED BY <2>1
<1>3. ~(q < a)
  <2>1. SUFFICES ASSUME q < a PROVE FALSE
    OBVIOUS
  <2>2. c * a >= c * q + c
    BY <2>1, Multiples
  <2>3. PICK u \in Nat, v \in Nat : u = c * a /\ v = c * q
    OBVIOUS
  <2> QED BY <1>1, <1>2, <2>2, <2>3
<1>4. ~(a < q)
  <2>1. SUFFICES ASSUME a < q PROVE FALSE
    OBVIOUS
  <2>2. c * q >= c * a + c
    BY <2>1, Multiples
  <2>3. PICK u \in Nat, v \in Nat : u = c * a /\ v = c * q
    OBVIOUS
  <2> QED BY <1>1, <1>2, <2>2, <2>3
<1>5. a = q
  BY <1>3, <1>4
<1>6. PICK u \in Nat : u = c * a
  OBVIOUS
<1>7. b = m
  BY <1>1, <1>2, <1>5, <1>6
<1>8. (c * a + b) % c = x % c
  BY <1>1
<1> QED BY <1>2, <1>7, <1>8

(* The next residue. *)
LEMMA NextResidue ==
    ASSUME NEW n \in Nat, NEW c \in Nat \ {0}
    PROVE  /\ n % c \in 0..c - 1
           /\ (n + 1) % c = IF n % c = c - 1 THEN 0 ELSE (n % c) + 1
<1>1. PICK q \in Nat, m \in 0..c - 1 : n = c * q + m /\ m = n % c
  <2>1. n \div c \in Nat /\ n % c \in 0..c - 1 /\ n = c * (n \div c) + (n % c)
    OBVIOUS
  <2> QED BY <2>1
<1>2. CASE m = c - 1
  <2>1. n + 1 = c * (q + 1) + 0
    <3>1. c * (q + 1) = c * q + c
      OBVIOUS
    <3>2. PICK u \in Nat : u = c * q
      OBVIOUS
    <3> QED BY <1>1, <1>2, <3>1, <3>2
  <2>2. (c * (q + 1) + 0) % c = 0
    BY Residue
  <2> QED BY <1>1, <1>2, <2>1, <2>2
<1>3. CASE m # c - 1
  <2>1. n + 1 = c * q + (m + 1) /\ m + 1 \in 0..c - 1
    BY <1>1, <1>3
  <2>2. (c * q + (m + 1)) % c = m + 1
    BY <2>1, Residue
  <2> QED BY <1>1, <1>3, <2>1, <2>2
<1> QED BY <1>2, <1>3

(* The model's increment is the same as the trainer's. *)
LEMMA SlotIncrement == \A s \in Ranks : (s + 1) % CpSize = NextSlot(s) /\ NextSlot(s) \in Ranks
<1> SUFFICES ASSUME NEW s \in Ranks PROVE (s + 1) % CpSize = NextSlot(s) /\ NextSlot(s) \in Ranks
  OBVIOUS
<1>1. s \in 0..CpSize - 1 /\ CpSize * 0 + s = s /\ CpSize * 0 = 0
  BY RankZero DEF Ranks
<1>2. s % CpSize = s
  BY <1>1, RankZero, Residue
<1>3. s \in Nat
  BY <1>1, RankZero
<1>4. (s + 1) % CpSize = IF s % CpSize = CpSize - 1 THEN 0 ELSE (s % CpSize) + 1
  BY <1>3, RankZero, NextResidue
<1> QED BY <1>1, <1>2, <1>4, RankZero DEF Ranks, NextSlot

(* A natural number of windows is fetched before the resume position. *)
LEMMA ResumePosition == \A i \in Nat : ResumeFetchCount(i) \in Nat
<1> SUFFICES ASSUME NEW i \in Nat PROVE ResumeFetchCount(i) \in Nat
  OBVIOUS
<1>1. i * GradAccum \in Nat
  BY WindowAssumption
<1>2. i * GradAccum + CpSize - 1 \in Nat
  BY <1>1, RankZero
<1> QED BY <1>2, RankZero DEF ResumeFetchCount

LEMMA InitHolds == Init => WindowInvariant
<1> SUFFICES ASSUME Init PROVE WindowInvariant
  OBVIOUS
<1>1. TypeOK
  BY RankZero, ResumePosition DEF Init, TypeOK, Pc, NoCheckpoint
<1>2. \A r \in Ranks : OwnData(r) /\ RankInv(r)
  BY DEF Init, OwnData, RankInv, Before, ActiveInside
<1>3. SameSlot /\ OwnersTakeTurns
  BY DEF Init, SameSlot, OwnersTakeTurns
<1>4. SlotCounts
  <2>1. (0 - 0) % CpSize = 0 /\ Len(trained) = 0 /\ base = 0
    BY RankZero, SlotIncrement, NextResidue DEF Init
  <2> QED BY <2>1 DEF Init, SlotCounts
<1> QED BY <1>1, <1>2, <1>3, <1>4 DEF WindowInvariant

-----------------------------------------------------------------------------
(* A step of one rank leaves the shared state alone.                       *)
LEMMA OneRank ==
    ASSUME WindowInvariant, TypeOK', UNCHANGED <<slot, trained, base>>,
           NEW r \in Ranks, (OwnData(r) /\ RankInv(r))',
           \A q \in Ranks \ {r} :
             /\ pc'[q] = pc[q] /\ stop'[q] = stop[q] /\ window'[q] = window[q]
             /\ offset'[q] = offset[q] /\ data'[q] = data[q] /\ payload'[q] = payload[q]
    PROVE  WindowInvariant'
<1>1. \A q \in Ranks : (OwnData(q) /\ RankInv(q))'
  <2> SUFFICES ASSUME NEW q \in Ranks, q # r PROVE (OwnData(q) /\ RankInv(q))'
    OBVIOUS
  <2>1. OwnData(q) /\ RankInv(q)
    BY DEF WindowInvariant
  <2>2. UNCHANGED <<pc[q], stop[q], window[q], offset[q], data[q], payload[q], slot>>
    OBVIOUS
  <2> QED BY <2>1, <2>2 DEF OwnData, RankInv, Before, After, ActiveInside
<1>2. (SameSlot /\ SlotCounts /\ OwnersTakeTurns)'
  BY DEF WindowInvariant, SameSlot, SlotCounts, OwnersTakeTurns
<1> QED BY <1>1, <1>2 DEF WindowInvariant

LEMMA FetchStartStep ==
    ASSUME WindowInvariant, NEW r \in Ranks, FetchStart(r)
    PROVE  WindowInvariant'
<1>1. TypeOK'
  BY DEF WindowInvariant, TypeOK, FetchStart, fetchVars, modelVars, jobVars, Pc
<1>2. pc'[r] = IF iter >= MaxIter THEN "done"
               ELSE IF Desynced(r) THEN "failed"
               ELSE IF window[r] # None THEN "take" ELSE "load"
  BY DEF WindowInvariant, TypeOK, FetchStart
<1>3. (OwnData(r) /\ RankInv(r))'
  <2>1. OwnData(r) /\ RankInv(r)
    BY DEF WindowInvariant
  <2> QED BY <1>2, <2>1 DEF FetchStart, fetchVars, modelVars, jobVars, OwnData, RankInv,
                            Before, ActiveInside, Desynced
<1> QED BY <1>1, <1>3, OneRank
     DEF FetchStart, fetchVars, modelVars, jobVars, WindowInvariant, TypeOK

LEMMA FetchBatchStep ==
    ASSUME WindowInvariant, NEW r \in Ranks, FetchBatch(r)
    PROVE  WindowInvariant'
<1> USE DEF fetchVars, modelVars, jobVars
<1> DEFINE b == [rank |-> r, pos |-> pos[r]]
<1>1. b \in Batch /\ b # None /\ b.rank = r
  BY NoneIsNoBatch DEF WindowInvariant, TypeOK, Batch
<1>2. TypeOK'
  BY <1>1 DEF WindowInvariant, TypeOK, FetchBatch, Pc
<1>3. /\ pc'[r] = "vote" /\ window'[r] = b /\ stop'[r] = FALSE
      /\ UNCHANGED <<offset, data, slot, payload>>
  BY DEF WindowInvariant, TypeOK, FetchBatch
<1>4. (OwnData(r) /\ RankInv(r))'
  <2>1. OwnData(r) /\ RankInv(r) /\ pc[r] = "load"
    BY DEF WindowInvariant, FetchBatch
  <2> QED BY <1>1, <1>3, <2>1 DEF OwnData, RankInv, Before, ActiveInside
<1> QED BY <1>2, <1>4, OneRank DEF FetchBatch, WindowInvariant, TypeOK

LEMMA FetchStopsStep ==
    ASSUME WindowInvariant, NEW r \in Ranks, FetchStops(r)
    PROVE  WindowInvariant'
<1> USE DEF fetchVars, modelVars, jobVars
<1>1. TypeOK'
  BY RankZero DEF WindowInvariant, TypeOK, FetchStops, Pc
<1>2. /\ pc'[r] = "vote" /\ offset'[r] = 0 /\ stop'[r] = TRUE
      /\ UNCHANGED <<window, data, slot, payload>>
  BY DEF WindowInvariant, TypeOK, FetchStops
<1>3. (OwnData(r) /\ RankInv(r))'
  <2>1. OwnData(r) /\ RankInv(r) /\ pc[r] = "load"
    BY DEF WindowInvariant, FetchStops
  <2> QED BY <1>2, <2>1 DEF OwnData, RankInv, Before, ActiveInside
<1> QED BY <1>1, <1>3, OneRank DEF FetchStops, WindowInvariant, TypeOK

LEMMA TakeStep ==
    ASSUME WindowInvariant, NEW r \in Ranks, Take(r)
    PROVE  WindowInvariant'
<1> USE DEF fetchVars, modelVars, jobVars
<1>1. OwnData(r) /\ RankInv(r) /\ pc[r] = "take"
  BY DEF WindowInvariant, Take
<1>2. /\ offset[r] \in Nat /\ CpSize \in Nat
      /\ offset[r] + 1 = CpSize <=> offset[r] = CpSize - 1
      /\ offset[r] + 1 # 0
  <2>1. offset[r] \in Ranks
    BY DEF WindowInvariant, TypeOK
  <2> QED BY <2>1, RankZero DEF Ranks
<1>3. /\ pc'[r] = "encode" /\ data'[r] = window[r]
      /\ offset'[r] = NextSlot(offset[r])
      /\ window'[r] = IF offset'[r] = 0 THEN None ELSE window[r]
      /\ UNCHANGED <<stop, slot, payload>>
  BY <1>2 DEF WindowInvariant, TypeOK, Take, NextSlot, Stored
<1>4. TypeOK'
  <2>1. offset' = [offset EXCEPT ![r] = NextSlot(offset[r])]
    BY <1>2 DEF WindowInvariant, TypeOK, Take, NextSlot
  <2>2. offset' \in [Ranks -> Ranks]
    BY <2>1, SlotIncrement DEF WindowInvariant, TypeOK
  <2>3. window' \in [Ranks -> Batch \cup {None}]
    BY DEF WindowInvariant, TypeOK, Take, Stored
  <2> QED BY <2>2, <2>3 DEF WindowInvariant, TypeOK, Take, Pc
<1>5. (OwnData(r) /\ RankInv(r))'
  BY <1>1, <1>3 DEF OwnData, RankInv, Before, After, ActiveInside
<1> QED BY <1>4, <1>5, OneRank DEF Take, WindowInvariant, TypeOK

LEMMA EncodeStep ==
    ASSUME WindowInvariant, NEW r \in Ranks, Encode(r)
    PROVE  WindowInvariant'
<1> USE DEF fetchVars, modelVars, jobVars
<1>1. OwnData(r) /\ RankInv(r) /\ pc[r] = "encode"
  BY DEF WindowInvariant, Encode
<1>2. /\ payload'[r] = IF slot[r] = 0 THEN data[r] ELSE payload[r]
      /\ pc'[r] = IF payload'[r] = None THEN "failed" ELSE "step"
      /\ UNCHANGED <<stop, window, offset, data, slot>>
  BY DEF WindowInvariant, TypeOK, Encode
<1>3. TypeOK'
  BY DEF WindowInvariant, TypeOK, Encode, Pc
<1>4. (OwnData(r) /\ RankInv(r))'
  BY <1>1, <1>2 DEF OwnData, RankInv, After, ActiveInside
<1> QED BY <1>3, <1>4, OneRank DEF Encode, WindowInvariant, TypeOK

-----------------------------------------------------------------------------
(* The collective steps and those of the whole job.                        *)

LEMMA AllReduceStep ==
    ASSUME WindowInvariant, AllReduceStop
    PROVE  WindowInvariant'
<1> USE DEF fetchVars, modelVars, jobVars
<1>1. TypeOK'
  BY RankZero DEF WindowInvariant, TypeOK, AllReduceStop, Pc
<1>2. ASSUME NEW r \in Ranks PROVE (OwnData(r) /\ RankInv(r))'
  <2>1. OwnData(r) /\ RankInv(r) /\ pc[r] = "vote"
    BY DEF WindowInvariant, AllReduceStop
  <2>2. CASE StopHere(r)
    BY <2>1, <2>2 DEF AllReduceStop, OwnData, RankInv, Before, ActiveInside
  <2>3. CASE ~StopHere(r)
    <3>1. ~stop[r]
      BY <2>3 DEF StopHere, WindowInvariant, TypeOK
    <3> QED BY <2>1, <2>3, <3>1 DEF AllReduceStop, OwnData, RankInv, Before
  <2> QED BY <2>2, <2>3
<1>3. (SameSlot /\ SlotCounts /\ OwnersTakeTurns)'
  BY DEF WindowInvariant, AllReduceStop, SameSlot, SlotCounts, OwnersTakeTurns
<1> QED BY <1>1, <1>2, <1>3 DEF WindowInvariant

LEMMA TrainStepStep ==
    ASSUME WindowInvariant, TrainStep
    PROVE  WindowInvariant'
<1> USE DEF fetchVars, modelVars, jobVars
<1> DEFINE s == slot[0]
<1>1. s \in Ranks /\ \A r \in Ranks : slot[r] = s
  BY RankZero DEF WindowInvariant, TypeOK, SameSlot
<1>2. \A r \in Ranks : OwnData(r) /\ RankInv(r) /\ pc[r] = "step"
  BY DEF WindowInvariant, TrainStep
<1>3. PICK b \in Batch : b = payload[s] /\ b.rank = s
  BY <1>1, <1>2 DEF WindowInvariant, TypeOK, OwnData, RankInv
<1>4. trained' = Append(trained, b) /\ base' = base
  BY <1>3 DEF TrainStep, Owner
<1>5. /\ Len(trained') = Len(trained) + 1 /\ trained' \in Seq(Batch)
      /\ \A k \in 1..Len(trained) : trained'[k] = trained[k]
      /\ trained'[Len(trained) + 1] = b
  BY <1>4, AppendProperties DEF WindowInvariant, TypeOK
<1>6. slot' = [r \in Ranks |-> NextSlot(s)] /\ NextSlot(s) \in Ranks
  BY <1>1, SlotIncrement DEF TrainStep
<1>7. payload' \in [Ranks -> Batch \cup {None}]
  BY DEF WindowInvariant, TypeOK, TrainStep
<1>8. TypeOK'
  <2>1. /\ accum' \in Nat /\ iter' \in Nat
        /\ ckpt' \in [iter : Nat, trained : Seq(Batch), discarded : Nat]
    <3>1. accum + 1 \in Nat /\ iter + 1 \in Nat /\ iter \in Nat
          /\ ckpt \in [iter : Nat, trained : Seq(Batch), discarded : Nat]
          /\ discarded \in Nat /\ discarded + 0 \in Nat /\ discarded + 1 \in Nat
      BY DEF WindowInvariant, TypeOK
    <3>2. accum' \in {0, accum + 1} /\ iter' \in {iter, iter + 1}
          /\ \/ ckpt' = ckpt
             \/ ckpt' = [iter |-> iter', trained |-> trained',
                         discarded |-> discarded + IF slot'[0] = 0 THEN 0 ELSE 1]
      BY DEF TrainStep
    <3> QED BY <1>5, <3>1, <3>2
  <2>2. base' \in 0..Len(trained')
    BY <1>4, <1>5, LenProperties DEF WindowInvariant, TypeOK
  <2>3. pc' \in [Ranks -> Pc]
    BY DEF TrainStep, Pc
  <2> QED BY <1>5, <1>6, <1>7, <2>1, <2>2, <2>3 DEF WindowInvariant, TypeOK, TrainStep
<1>9. ASSUME NEW r \in Ranks PROVE (OwnData(r) /\ RankInv(r))'
  <2>1. /\ OwnData(r) /\ RankInv(r) /\ pc[r] = "step" /\ slot[r] = s
    BY <1>1, <1>2
  <2>2. /\ pc'[r] = "fetch" /\ slot'[r] = NextSlot(s)
        /\ UNCHANGED <<stop, window, offset, data>>
    BY <1>6 DEF TrainStep
  <2>3. payload'[r] = IF NextSlot(s) = 0 THEN None ELSE payload[r]
    BY <1>1, RankZero DEF TrainStep, LastSlot, NextSlot, Ranks
  <2> QED BY <2>1, <2>2, <2>3 DEF OwnData, RankInv, Before, After, ActiveInside
<1>10. SameSlot'
  BY <1>6 DEF SameSlot
<1>11. PICK n \in Nat : n = Len(trained) - base
  <2>1. Len(trained) \in Nat /\ base \in 0..Len(trained)
    BY LenProperties DEF WindowInvariant, TypeOK
  <2>2. Len(trained) - base \in Nat
    BY <2>1
  <2> QED BY <2>2
<1>12. n % CpSize = s
  BY <1>1, <1>11, RankZero DEF WindowInvariant, SlotCounts
<1>13. SlotCounts'
  <2>1. (n + 1) % CpSize = NextSlot(s)
    BY <1>12, RankZero, NextResidue DEF NextSlot
  <2>2. Len(trained') - base' = n + 1
    BY <1>4, <1>5, <1>11, LenProperties DEF WindowInvariant, TypeOK
  <2> QED BY <1>6, <2>1, <2>2 DEF SlotCounts
<1>14. OwnersTakeTurns'
  <2> SUFFICES ASSUME NEW k \in base' + 1..Len(trained')
               PROVE  trained'[k].rank = (k - base' - 1) % CpSize
    BY DEF OwnersTakeTurns
  <2>1. Len(trained) \in Nat /\ base \in Nat /\ k \in Nat /\ k >= 1
    BY <1>4, LenProperties DEF WindowInvariant, TypeOK
  <2>2. CASE k = Len(trained) + 1
    <3>1. k - base' - 1 = n
      BY <1>4, <1>11, <2>1, <2>2
    <3> QED BY <1>3, <1>5, <1>12, <2>2, <3>1
  <2>3. CASE k # Len(trained) + 1
    <3>1. k \in base + 1..Len(trained) /\ k \in 1..Len(trained)
      BY <1>4, <1>5, <2>1, <2>3
    <3> QED BY <1>4, <1>5, <3>1 DEF WindowInvariant, OwnersTakeTurns
  <2> QED BY <2>2, <2>3
<1> QED BY <1>8, <1>9, <1>10, <1>13, <1>14 DEF WindowInvariant

LEMMA KillStep ==
    ASSUME WindowInvariant, Kill
    PROVE  WindowInvariant'
<1> USE DEF fetchVars, modelVars, jobVars
<1>1. TypeOK'
  BY DEF WindowInvariant, TypeOK, Kill, Pc
<1>2. \A r \in Ranks : (OwnData(r) /\ RankInv(r))'
  BY DEF WindowInvariant, Kill, OwnData, RankInv
<1>3. (SameSlot /\ SlotCounts /\ OwnersTakeTurns)'
  BY DEF WindowInvariant, Kill, SameSlot, SlotCounts, OwnersTakeTurns
<1> QED BY <1>1, <1>2, <1>3 DEF WindowInvariant

LEMMA RestartStep ==
    ASSUME WindowInvariant, Restart
    PROVE  WindowInvariant'
<1>1. /\ ckpt.trained \in Seq(Batch) /\ ckpt.iter \in Nat /\ Len(ckpt.trained) \in Nat
      /\ ckpt.discarded \in Nat
  BY LenProperties DEF WindowInvariant, TypeOK
<1>2. TypeOK'
  BY <1>1, RankZero, ResumePosition DEF WindowInvariant, TypeOK, Restart, Pc
<1>3. \A r \in Ranks : (OwnData(r) /\ RankInv(r))'
  BY DEF Restart, OwnData, RankInv, Before, ActiveInside
<1>4. SameSlot'
  BY DEF Restart, SameSlot
<1>5. SlotCounts'
  <2>1. Len(trained') - base' = 0 /\ 0 % CpSize = 0
    BY <1>1, RankZero, Residue DEF Restart
  <2> QED BY <2>1 DEF Restart, SlotCounts
<1>6. OwnersTakeTurns'
  <2>1. base' + 1..Len(trained') = {}
    BY <1>1 DEF Restart
  <2> QED BY <2>1 DEF OwnersTakeTurns
<1> QED BY <1>2, <1>3, <1>4, <1>5, <1>6 DEF WindowInvariant

LEMMA StutterStep ==
    ASSUME WindowInvariant, UNCHANGED vars
    PROVE  WindowInvariant'
BY DEF vars, fetchVars, modelVars, jobVars, WindowInvariant, TypeOK, OwnData, RankInv,
       Before, After, ActiveInside, SameSlot, SlotCounts, OwnersTakeTurns

(* The invariant holds in every state of every run, whatever CpSize, the    *)
(* accumulation and the saves are, and however often a dataloader ends.     *)
THEOREM Invariant == Spec => []WindowInvariant
<1>1. ASSUME WindowInvariant, [Next]_vars PROVE WindowInvariant'
  <2>1. CASE UNCHANGED vars
    BY <1>1, <2>1, StutterStep
  <2>2. CASE Next
    <3>1. ASSUME NEW r \in Ranks, RankStep(r) PROVE WindowInvariant'
      BY <1>1, <3>1, FetchStartStep, FetchBatchStep, FetchStopsStep, TakeStep, EncodeStep
         DEF RankStep
    <3>2. CASE Collective
      BY <1>1, <3>2, AllReduceStep, TrainStepStep DEF Collective
    <3>3. CASE Kill
      BY <1>1, <3>3, KillStep
    <3>4. CASE Restart
      BY <1>1, <3>4, RestartStep
    <3> QED BY <2>2, <3>1, <3>2, <3>3, <3>4 DEF Next
  <2> QED BY <1>1, <2>1, <2>2
<1> QED BY <1>1, InitHolds, PTL DEF Spec

(* NoDesync: trainer and model agree on where in the window a rank is, no   *)
(* slot lacks its payload, and the ranks broadcast from the same owner.     *)
THEOREM NoDesyncCorrect == Spec => []NoDesync
<1>1. WindowInvariant => NoDesync
  BY DEF WindowInvariant, RankInv, SameSlot, NoDesync
<1> QED BY <1>1, Invariant, PTL

(* OwnersTakeTurns: within a run, step k trains on a batch of rank          *)
(* (k - 1) mod CpSize.                                                      *)
THEOREM OwnersTakeTurnsCorrect == Spec => []OwnersTakeTurns
<1>1. WindowInvariant => OwnersTakeTurns
  BY DEF WindowInvariant
<1> QED BY <1>1, Invariant, PTL

-----------------------------------------------------------------------------
(* No batch is replayed while at most one partial window was discarded.    *)

\* n steps are a number of windows.
Whole(n) == \E m \in Nat : n = CpSize * m

\* A rank's batches are trained on in the order of its stream ...
Increasing(t, from) ==
    \A i, j \in 1..Len(t) :
        from <= i /\ i < j /\ t[i].rank = t[j].rank => t[i].pos < t[j].pos

\* ... and before the position at which a run resumes after the windows of t.
Bounded(t) == \A k \in 1..Len(t) : CpSize * t[k].pos < Len(t)

\* The order of the streams is known over the whole line of runs.
Ordered == stops = 0 /\ discarded <= 1

\* Otherwise it is known only within a run.
From == IF Ordered THEN 1 ELSE base + 1

\* The windows in which n steps lie.
UpTo(n) == (n + CpSize - 1) \div CpSize

\* The slots that have passed, up to the position, counting those of the
\* window that this run has skipped.
Progress == CpSize * UpTo(base) + (Len(trained) - base)

Fresh(r, p) ==
    \A k \in 1..Len(trained) : From <= k /\ trained[k].rank = r => trained[k].pos < p

\* The rank has fetched the batch of its current window.
Fetched(r) ==
    \/ pc[r] \in {"vote", "take", "encode", "step"}
    \/ pc[r] \in {"fetch", "done"} /\ slot[r] # 0

\* A rank's position is past everything of its own that was trained on, a
\* batch it holds is behind the position and not trained on before its slot.
HeldInv(r) ==
    /\ Fresh(r, pos[r])
    /\ window[r] # None => window[r].pos < pos[r]
    /\ data[r] # None => data[r].pos < pos[r]
    /\ payload[r] # None => payload[r].pos < pos[r]
    /\ window[r] # None /\ slot[r] <= r => Fresh(r, window[r].pos)
    /\ pc[r] = "encode" /\ slot[r] = 0 => Fresh(r, data[r].pos)
    /\ payload[r] # None /\ slot[r] <= r => Fresh(r, payload[r].pos)

\* While no dataloader has ended, the position counts the windows.
PosCounts(r) ==
    stops = 0 =>
        /\ ~stop[r]
        /\ Progress = IF Fetched(r) THEN CpSize * (pos[r] - 1) + slot[r]
                      ELSE CpSize * pos[r]

StepsCount ==
    /\ stops \in Nat
    /\ Len(trained) = iter * GradAccum + accum /\ accum < GradAccum
    /\ discarded = 0 => Whole(base)

CkptInv ==
    /\ Len(ckpt.trained) = ckpt.iter * GradAccum
    /\ ckpt.discarded = 0 => Whole(Len(ckpt.trained))
    /\ stops = 0 /\ ckpt.discarded <= 1 => Increasing(ckpt.trained, 1) /\ Bounded(ckpt.trained)

HistoryInv ==
    /\ Increasing(trained, From)
    /\ Ordered => \A k \in 1..Len(trained) : CpSize * trained[k].pos < Progress

ReplayInvariant ==
    /\ WindowInvariant
    /\ StepsCount
    /\ CkptInv
    /\ HistoryInv
    /\ \A r \in Ranks : pc[r] # "down" => HeldInv(r) /\ PosCounts(r)

(* UpTo rounds up to whole windows. *)
LEMMA UpToBounds ==
    ASSUME NEW n \in Nat
    PROVE  UpTo(n) \in Nat /\ n <= CpSize * UpTo(n) /\ CpSize * UpTo(n) < n + CpSize
<1>1. PICK y \in Nat : y = n + CpSize - 1
  BY RankZero
<1>2. /\ y \div CpSize \in Nat /\ y % CpSize \in 0..CpSize - 1
      /\ y = CpSize * (y \div CpSize) + (y % CpSize)
  BY RankZero
<1>3. PICK q \in Nat, d \in 0..CpSize - 1 : q = y \div CpSize /\ y = CpSize * q + d
  BY <1>2
<1>4. PICK u \in Nat : u = CpSize * q
  BY RankZero
<1>5. n <= u /\ u < n + CpSize
  BY <1>1, <1>3, <1>4, RankZero
<1> QED BY <1>1, <1>3, <1>4, <1>5 DEF UpTo

(* m windows are m. *)
LEMMA UpToWhole ==
    ASSUME NEW m \in Nat
    PROVE  UpTo(CpSize * m) = m
<1>1. PICK x \in Nat : x = CpSize * m
  BY RankZero
<1>2. PICK q \in Nat : q = UpTo(x) /\ x <= CpSize * q /\ CpSize * q < x + CpSize
  BY UpToBounds
<1>3. PICK u \in Nat : u = CpSize * q
  BY RankZero
<1>4. ~(q < m)
  <2>1. q < m => x >= u + CpSize
    BY <1>1, <1>3, RankZero, Multiples
  <2> QED BY <1>2, <1>3, <2>1, RankZero
<1>5. ~(m < q)
  <2>1. m < q => u >= x + CpSize
    BY <1>1, <1>3, RankZero, Multiples
  <2> QED BY <1>2, <1>3, <2>1, RankZero
<1>6. q = m
  BY <1>4, <1>5
<1> QED BY <1>1, <1>2, <1>6

(* Multiplying by CpSize keeps the order. *)
LEMMA Windows ==
    ASSUME NEW a \in Nat, NEW b \in Nat
    PROVE  /\ CpSize * a < CpSize * b => a < b
           /\ a <= b => CpSize * a <= CpSize * b
<1>1. PICK u \in Nat, v \in Nat : u = CpSize * a /\ v = CpSize * b
  BY RankZero
<1>2. b < a => u >= v + CpSize
  BY <1>1, RankZero, Multiples
<1>3. a < b => v >= u + CpSize
  BY <1>1, RankZero, Multiples
<1>4. a = b => u = v
  BY <1>1
<1>5. (u < v => a < b) /\ (a <= b => u <= v)
  BY <1>2, <1>3, <1>4, RankZero
<1> QED BY <1>1, <1>5

(* The next window is CpSize steps on. *)
LEMMA NextWindow ==
    ASSUME NEW m \in Nat
    PROVE  CpSize * (m + 1) = CpSize * m + CpSize /\ CpSize * m \in Nat
BY RankZero

(* Where whole windows end, what lies before them lies before the n steps  *)
(* of a run that began after b ones.                                       *)
LEMMA BeforeWindow ==
    ASSUME NEW b \in Nat, NEW n \in Nat, NEW m \in Nat, NEW x \in Nat,
           CpSize * UpTo(b) + n = CpSize * m, CpSize * x < CpSize * m
    PROVE  CpSize * x < b + n
<1>1. x < m
  BY Windows
<1>2. CpSize * m >= CpSize * x + CpSize
  BY <1>1, RankZero, Multiples
<1>3. CpSize * UpTo(b) < b + CpSize /\ UpTo(b) \in Nat
  BY UpToBounds
<1>4. CpSize * x \in Nat /\ CpSize * m \in Nat /\ CpSize * UpTo(b) \in Nat
  BY <1>3, RankZero
<1>5. PICK u \in Nat, v \in Nat, w \in Nat : u = CpSize * x /\ v = CpSize * m /\ w = CpSize * UpTo(b)
  BY <1>4
<1>6. w + n = v /\ v >= u + CpSize /\ w < b + CpSize
  BY <1>2, <1>3, <1>5
<1>7. u < b + n
  BY <1>6, RankZero
<1> QED BY <1>5, <1>7

(* The step in the last slot of a window that began at a whole number of   *)
(* windows ends another one.                                               *)
LEMMA WindowEnd ==
    ASSUME NEW b \in Nat, NEW n \in Nat, Whole(b), n % CpSize = CpSize - 1
    PROVE  Whole(b + n + 1)
<1>1. PICK m \in Nat : b = CpSize * m
  BY DEF Whole
<1>2. PICK q \in Nat : n = CpSize * q + (CpSize - 1)
  <2>1. n \div CpSize \in Nat /\ n = CpSize * (n \div CpSize) + (n % CpSize)
    BY RankZero
  <2> QED BY <2>1
<1>3. PICK u \in Nat, v \in Nat : u = CpSize * m /\ v = CpSize * q
  BY RankZero
<1>4. CpSize * (m + q + 1) = u + v + CpSize
  BY <1>3, RankZero
<1>5. b + n + 1 = CpSize * (m + q + 1) /\ m + q + 1 \in Nat
  BY <1>1, <1>2, <1>3, <1>4, RankZero
<1> QED BY <1>5 DEF Whole

-----------------------------------------------------------------------------
LEMMA ReplayInit == Init => ReplayInvariant
<1> SUFFICES ASSUME Init PROVE ReplayInvariant
  OBVIOUS
<1>1. /\ trained = <<>> /\ ckpt = NoCheckpoint /\ base = 0 /\ iter = 0 /\ accum = 0 /\ stops = 0
      /\ Len(trained) = 0 /\ Len(ckpt.trained) = 0 /\ ckpt.iter = 0
  BY DEF Init, NoCheckpoint
<1>2. CpSize * 0 = 0 /\ 0 * GradAccum = 0 /\ 0 < GradAccum
  BY WindowAssumption
<1>3. Whole(0)
  BY <1>2 DEF Whole
<1>4. StepsCount /\ CkptInv /\ HistoryInv
  BY <1>1, <1>2, <1>3 DEF StepsCount, CkptInv, HistoryInv, Increasing, Bounded
<1>5. ResumeFetchCount(0) = 0 /\ Progress = 0
  <2>1. UpTo(0) = 0
    BY <1>2, UpToWhole
  <2>2. ResumeFetchCount(0) = UpTo(0)
    BY <1>2 DEF ResumeFetchCount, UpTo
  <2> QED BY <1>1, <1>2, <2>1, <2>2 DEF Progress
<1>6. ASSUME NEW r \in Ranks PROVE HeldInv(r) /\ PosCounts(r)
  <2>1. /\ pos[r] = 0 /\ pc[r] = "fetch" /\ ~stop[r] /\ slot[r] = 0
        /\ window[r] = None /\ data[r] = None /\ payload[r] = None
    BY <1>5 DEF Init
  <2>2. HeldInv(r)
    BY <1>1, <2>1 DEF HeldInv, Fresh
  <2>3. ~Fetched(r)
    BY <2>1 DEF Fetched
  <2> QED BY <1>2, <1>5, <2>1, <2>2, <2>3 DEF PosCounts
<1> QED BY <1>4, <1>6, InitHolds DEF ReplayInvariant

(* A step of one rank that leaves the shared state alone, or in which the  *)
(* dataloader of that rank ends.                                           *)
LEMMA OneRankHolds ==
    ASSUME ReplayInvariant, WindowInvariant',
           UNCHANGED <<slot, trained, base, iter, accum, ckpt, discarded>>,
           stops' \in Nat, stops' = stops \/ stops' # 0,
           NEW r \in Ranks, (HeldInv(r) /\ PosCounts(r))',
           \A q \in Ranks \ {r} :
             /\ pc'[q] = pc[q] /\ stop'[q] = stop[q] /\ window'[q] = window[q]
             /\ data'[q] = data[q] /\ payload'[q] = payload[q] /\ pos'[q] = pos[q]
    PROVE  ReplayInvariant'
<1>1. base \in Nat /\ Len(trained) \in Nat
  BY LenProperties DEF ReplayInvariant, WindowInvariant, TypeOK
<1>2. /\ From \in Nat /\ From' \in Nat /\ From <= From' /\ (Ordered' => Ordered)
      /\ Progress' = Progress
  BY <1>1 DEF From, Ordered, Progress
<1>3. StepsCount' /\ CkptInv'
  BY DEF ReplayInvariant, StepsCount, CkptInv
<1>4. HistoryInv'
  <2>1. /\ Increasing(trained, From)
        /\ Ordered' => \A k \in 1..Len(trained) : CpSize * trained[k].pos < Progress
    BY <1>2 DEF ReplayInvariant, HistoryInv
  <2>2. Increasing(trained, From')
    BY <1>1, <1>2, <2>1 DEF Increasing
  <2> QED BY <1>2, <2>1, <2>2 DEF HistoryInv, Increasing
<1>5. ASSUME NEW q \in Ranks, q # r, pc'[q] # "down" PROVE (HeldInv(q) /\ PosCounts(q))'
  <2>1. UNCHANGED <<pc[q], stop[q], window[q], data[q], payload[q], pos[q], slot[q]>>
    BY <1>5
  <2>2. HeldInv(q) /\ PosCounts(q)
    BY <1>5, <2>1 DEF ReplayInvariant
  <2>3. ASSUME NEW p, Fresh(q, p)
        PROVE  \A k \in 1..Len(trained') :
                   From' <= k /\ trained'[k].rank = q => trained'[k].pos < p
    BY <1>1, <1>2, <2>3 DEF Fresh
  <2>4. HeldInv(q)'
    <3>1. Fresh(q, pos[q]) => Fresh(q, pos[q])'
      BY <2>1, <2>3 DEF Fresh
    <3>2. Fresh(q, window[q].pos) => Fresh(q, window[q].pos)'
      BY <2>1, <2>3 DEF Fresh
    <3>3. Fresh(q, data[q].pos) => Fresh(q, data[q].pos)'
      BY <2>1, <2>3 DEF Fresh
    <3>4. Fresh(q, payload[q].pos) => Fresh(q, payload[q].pos)'
      BY <2>1, <2>3 DEF Fresh
    <3> QED BY <2>1, <2>2, <3>1, <3>2, <3>3, <3>4 DEF HeldInv
  <2>5. PosCounts(q)'
    BY <1>2, <2>1, <2>2 DEF PosCounts, Fetched
  <2> QED BY <2>4, <2>5
<1> QED BY <1>3, <1>4, <1>5 DEF ReplayInvariant

(* What a step of a rank and these proofs use of the invariant. *)
LEMMA OfRank ==
    ASSUME ReplayInvariant, NEW r \in Ranks, pc[r] # "down"
    PROVE  /\ HeldInv(r) /\ PosCounts(r) /\ RankInv(r) /\ stops \in Nat
           /\ pos[r] \in Nat /\ Len(trained) \in Nat /\ slot[r] \in Nat
           /\ window[r] \in Batch \cup {None} /\ data[r] \in Batch \cup {None}
           /\ payload[r] \in Batch \cup {None}
<1>1. HeldInv(r) /\ PosCounts(r) /\ RankInv(r) /\ stops \in Nat
  BY DEF ReplayInvariant, WindowInvariant, StepsCount
<1>2. pos[r] \in Nat /\ Len(trained) \in Nat
  BY LenProperties DEF ReplayInvariant, WindowInvariant, TypeOK
<1>3. slot[r] \in Nat
  BY RankZero DEF ReplayInvariant, WindowInvariant, TypeOK, Ranks
<1>4. /\ window[r] \in Batch \cup {None} /\ data[r] \in Batch \cup {None}
      /\ payload[r] \in Batch \cup {None}
  BY DEF ReplayInvariant, WindowInvariant, TypeOK
<1> QED BY <1>1, <1>2, <1>3, <1>4

LEMMA FetchStartReplay ==
    ASSUME ReplayInvariant, NEW r \in Ranks, FetchStart(r)
    PROVE  ReplayInvariant'
<1> USE DEF fetchVars, modelVars, jobVars
<1>1. WindowInvariant'
  BY FetchStartStep DEF ReplayInvariant
<1>2. /\ HeldInv(r) /\ PosCounts(r) /\ RankInv(r) /\ stops \in Nat /\ pc[r] = "fetch"
  BY OfRank DEF FetchStart
<1>3. /\ pc'[r] \in {"done", "failed", "take", "load"}
      /\ pc'[r] = "take" => window[r] # None
      /\ pc'[r] = "load" => window[r] = None
      /\ UNCHANGED <<stop, window, offset, pos, data, slot, payload, trained, base, stops, discarded>>
  BY DEF FetchStart, ReplayInvariant, WindowInvariant, TypeOK
<1>4. pc'[r] # "failed"
  BY <1>1 DEF WindowInvariant, RankInv
<1>5. HeldInv(r)'
  BY <1>2, <1>3 DEF HeldInv, Fresh, From, Ordered
<1>6. slot[r] = 0 <=> window[r] = None
  BY <1>2 DEF RankInv, Before, ActiveInside
<1>7. Fetched(r)' <=> Fetched(r)
  BY <1>2, <1>3, <1>4, <1>6 DEF Fetched
<1>8. PosCounts(r)'
  BY <1>2, <1>3, <1>7 DEF PosCounts, Progress
<1> QED BY <1>1, <1>2, <1>3, <1>5, <1>8, OneRankHolds
     DEF FetchStart, ReplayInvariant, WindowInvariant, TypeOK

LEMMA FetchBatchReplay ==
    ASSUME ReplayInvariant, NEW r \in Ranks, FetchBatch(r)
    PROVE  ReplayInvariant'
<1> USE DEF fetchVars, modelVars, jobVars
<1>1. WindowInvariant'
  BY FetchBatchStep DEF ReplayInvariant
<1>2. /\ HeldInv(r) /\ PosCounts(r) /\ RankInv(r) /\ stops \in Nat /\ pc[r] = "load"
      /\ pos[r] \in Nat /\ Len(trained) \in Nat /\ slot[r] \in Nat
      /\ data[r] \in Batch \cup {None} /\ payload[r] \in Batch \cup {None}
  BY OfRank DEF FetchBatch
<1>3. slot[r] = 0 /\ payload[r] = None
  BY <1>2 DEF RankInv, Before
<1>4. /\ pc'[r] = "vote" /\ stop'[r] = FALSE /\ pos'[r] = pos[r] + 1
      /\ window'[r] = [rank |-> r, pos |-> pos[r]] /\ window'[r].pos = pos[r]
      /\ UNCHANGED <<data, slot, payload, trained, base, stops, discarded>>
  BY DEF FetchBatch, ReplayInvariant, WindowInvariant, TypeOK
<1>5. base \in Nat /\ \A k \in 1..Len(trained) : trained[k].pos \in Nat
  <2>1. trained \in Seq(Batch) /\ base \in Nat
    BY <1>2 DEF ReplayInvariant, WindowInvariant, TypeOK
  <2>2. \A k \in 1..Len(trained) : trained[k] \in Batch
    BY <2>1, ElementOfSeq
  <2> QED BY <2>1, <2>2 DEF Batch
<1>6. \A k \in 1..Len(trained) :
          From <= k /\ trained[k].rank = r => trained[k].pos < pos[r] /\ trained[k].pos < pos[r] + 1
  <2>1. Fresh(r, pos[r])
    BY <1>2 DEF HeldInv
  <2> QED BY <1>2, <1>5, <2>1 DEF Fresh
<1>7. HeldInv(r)'
  <2>1. data[r] # None => data[r].pos < pos[r] + 1
    BY <1>2, NoneIsNoBatch DEF HeldInv, Batch
  <2>2. Fresh(r, pos[r])' /\ Fresh(r, window[r].pos)'
    BY <1>4, <1>6 DEF Fresh, From, Ordered
  <2>3. window'[r].pos < pos'[r]
    BY <1>2, <1>4
  <2> QED BY <1>2, <1>3, <1>4, <2>1, <2>2, <2>3 DEF HeldInv
<1>8. PosCounts(r)'
  <2>1. ~Fetched(r) /\ Fetched(r)'
    BY <1>2, <1>4 DEF Fetched
  <2>2. (pos[r] + 1) - 1 = pos[r] /\ CpSize * pos[r] \in Nat /\ CpSize * pos[r] + 0 = CpSize * pos[r]
    BY <1>2, RankZero
  <2>3. pos'[r] - 1 = pos[r]
    BY <1>4, <2>2
  <2>4. CpSize * (pos'[r] - 1) + slot'[r] = CpSize * pos[r]
    BY <1>3, <1>4, <2>2, <2>3
  <2> QED BY <1>2, <1>4, <2>1, <2>4 DEF PosCounts, Progress
<1> QED BY <1>1, <1>2, <1>4, <1>7, <1>8, OneRankHolds
     DEF FetchBatch, ReplayInvariant, WindowInvariant, TypeOK

LEMMA FetchStopsReplay ==
    ASSUME ReplayInvariant, NEW r \in Ranks, FetchStops(r)
    PROVE  ReplayInvariant'
<1> USE DEF fetchVars, modelVars, jobVars
<1>1. WindowInvariant'
  BY FetchStopsStep DEF ReplayInvariant
<1>2. /\ HeldInv(r) /\ stops \in Nat /\ pc[r] = "load" /\ pos[r] \in Nat
      /\ Len(trained) \in Nat
  BY OfRank DEF FetchStops
<1>3. /\ pc'[r] = "vote" /\ stops' = stops + 1
      /\ UNCHANGED <<window, pos, data, slot, payload, trained, base, discarded>>
  BY DEF FetchStops, ReplayInvariant, WindowInvariant, TypeOK
<1>4. stops' \in Nat /\ stops' # 0
  BY <1>2, <1>3
<1>5. base \in Nat /\ From \in Nat /\ From' \in Nat /\ From <= From'
  <2>1. base \in Nat
    BY <1>2 DEF ReplayInvariant, WindowInvariant, TypeOK
  <2> QED BY <1>3, <1>4, <2>1 DEF From, Ordered
<1>6. HeldInv(r)'
  <2>1. ASSUME NEW p, Fresh(r, p)
        PROVE  \A k \in 1..Len(trained') :
                   From' <= k /\ trained'[k].rank = r => trained'[k].pos < p
    BY <1>2, <1>3, <1>5, <2>1 DEF Fresh
  <2>2. Fresh(r, pos[r]) => Fresh(r, pos[r])'
    BY <1>3, <2>1 DEF Fresh
  <2>3. Fresh(r, window[r].pos) => Fresh(r, window[r].pos)'
    BY <1>3, <2>1 DEF Fresh
  <2>4. Fresh(r, payload[r].pos) => Fresh(r, payload[r].pos)'
    BY <1>3, <2>1 DEF Fresh
  <2> QED BY <1>2, <1>3, <2>2, <2>3, <2>4 DEF HeldInv
<1>7. PosCounts(r)'
  BY <1>4 DEF PosCounts, Progress
<1> QED BY <1>1, <1>3, <1>4, <1>6, <1>7, OneRankHolds
     DEF FetchStops, ReplayInvariant, WindowInvariant, TypeOK

LEMMA TakeReplay ==
    ASSUME ReplayInvariant, NEW r \in Ranks, Take(r)
    PROVE  ReplayInvariant'
<1> USE DEF fetchVars, modelVars, jobVars
<1>1. WindowInvariant'
  BY TakeStep DEF ReplayInvariant
<1>2. /\ HeldInv(r) /\ PosCounts(r) /\ RankInv(r) /\ stops \in Nat /\ pc[r] = "take"
  BY OfRank DEF Take
<1>3. window[r] # None
  BY <1>2 DEF RankInv
<1>4. /\ pc'[r] = "encode" /\ data'[r] = window[r] /\ window'[r] \in {None, window[r]}
      /\ UNCHANGED <<stop, pos, slot, payload, trained, base, stops, discarded>>
  BY DEF Take, Stored, ReplayInvariant, WindowInvariant, TypeOK
<1>5. HeldInv(r)'
  <2>1. slot[r] = 0 => slot[r] <= r
    BY RankZero DEF Ranks
  <2>2. Fresh(r, pos[r])' /\ (Fresh(r, payload[r].pos) => Fresh(r, payload[r].pos)')
    BY <1>2, <1>4 DEF HeldInv, Fresh, From, Ordered
  <2>3. slot[r] <= r => Fresh(r, data[r].pos)'
    BY <1>2, <1>3, <1>4 DEF HeldInv, Fresh, From, Ordered
  <2>4. slot[r] <= r /\ window'[r] # None => Fresh(r, window[r].pos)'
    BY <1>2, <1>3, <1>4 DEF HeldInv, Fresh, From, Ordered
  <2> QED BY <1>2, <1>3, <1>4, <2>1, <2>2, <2>3, <2>4 DEF HeldInv
<1>6. Fetched(r) /\ Fetched(r)'
  BY <1>2, <1>4 DEF Fetched
<1>7. PosCounts(r)'
  BY <1>2, <1>4, <1>6 DEF PosCounts, Progress
<1> QED BY <1>1, <1>2, <1>4, <1>5, <1>7, OneRankHolds
     DEF Take, ReplayInvariant, WindowInvariant, TypeOK

LEMMA EncodeReplay ==
    ASSUME ReplayInvariant, NEW r \in Ranks, Encode(r)
    PROVE  ReplayInvariant'
<1> USE DEF fetchVars, modelVars, jobVars
<1>1. WindowInvariant'
  BY EncodeStep DEF ReplayInvariant
<1>2. /\ HeldInv(r) /\ PosCounts(r) /\ RankInv(r) /\ stops \in Nat /\ pc[r] = "encode"
  BY OfRank DEF Encode
<1>3. data[r] # None
  BY <1>2 DEF RankInv
<1>4. /\ pc'[r] \in {"failed", "step"}
      /\ payload'[r] = IF slot[r] = 0 THEN data[r] ELSE payload[r]
      /\ UNCHANGED <<stop, pos, slot, data, window, trained, base, stops, discarded>>
  BY DEF Encode, ReplayInvariant, WindowInvariant, TypeOK
<1>5. pc'[r] = "step"
  BY <1>1, <1>4 DEF WindowInvariant, RankInv
<1>6. HeldInv(r)'
  <2>1. Fresh(r, pos[r])' /\ (Fresh(r, window[r].pos) => Fresh(r, window[r].pos)')
    BY <1>2, <1>4 DEF HeldInv, Fresh, From, Ordered
  <2>2. slot[r] <= r /\ payload'[r] # None => Fresh(r, payload[r].pos)'
    BY <1>2, <1>4 DEF HeldInv, Fresh, From, Ordered
  <2>3. payload'[r] # None => payload'[r].pos < pos'[r]
    BY <1>2, <1>3, <1>4 DEF HeldInv
  <2> QED BY <1>2, <1>4, <1>5, <2>1, <2>2, <2>3 DEF HeldInv
<1>7. Fetched(r) /\ Fetched(r)'
  BY <1>2, <1>5 DEF Fetched
<1>8. PosCounts(r)'
  BY <1>2, <1>4, <1>7 DEF PosCounts, Progress
<1> QED BY <1>1, <1>2, <1>4, <1>6, <1>8, OneRankHolds
     DEF Encode, ReplayInvariant, WindowInvariant, TypeOK

LEMMA AllReduceReplay ==
    ASSUME ReplayInvariant, AllReduceStop
    PROVE  ReplayInvariant'
<1> USE DEF fetchVars, modelVars, jobVars
<1>1. WindowInvariant'
  BY AllReduceStep DEF ReplayInvariant
<1>2. UNCHANGED <<stop, pos, data, slot, payload, accum, iter, ckpt, trained, base, stops, discarded>>
  BY DEF AllReduceStop
<1>3. StepsCount' /\ CkptInv' /\ HistoryInv'
  BY <1>2 DEF ReplayInvariant, StepsCount, CkptInv, HistoryInv, From, Ordered, Progress,
         Increasing, Bounded
<1>4. ASSUME NEW r \in Ranks PROVE (HeldInv(r) /\ PosCounts(r))'
  <2>1. /\ HeldInv(r) /\ PosCounts(r) /\ RankInv(r) /\ pc[r] = "vote"
    BY OfRank DEF AllReduceStop
  <2>2. /\ pc'[r] \in {"fetch", "take"} /\ window'[r] \in {None, window[r]}
        /\ pc'[r] = "fetch" => StopHere(r)
    BY DEF AllReduceStop
  <2>3. HeldInv(r)'
    <3>1. Fresh(r, pos[r])' /\ (Fresh(r, payload[r].pos) => Fresh(r, payload[r].pos)')
      BY <1>2, <2>1 DEF HeldInv, Fresh, From, Ordered
    <3>2. slot[r] <= r /\ window'[r] # None => Fresh(r, window[r].pos)'
      BY <1>2, <2>1, <2>2 DEF HeldInv, Fresh, From, Ordered
    <3> QED BY <1>2, <2>1, <2>2, <3>1, <3>2 DEF HeldInv
  <2>4. CASE stops = 0
    <3>1. \A q \in Ranks : ~stop[q]
      <4> SUFFICES ASSUME NEW q \in Ranks PROVE ~stop[q]
        OBVIOUS
      <4> QED BY <2>4, OfRank DEF AllReduceStop, PosCounts
    <3>2. pc'[r] = "take"
      BY <2>2, <3>1 DEF StopHere
    <3>3. Fetched(r) /\ Fetched(r)'
      BY <2>1, <3>2 DEF Fetched
    <3> QED BY <1>2, <2>1, <2>3, <3>3 DEF PosCounts, Progress
  <2>5. CASE stops # 0
    BY <1>2, <2>3, <2>5 DEF PosCounts, Progress
  <2> QED BY <2>4, <2>5
<1> QED BY <1>1, <1>3, <1>4 DEF ReplayInvariant

LEMMA KillReplay ==
    ASSUME ReplayInvariant, Kill
    PROVE  ReplayInvariant'
<1> USE DEF fetchVars, modelVars, jobVars
<1>1. WindowInvariant'
  BY KillStep DEF ReplayInvariant
<1>2. StepsCount' /\ CkptInv' /\ HistoryInv'
  BY DEF Kill, ReplayInvariant, StepsCount, CkptInv, HistoryInv, From, Ordered, Progress,
         Increasing, Bounded
<1>3. \A r \in Ranks : pc'[r] = "down"
  BY DEF Kill
<1> QED BY <1>1, <1>2, <1>3 DEF ReplayInvariant

LEMMA StutterReplay ==
    ASSUME ReplayInvariant, UNCHANGED vars
    PROVE  ReplayInvariant'
<1> USE DEF vars, fetchVars, modelVars, jobVars
<1>1. WindowInvariant'
  BY StutterStep DEF ReplayInvariant
<1>2. StepsCount' /\ CkptInv' /\ HistoryInv'
  BY DEF ReplayInvariant, StepsCount, CkptInv, HistoryInv, From, Ordered, Progress,
         Increasing, Bounded
<1>3. ASSUME NEW r \in Ranks, pc'[r] # "down" PROVE (HeldInv(r) /\ PosCounts(r))'
  <2>1. HeldInv(r) /\ PosCounts(r)
    BY <1>3, OfRank
  <2> QED BY <2>1 DEF HeldInv, PosCounts, Fetched, Fresh, From, Ordered, Progress
<1> QED BY <1>1, <1>2, <1>3 DEF ReplayInvariant

LEMMA RestartReplay ==
    ASSUME ReplayInvariant, Restart
    PROVE  ReplayInvariant'
<1>1. WindowInvariant'
  BY RestartStep DEF ReplayInvariant
<1>2. CkptInv /\ stops \in Nat
  BY DEF ReplayInvariant, StepsCount
<1>3. /\ trained' = ckpt.trained /\ base' = Len(ckpt.trained) /\ iter' = ckpt.iter
      /\ accum' = 0 /\ discarded' = ckpt.discarded /\ UNCHANGED <<ckpt, stops>>
  BY DEF Restart
<1>4. /\ ckpt.iter \in Nat /\ ckpt.trained \in Seq(Batch) /\ Len(ckpt.trained) \in Nat
      /\ \A k \in 1..Len(ckpt.trained) : ckpt.trained[k] \in Batch /\ ckpt.trained[k].pos \in Nat
  <2>1. ckpt.iter \in Nat /\ ckpt.trained \in Seq(Batch)
    BY DEF ReplayInvariant, WindowInvariant, TypeOK
  <2>2. Len(ckpt.trained) \in Nat
    BY <2>1, LenProperties
  <2>3. \A k \in 1..Len(ckpt.trained) : ckpt.trained[k] \in Batch
    BY <2>1, ElementOfSeq
  <2> QED BY <2>1, <2>2, <2>3 DEF Batch
<1>5. PICK m \in Nat : /\ m = UpTo(Len(ckpt.trained))
                       /\ Len(ckpt.trained) <= CpSize * m /\ CpSize * m \in Nat
  <2>1. UpTo(Len(ckpt.trained)) \in Nat
        /\ Len(ckpt.trained) <= CpSize * UpTo(Len(ckpt.trained))
    BY <1>4, UpToBounds
  <2> QED BY <2>1, RankZero
<1>6. (\A r \in Ranks : pos'[r] = m) /\ Progress' = CpSize * m
  <2>1. ResumeFetchCount(ckpt.iter) = m
    BY <1>2, <1>5 DEF CkptInv, ResumeFetchCount, UpTo
  <2>2. Progress' = CpSize * UpTo(Len(ckpt.trained)) + (Len(ckpt.trained) - Len(ckpt.trained))
    BY <1>3 DEF Progress
  <2>3. Progress' = CpSize * m
    BY <1>4, <1>5, <2>2
  <2> QED BY <2>1, <2>3 DEF Restart
<1>7. StepsCount'
  <2>1. ckpt.iter * GradAccum \in Nat /\ GradAccum \in Nat \ {0}
    BY <1>4, WindowAssumption
  <2>2. Len(trained') = iter' * GradAccum + accum'
    BY <1>2, <1>3, <2>1 DEF CkptInv
  <2>3. discarded' = 0 => Whole(base')
    BY <1>2, <1>3 DEF CkptInv
  <2> QED BY <1>2, <1>3, <2>1, <2>2, <2>3 DEF StepsCount, Whole
<1>8. CkptInv'
  BY <1>2, <1>3 DEF CkptInv, Increasing, Bounded
<1>9. HistoryInv'
  <2>1. Increasing(trained', From')
    BY <1>2, <1>3, <1>4 DEF From, Ordered, CkptInv, Increasing
  <2>2. ASSUME Ordered', NEW k \in 1..Len(ckpt.trained)
        PROVE  CpSize * ckpt.trained[k].pos < CpSize * m
    <3>1. CpSize * ckpt.trained[k].pos < Len(ckpt.trained)
      BY <1>2, <1>3, <2>2 DEF CkptInv, Bounded, Ordered
    <3>2. CpSize * ckpt.trained[k].pos \in Nat
      BY <1>4, RankZero
    <3> QED BY <1>4, <1>5, <3>1, <3>2
  <2> QED BY <1>3, <1>6, <2>1, <2>2 DEF HistoryInv, Increasing
<1>10. ASSUME NEW r \in Ranks PROVE (HeldInv(r) /\ PosCounts(r))'
  <2>1. /\ pc'[r] = "fetch" /\ stop'[r] = FALSE /\ slot'[r] = 0
        /\ window'[r] = None /\ data'[r] = None /\ payload'[r] = None
    BY DEF Restart
  <2>2. Fresh(r, pos[r])'
    <3>1. CASE Ordered'
      <4>1. ASSUME NEW k \in 1..Len(ckpt.trained) PROVE ckpt.trained[k].pos < m
        <5>1. CpSize * ckpt.trained[k].pos < CpSize * m
          BY <1>3, <1>6, <1>9, <3>1 DEF HistoryInv
        <5> QED BY <1>4, <5>1, Windows
      <4> QED BY <1>3, <1>6, <4>1 DEF Fresh
    <3>2. CASE ~Ordered'
      BY <1>3, <1>4, <3>2 DEF Fresh, From
    <3> QED BY <3>1, <3>2
  <2>3. HeldInv(r)'
    BY <2>1, <2>2 DEF HeldInv
  <2>4. ~Fetched(r)'
    BY <2>1 DEF Fetched
  <2> QED BY <1>6, <2>1, <2>3, <2>4 DEF PosCounts
<1> QED BY <1>1, <1>7, <1>8, <1>9, <1>10 DEF ReplayInvariant

(* A training step trains on a batch that no step since From trained on    *)
(* before; what it discards, if it saves inside a window, is counted.      *)
LEMMA TrainReplay ==
    ASSUME ReplayInvariant, TrainStep
    PROVE  ReplayInvariant'
<1> USE DEF fetchVars, modelVars, jobVars
<1> DEFINE s == slot[0]
<1> DEFINE L == Len(trained)
<1>1. WindowInvariant'
  BY TrainStepStep DEF ReplayInvariant
<1>2. s \in Ranks /\ s \in Nat /\ \A r \in Ranks : slot[r] = s
  BY RankZero DEF ReplayInvariant, WindowInvariant, TypeOK, SameSlot, Ranks
<1>3. ASSUME NEW r \in Ranks
      PROVE  /\ pc[r] = "step" /\ HeldInv(r) /\ PosCounts(r) /\ RankInv(r) /\ OwnData(r)
             /\ pos[r] \in Nat /\ payload[r] \in Batch /\ payload[r] # None
             /\ After(r) /\ ActiveInside(r)
  <2>1. pc[r] = "step"
    BY DEF TrainStep
  <2>2. OwnData(r)
    BY DEF ReplayInvariant, WindowInvariant
  <2> QED BY <2>1, <2>2, OfRank DEF RankInv
<1>4. PICK b \in Batch : b = payload[s] /\ b.rank = s
  BY <1>2, <1>3 DEF OwnData
<1>5. /\ trained' = Append(trained, b) /\ UNCHANGED <<base, stops, discarded, stop, window, data, pos>>
      /\ pc' = [r \in Ranks |-> "fetch"]
  BY <1>4 DEF TrainStep, Owner
<1>6. L \in Nat /\ base \in Nat /\ base <= L /\ stops \in Nat
  BY LenProperties DEF ReplayInvariant, WindowInvariant, TypeOK, StepsCount
<1>7. /\ Len(trained') = L + 1
      /\ \A k \in 1..L : trained'[k] = trained[k]
      /\ trained'[L + 1] = b
  BY <1>5, AppendProperties DEF ReplayInvariant, WindowInvariant, TypeOK
<1>8. /\ From' = From /\ From \in Nat /\ Ordered' = Ordered
      /\ Progress \in Nat /\ Progress' = Progress + 1
  <2>1. CpSize * UpTo(base) \in Nat
    <3>1. UpTo(base) \in Nat
      BY <1>6, UpToBounds
    <3> QED BY <3>1, RankZero
  <2>2. Progress' = CpSize * UpTo(base) + ((L + 1) - base)
    <3>1. base' = base /\ Len(trained') = L + 1
      BY <1>5, <1>7
    <3>2. Progress' = CpSize * UpTo(base') + (Len(trained') - base')
      BY DEF Progress, UpTo
    <3> QED BY <3>1, <3>2
  <2>3. PICK u \in Nat : u = CpSize * UpTo(base)
    BY <2>1
  <2>4. Progress = u + (L - base) /\ Progress' = u + ((L + 1) - base)
    BY <2>2, <2>3 DEF Progress
  <2>5. Progress \in Nat /\ Progress' = Progress + 1
    BY <1>6, <2>4
  <2> QED BY <1>5, <1>6, <2>5 DEF From, Ordered
<1>9. b.pos \in Nat /\ Fresh(s, b.pos) /\ b.pos < pos[s]
  <2>1. HeldInv(s) /\ payload[s] # None /\ slot[s] <= s
    BY <1>2, <1>3
  <2> QED BY <1>4, <2>1 DEF HeldInv, Batch
<1>10. \A r \in Ranks : slot'[r] = NextSlot(s) /\ payload'[r] = IF NextSlot(s) = 0 THEN None ELSE payload[r]
  BY <1>2, RankZero, SlotIncrement DEF TrainStep, LastSlot, NextSlot, Ranks
<1>11. stops = 0 => CpSize * b.pos < Progress + 1
  <2> SUFFICES ASSUME stops = 0 PROVE CpSize * b.pos < Progress + 1
    OBVIOUS
  <2>1. Fetched(s)
    BY <1>2, <1>3 DEF Fetched
  <2>2. Progress = CpSize * (pos[s] - 1) + s
    BY <1>2, <1>3, <2>1 DEF PosCounts
  <2>3. pos[s] - 1 \in Nat /\ b.pos <= pos[s] - 1
    BY <1>2, <1>3, <1>9
  <2>4. PICK u \in Nat, v \in Nat : u = CpSize * b.pos /\ v = CpSize * (pos[s] - 1)
    BY <1>9, <2>3, RankZero
  <2>5. u <= v
    BY <1>9, <2>3, <2>4, Windows
  <2> QED BY <1>2, <1>8, <2>2, <2>4, <2>5
<1>12. HistoryInv'
  <2> HIDE DEF L
  <2>1. HistoryInv
    BY DEF ReplayInvariant
  <2>2. ASSUME NEW i \in 1..L + 1, NEW j \in 1..L + 1, From <= i, i < j,
               trained'[i].rank = trained'[j].rank
        PROVE  trained'[i].pos < trained'[j].pos
    <3>1. i \in 1..L
      BY <1>6, <2>2
    <3>2. CASE j \in 1..L
      BY <1>7, <2>1, <2>2, <3>1, <3>2 DEF HistoryInv, Increasing, L
    <3>3. CASE j \notin 1..L
      <4>1. j = L + 1
        BY <1>6, <2>2, <3>3
      <4> QED BY <1>4, <1>7, <1>9, <2>2, <3>1, <4>1 DEF Fresh, L
    <3> QED BY <3>2, <3>3
  <2>3. Increasing(trained', From')
    BY <1>7, <1>8, <2>2 DEF Increasing
  <2>4. ASSUME Ordered, NEW k \in 1..L + 1 PROVE CpSize * trained'[k].pos < Progress + 1
    <3>1. CASE k \in 1..L
      <4>1. CpSize * trained[k].pos < Progress
        BY <2>1, <2>4, <3>1 DEF HistoryInv, L
      <4>2. trained[k].pos \in Nat
        <5>1. trained \in Seq(Batch)
          BY DEF ReplayInvariant, WindowInvariant, TypeOK
        <5>2. trained[k] \in Batch
          BY <3>1, <5>1, ElementOfSeq DEF L
        <5> QED BY <5>2 DEF Batch
      <4>3. PICK u \in Nat : u = CpSize * trained[k].pos
        BY <4>2, RankZero
      <4> QED BY <1>7, <1>8, <3>1, <4>1, <4>3
    <3>2. CASE k \notin 1..L
      <4>1. k = L + 1
        BY <1>6, <2>4, <3>2
      <4> QED BY <1>7, <1>11, <2>4, <4>1 DEF Ordered
    <3> QED BY <3>1, <3>2
  <2> QED BY <1>7, <1>8, <2>3, <2>4 DEF HistoryInv, Increasing
<1>13. StepsCount'
  <2>1. L = iter * GradAccum + accum /\ accum < GradAccum /\ (discarded = 0 => Whole(base))
        /\ iter \in Nat /\ accum \in Nat /\ GradAccum \in Nat
    BY WindowAssumption DEF ReplayInvariant, StepsCount, WindowInvariant, TypeOK
  <2>2. (iter + 1) * GradAccum = iter * GradAccum + GradAccum /\ iter * GradAccum \in Nat
    BY <2>1
  <2>3. CASE accum + 1 = GradAccum
    <3>1. iter' = iter + 1 /\ accum' = 0
      BY <2>3 DEF TrainStep
    <3>2. Len(trained') = iter' * GradAccum + accum'
      BY <1>7, <2>1, <2>2, <2>3, <3>1
    <3> QED BY <1>5, <1>6, <2>1, <2>3, <3>1, <3>2 DEF StepsCount
  <2>4. CASE accum + 1 # GradAccum
    <3>1. iter' = iter /\ accum' = accum + 1
      BY <2>4 DEF TrainStep
    <3>2. Len(trained') = iter' * GradAccum + accum' /\ accum' < GradAccum
      BY <1>7, <2>1, <2>2, <2>4, <3>1
    <3> QED BY <1>5, <1>6, <2>1, <3>1, <3>2 DEF StepsCount
  <2> QED BY <2>3, <2>4
<1>14. CkptInv'
  <2>1. CASE UNCHANGED ckpt
    BY <1>5, <2>1 DEF CkptInv, ReplayInvariant, Increasing, Bounded
  <2>2. CASE ckpt' # ckpt
    <3>1. /\ ckpt' = [iter |-> iter', trained |-> trained',
                      discarded |-> discarded + IF slot'[0] = 0 THEN 0 ELSE 1]
          /\ accum' = 0
      BY <2>2 DEF TrainStep
    <3>2. iter' \in Nat /\ Len(trained') = iter' * GradAccum
      <4>1. iter' \in Nat /\ iter' * GradAccum \in Nat
        <5>1. iter' \in Nat /\ GradAccum \in Nat
          BY <1>1, WindowAssumption DEF WindowInvariant, TypeOK
        <5>2. \A m, n \in Nat : m * n \in Nat
          OBVIOUS
        <5> QED BY <5>1, <5>2
      <4>2. Len(trained') = iter' * GradAccum + accum'
        BY <1>13 DEF StepsCount
      <4> QED BY <3>1, <4>1, <4>2
    <3>3. discarded \in Nat /\ slot'[0] = NextSlot(s) /\ slot'[0] \in Nat
      BY <1>1, <1>10, RankZero DEF ReplayInvariant, WindowInvariant, TypeOK, Ranks
    <3>4. slot'[0] = 0 => s = CpSize - 1
      BY <1>2, <3>3, RankZero DEF NextSlot
    <3>5. discarded = 0 /\ slot'[0] = 0 => Whole(Len(trained'))
      <4> SUFFICES ASSUME discarded = 0, s = CpSize - 1 PROVE Whole(Len(trained'))
        BY <3>4
      <4>1. PICK n \in Nat : n = L - base
        <5>1. L - base \in Nat
          BY <1>6
        <5> QED BY <5>1
      <4>2. n % CpSize = CpSize - 1
        BY <1>2, <4>1, RankZero DEF ReplayInvariant, WindowInvariant, SlotCounts
      <4>3. Whole(base + n + 1)
        BY <1>6, <4>2, WindowEnd DEF ReplayInvariant, StepsCount
      <4>4. Len(trained') = base + n + 1
        BY <1>6, <1>7, <4>1
      <4> QED BY <4>3, <4>4
    <3>6. ckpt'.discarded = 0 => Whole(Len(trained'))
      BY <3>1, <3>3, <3>5
    <3>7. ASSUME stops' = 0, ckpt'.discarded <= 1
          PROVE  Increasing(trained', 1) /\ Bounded(trained')
      <4>1. Ordered' /\ (discarded = 0 \/ (discarded = 1 /\ slot'[0] = 0))
        BY <1>5, <3>1, <3>3, <3>7 DEF Ordered
      <4>2. From' = 1 /\ HistoryInv'
        BY <1>12, <4>1 DEF From
      <4>3. ASSUME NEW k \in 1..Len(trained') PROVE CpSize * trained'[k].pos < Len(trained')
        <5>1. trained'[k].pos \in Nat /\ CpSize * trained'[k].pos < Progress'
          <6>1. trained'[k] \in Batch
            BY <1>1, <4>3, ElementOfSeq DEF WindowInvariant, TypeOK
          <6> QED BY <4>1, <4>2, <4>3, <6>1 DEF HistoryInv, Batch
        <5>2. CASE discarded = 0
          <6>1. PICK m \in Nat : base = CpSize * m
            BY <5>2 DEF ReplayInvariant, StepsCount, Whole
          <6>2. CpSize * UpTo(base) = base
            BY <6>1, UpToWhole
          <6>3. Progress = L
            BY <1>6, <6>2 DEF Progress
          <6> QED BY <1>7, <1>8, <5>1, <6>3
        <5>3. CASE slot'[0] = 0
          <6>1. s = CpSize - 1 /\ 0 \in Ranks
            BY <3>4, <5>3, RankZero
          <6>2. Progress = CpSize * (pos[0] - 1) + (CpSize - 1)
            <7>1. Fetched(0) /\ slot[0] = s /\ stops = 0
              BY <1>3, <1>5, <3>7, <6>1 DEF Fetched
            <7> QED BY <1>3, <6>1, <7>1 DEF PosCounts
          <6>3. Progress' = CpSize * pos[0] /\ pos[0] \in Nat
            <7>1. CpSize * pos[0] = CpSize * (pos[0] - 1) + CpSize /\ pos[0] \in Nat
                  /\ CpSize * (pos[0] - 1) \in Int
              BY <1>3, <6>1, RankZero
            <7>2. PICK v \in Int : v = CpSize * (pos[0] - 1)
              BY <7>1
            <7> QED BY <1>8, <6>2, <7>1, <7>2, RankZero
          <6>4. PICK n \in Nat : n = L + 1 - base
            BY <1>6
          <6>5. Progress' = CpSize * UpTo(base) + n /\ Len(trained') = base + n
            BY <1>5, <1>6, <1>7, <6>4 DEF Progress
          <6> QED BY <1>6, <5>1, <6>3, <6>5, BeforeWindow
        <5> QED BY <4>1, <5>2, <5>3
      <4> QED BY <4>2, <4>3 DEF HistoryInv, Increasing, Bounded
    <3>8. ckpt'.trained = trained' /\ ckpt'.iter = iter'
      BY <3>1
    <3> QED BY <3>2, <3>6, <3>7, <3>8 DEF CkptInv, Increasing, Bounded
  <2> QED BY <2>1, <2>2
<1>15. ASSUME NEW r \in Ranks PROVE (HeldInv(r) /\ PosCounts(r))'
  <2> HIDE DEF L
  <2>1. /\ HeldInv(r) /\ PosCounts(r) /\ pos[r] \in Nat /\ After(r) /\ ActiveInside(r)
        /\ payload[r] # None /\ payload[r] \in Batch /\ pc[r] = "step" /\ slot[r] = s
    BY <1>2, <1>3
  <2>2. \A k \in 1..L + 1 : k \in 1..L \/ k = L + 1
    BY <1>6
  <2>3. ASSUME NEW p, \A k \in 1..L : From <= k /\ trained[k].rank = r => trained[k].pos < p,
               r = s => b.pos < p
        PROVE  \A k \in 1..Len(trained') :
                   From' <= k /\ trained'[k].rank = r => trained'[k].pos < p
    BY <1>4, <1>7, <1>8, <2>2, <2>3
  <2>4. Fresh(r, pos[r])'
    <3>1. \A k \in 1..L : From <= k /\ trained[k].rank = r => trained[k].pos < pos[r]
      BY <2>1 DEF HeldInv, Fresh, L
    <3>2. r = s => b.pos < pos[r]
      BY <1>9
    <3> QED BY <1>5, <2>3, <3>1, <3>2 DEF Fresh
  <2>5. /\ NextSlot(s) = 0 => window[r] = None
        /\ NextSlot(s) # 0 /\ NextSlot(s) <= r => r # s /\ s <= r
    <3>1. NextSlot(s) = 0 => window[r] = None
      BY <2>1 DEF After, ActiveInside
    <3>2. NextSlot(s) # 0 => NextSlot(s) = s + 1
      BY DEF NextSlot
    <3> QED BY <1>2, <3>1, <3>2, RankZero DEF Ranks
  <2>6. window'[r] # None /\ slot'[r] <= r => Fresh(r, window[r].pos)'
    <3> SUFFICES ASSUME window'[r] # None, slot'[r] <= r PROVE Fresh(r, window[r].pos)'
      OBVIOUS
    <3>1. r # s /\ s <= r /\ window[r] # None
      BY <1>5, <1>10, <2>5
    <3>2. \A k \in 1..L : From <= k /\ trained[k].rank = r => trained[k].pos < window[r].pos
      BY <2>1, <3>1 DEF HeldInv, Fresh, L
    <3> QED BY <1>5, <2>3, <3>1, <3>2 DEF Fresh
  <2>7. payload'[r] # None /\ slot'[r] <= r => Fresh(r, payload[r].pos)'
    <3> SUFFICES ASSUME payload'[r] # None, slot'[r] <= r PROVE Fresh(r, payload[r].pos)'
      OBVIOUS
    <3>1. r # s /\ s <= r /\ payload'[r] = payload[r]
      BY <1>10, <2>5
    <3>2. \A k \in 1..L : From <= k /\ trained[k].rank = r => trained[k].pos < payload[r].pos
      BY <2>1, <3>1 DEF HeldInv, Fresh, L
    <3> QED BY <2>3, <3>1, <3>2 DEF Fresh
  <2>8. HeldInv(r)'
    <3>1. pc'[r] = "fetch" /\ payload'[r] \in {None, payload[r]}
      BY <1>5, <1>10
    <3> QED BY <1>5, <2>1, <2>4, <2>6, <2>7, <3>1 DEF HeldInv
  <2>9. PosCounts(r)'
    <3> SUFFICES ASSUME stops' = 0
                 PROVE  /\ ~stop'[r]
                        /\ Progress' = IF Fetched(r)' THEN CpSize * (pos'[r] - 1) + slot'[r]
                                       ELSE CpSize * pos'[r]
      BY DEF PosCounts
    <3>1. Fetched(r)
      BY <2>1 DEF Fetched
    <3>2. ~stop[r] /\ Progress = CpSize * (pos[r] - 1) + s
      BY <1>5, <2>1, <3>1 DEF PosCounts
    <3>3. Fetched(r)' <=> NextSlot(s) # 0
      BY <1>5, <1>10 DEF Fetched
    <3>4. CpSize * pos[r] = CpSize * (pos[r] - 1) + CpSize /\ CpSize * (pos[r] - 1) \in Int
      BY <2>1, RankZero
    <3>5. PICK v \in Int : v = CpSize * (pos[r] - 1)
      BY <3>4
    <3>6. CASE s = CpSize - 1
      <4>1. NextSlot(s) = 0
        BY <3>6 DEF NextSlot
      <4>2. Progress' = CpSize * pos[r]
        BY <1>8, <3>2, <3>4, <3>5, <3>6, RankZero
      <4> QED BY <1>5, <3>2, <3>3, <4>1, <4>2
    <3>7. CASE s # CpSize - 1
      <4>1. NextSlot(s) = s + 1 /\ NextSlot(s) # 0
        BY <1>2, <3>7 DEF NextSlot
      <4>2. Progress' = v + (s + 1)
        BY <1>2, <1>8, <3>2, <3>5
      <4>3. Progress' = CpSize * (pos'[r] - 1) + slot'[r]
        BY <1>5, <1>10, <3>5, <4>1, <4>2
      <4> QED BY <1>5, <3>2, <3>3, <4>1, <4>3
    <3> QED BY <3>6, <3>7
  <2> QED BY <2>8, <2>9
<1> QED BY <1>1, <1>12, <1>13, <1>14, <1>15 DEF ReplayInvariant

(* What is trained on increases in the order of each rank's stream.        *)
THEOREM ReplayHolds == Spec => []ReplayInvariant
<1>1. ASSUME ReplayInvariant, [Next]_vars PROVE ReplayInvariant'
  <2>1. CASE UNCHANGED vars
    BY <1>1, <2>1, StutterReplay
  <2>2. CASE Next
    <3>1. ASSUME NEW r \in Ranks, RankStep(r) PROVE ReplayInvariant'
      BY <1>1, <3>1, FetchStartReplay, FetchBatchReplay, FetchStopsReplay, TakeReplay,
         EncodeReplay DEF RankStep
    <3>2. CASE Collective
      BY <1>1, <3>2, AllReduceReplay, TrainReplay DEF Collective
    <3>3. CASE Kill
      BY <1>1, <3>3, KillReplay
    <3>4. CASE Restart
      BY <1>1, <3>4, RestartReplay
    <3> QED BY <2>2, <3>1, <3>2, <3>3, <3>4 DEF Next
  <2> QED BY <1>1, <2>1, <2>2
<1> QED BY <1>1, ReplayInit, PTL DEF Spec

(* NoReplay: no batch is trained on twice in one line of runs that has      *)
(* resumed inside a window at most once, whatever CP size, accumulation and *)
(* saves are, as long as no dataloader has ended; nor ever in the run of a  *)
(* job that starts from nothing.                                            *)
THEOREM NoReplayCorrect == Spec => []NoReplay
<1>1. ReplayInvariant => NoReplay
  <2> SUFFICES ASSUME ReplayInvariant, Ordered \/ base = 0,
                      NEW i \in 1..Len(trained), NEW j \in 1..Len(trained), i # j
               PROVE  trained[i] # trained[j]
    BY DEF NoReplay, NoneRepeated, Ordered
  <2>1. Increasing(trained, 1)
    <3>1. From = 1
      BY DEF From
    <3> QED BY <3>1 DEF ReplayInvariant, HistoryInv
  <2>2. Len(trained) \in Nat
    BY LenProperties DEF ReplayInvariant, WindowInvariant, TypeOK
  <2>3. \A k \in 1..Len(trained) : trained[k].pos \in Nat
    <3>1. \A k \in 1..Len(trained) : trained[k] \in Batch
      BY ElementOfSeq DEF ReplayInvariant, WindowInvariant, TypeOK
    <3> QED BY <3>1 DEF Batch
  <2>4. CASE i < j
    BY <2>1, <2>2, <2>3, <2>4 DEF Increasing
  <2>5. CASE j < i
    BY <2>1, <2>2, <2>3, <2>5 DEF Increasing
  <2> QED BY <2>2, <2>4, <2>5
<1>2. []ReplayInvariant => []NoReplay
  BY <1>1, PTL
<1> QED BY <1>2, ReplayHolds, PTL
=============================================================================
