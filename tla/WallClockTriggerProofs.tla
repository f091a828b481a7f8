----------------------- MODULE WallClockTriggerProofs -----------------------
(***************************************************************************)
(* Proofs about WallClockTrigger: the ranks agree, for any number of ranks *)
(* and any step and write times; while steps are steady, saves are in time *)
(* and no stall is foreseen.                                               *)
(***************************************************************************)
EXTENDS WallClockTrigger, SequenceTheorems, WellFoundedInduction, TLAPS

IsArray(f) == f = [r \in Ranks |-> f[r]]

Pc == {"train", "milestone", "stepEnd", "evaluate", "decide", "wallclock", "poll", "done"}

(* What the proof needs to know of the types. *)
Types ==
    /\ iteration \in Nat
    /\ pc \in [Ranks -> Pc]
    /\ nextCheck \in [Ranks -> Int]
    /\ lastSave \in [Ranks -> Int]
    /\ offer \in [Ranks -> [due : BOOLEAN, stride : Nat \ {0}]]

(* The last save, and the next check, that a rank will have at the end of  *)
(* the step if there is no broadcast.                                      *)
FinalSave(r) == IF pc[r] \in {"milestone", "wallclock"} THEN iteration ELSE lastSave[r]

Undecided == {"milestone", "stepEnd", "evaluate"}

FinalCheck(r) ==
    IF pc[r] \in Undecided /\ iteration >= nextCheck[r] /\ iteration - FinalSave(r) < MinIterations
      THEN iteration + 1 ELSE nextCheck[r]

Together ==
    \A r, s \in Ranks : FinalSave(r) = FinalSave(s) /\ FinalCheck(r) = FinalCheck(s)

(* A rank in the broadcast is there for a reason, which the others have,   *)
(* too, and a rank that is through with the step has a later check.        *)
WaitsDuly ==
    \A r \in Ranks : pc[r] = "decide" =>
        iteration >= nextCheck[r] /\ iteration - lastSave[r] >= MinIterations

LaterCheck ==
    \A r \in Ranks : pc[r] \in {"train", "wallclock", "poll"} /\ iteration > 0 =>
        nextCheck[r] > iteration

(* The first step has not begun, or the last is over: all ranks know. *)
NotStepping ==
    /\ iteration = 0 => AllAt("train") \/ AllAt("done")
    /\ \A r \in Ranks : pc[r] = "done" => AllAt("done")

Agreement == Types /\ Together /\ WaitsDuly /\ LaterCheck /\ NotStepping

USE TriggerAssumption

LEMMA RankZero == 0 \in Ranks
BY DEF Ranks

(* The larger and the smaller of two numbers. *)
LEMMA MaxTwo ==
  ASSUME NEW a \in Int, NEW b \in Int
  PROVE  Max({a, b}) = IF a >= b THEN a ELSE b
<1>1. \E x \in {a, b} : \A y \in {a, b} : x >= y
  <2>1. CASE a >= b
    BY <2>1
  <2>2. CASE b >= a
    BY <2>2
  <2> QED BY <2>1, <2>2
<1> QED BY <1>1 DEF Max

LEMMA MinTwo ==
  ASSUME NEW a \in Int, NEW b \in Int
  PROVE  Min({a, b}) = IF a <= b THEN a ELSE b
<1>1. \E x \in {a, b} : \A y \in {a, b} : x =< y
  <2>1. CASE a >= b
    BY <2>1
  <2>2. CASE b >= a
    BY <2>2
  <2> QED BY <2>1, <2>2
<1> QED BY <1>1 DEF Min

(* The broadcast never says "at once again": a stride is at least 1. *)
LEMMA StridePositive == NextStride \subseteq Nat \ {0}
<1> SUFFICES ASSUME NEW k \in NextStride PROVE k \in Nat \ {0}
  OBVIOUS
<1>1. CASE Remaining <= 0 \/ slowest = 0
  BY <1>1 DEF NextStride
<1>2. CASE ~(Remaining <= 0 \/ slowest = 0)
  <2>1. PICK n \in (Remaining \div slowest)..(Remaining \div fastest) :
          k = Max({1, Min({CheckEveryN, n})})
    BY <1>2 DEF NextStride
  <2>2. n \in Int /\ CheckEveryN \in Int
    BY <2>1
  <2>3. Min({CheckEveryN, n}) \in Int
    BY <2>2, MinTwo
  <2>4. ASSUME NEW m \in Int PROVE Max({1, m}) \in Nat \ {0}
    <3>1. Max({1, m}) \in {1, m} /\ Max({1, m}) >= 1
      BY MaxTwo
    <3> QED BY <3>1
  <2> QED BY <2>1, <2>3, <2>4
<1> QED BY <1>1, <1>2

LEMMA OfferType ==
  ASSUME NEW r \in Ranks, NEW o \in Offers(r)
  PROVE  o \in [due : BOOLEAN, stride : Nat \ {0}]
<1>1. CASE r = 0
  <2>1. o \in [due : {elapsed >= Interval /\ ~m : m \in MilestoneLandsMidWrite},
               stride : NextStride]
    BY <1>1 DEF Offers
  <2>2. {elapsed >= Interval /\ ~m : m \in MilestoneLandsMidWrite} \subseteq BOOLEAN
    OBVIOUS
  <2> QED BY <2>1, <2>2, StridePositive
<1>2. CASE r # 0
  BY <1>2 DEF Offers
<1> QED BY <1>1, <1>2

LEMMA InitAgreement == Init => Agreement
BY DEF Init, Agreement, Types, Together, WaitsDuly, LaterCheck, NotStepping, FinalSave,
       FinalCheck, AllAt, Pc, NoOffer, Undecided

USE DEF Agreement, Types, Together, WaitsDuly, LaterCheck, NotStepping, FinalSave, FinalCheck,
        AllAt, Pc, Undecided, Goto, clockVars

LEMMA TrainKeeps == ASSUME Agreement, TrainStep PROVE Agreement'
BY RankZero DEF TrainStep

LEMMA EndKeeps == ASSUME Agreement, EndTraining PROVE Agreement'
BY RankZero DEF EndTraining

LEMMA SaveKeeps == ASSUME Agreement, NEW r \in Ranks, Save(r) PROVE Agreement'
BY DEF Save

LEMMA PollKeeps == ASSUME Agreement, NEW r \in Ranks, Poll(r) PROVE Agreement'
BY DEF Poll

LEMMA ObserveKeeps == ASSUME Agreement, NEW r \in Ranks, ObserveStep(r) PROVE Agreement'
BY DEF ObserveStep

LEMMA NotYetKeeps == ASSUME Agreement, NEW r \in Ranks, NotYet(r) PROVE Agreement'
BY DEF NotYet

LEMMA SkipKeeps == ASSUME Agreement, NEW r \in Ranks, SkipTooClose(r) PROVE Agreement'
BY DEF SkipTooClose, TooClose

LEMMA OfferKeeps == ASSUME Agreement, NEW r \in Ranks, Offer(r) PROVE Agreement'
<1>1. PICK o \in Offers(r) : offer' = [offer EXCEPT ![r] = o]
  BY DEF Offer
<1>2. o \in [due : BOOLEAN, stride : Nat \ {0}]
  BY OfferType
<1> QED BY <1>1, <1>2 DEF Offer, TooClose

LEMMA AgreeKeeps == ASSUME Agreement, Agree PROVE Agreement'
BY RankZero DEF Agree, Agreed, NoOffer

LEMMA NextKeeps == Agreement /\ [Next]_vars => Agreement'
<1> SUFFICES ASSUME Agreement, [Next]_vars PROVE Agreement'
  OBVIOUS
<1>1. CASE UNCHANGED vars
  BY <1>1 DEF vars, rankVars
<1>2. ASSUME NEW r \in Ranks, RankStep(r) PROVE Agreement'
  BY <1>2, SaveKeeps, PollKeeps, ObserveKeeps, NotYetKeeps, SkipKeeps, OfferKeeps DEF RankStep
<1> QED BY <1>1, <1>2, TrainKeeps, EndKeeps, AgreeKeeps DEF Next, Done

LEMMA AgreementSuffices == Agreement => RanksAgree
BY RankZero DEF RanksAgree

HIDE DEF Agreement

(* Whatever the clocks of the ranks say, they save together: between two    *)
(* steps they have the same next check and last save, and no rank passes by *)
(* a broadcast that another has entered.                                    *)
THEOREM RanksAgreeCorrect == Spec => []RanksAgree
<1> QED BY InitAgreement, NextKeeps, AgreementSuffices, PTL DEF Spec

-----------------------------------------------------------------------------
(* Steady steps: saves are in time, and no stall is foreseen.              *)

HIDE DEF Types, Together, WaitsDuly, LaterCheck, NotStepping, FinalSave, FinalCheck, AllAt, Pc,
         Undecided, Goto, clockVars

(* A step, and a step with a write after it, fit in the interval: otherwise *)
(* the first step, which has no step time to go by, can be due, and a write *)
(* can be confirmed, and the estimate fall, after the last decision.        *)
Fits ==
    \A s \in StepTimes :
        s < Interval /\ \A w \in WriteTimes : s + w <= Interval

Steady == fastest = slowest

(* Rank 0 has yet to observe the step that has been made. *)
Unseen == pc[0] \in {"milestone", "stepEnd"}

(* The steps it observes until its next check ... *)
ToCheck == nextCheck[0] - (IF Unseen THEN iteration - 1 ELSE iteration)

(* ... and until the next milestone. *)
ToMilestone ==
    IF pc[0] = "milestone" THEN 1
    ELSE IF pc[0] = "stepEnd" THEN StepsToMilestone + 1 ELSE StepsToMilestone

(* The milestone would wait for a write that is started now. *)
MidWrite == StepsToMilestone * fastest < WriteEstimate

ClockTypes ==
    /\ elapsed \in Nat /\ sinceStep \in Nat \cup {NoTime}
    /\ fastest \in Nat /\ slowest \in Nat
    /\ samples \in Seq(Nat)
    /\ write \in [iter : Nat, length : WriteTimes \cup {0}, left : Nat, planned : Int]

StepTimesKnown ==
    /\ fastest <= slowest
    /\ fastest = 0 <=> slowest = 0
    /\ sinceStep = NoTime => slowest = 0 /\ elapsed < Interval
    /\ sinceStep = NoTime /\ pc[0] = "train" => elapsed = 0
    /\ Unseen /\ sinceStep # NoTime => sinceStep > 0
    /\ ~Unseen /\ slowest = 0 => elapsed < Interval
    /\ pc[0] \in {"evaluate", "decide", "wallclock"} => sinceStep = 0
    /\ pc[0] = "poll" => sinceStep # NoTime

(* A write under way began when the time was last reset, and ends before it *)
(* is due again.                                                            *)
WriteRuns ==
    /\ write.length = 0 => write.left = 0 /\ write.planned = 0
    /\ write.length > 0 =>
         /\ write.left = IF elapsed >= write.length THEN 0 ELSE write.length - elapsed
         /\ elapsed < Interval
    /\ pc[0] = "train" /\ write.length > 0 => write.left > 0

(* Steady steps reach the next check before the interval is over, unless it *)
(* is the next step.                                                        *)
CheckInTime ==
    /\ slowest = 0 => ToCheck <= 1 /\ (pc[0] = "evaluate" => ToCheck <= 0)
    /\ Steady /\ slowest > 0 /\ (ToCheck >= 2 \/ (pc[0] = "evaluate" /\ ToCheck >= 1)) =>
         elapsed - sinceStep + ToCheck * slowest <= Interval

(* What rank 0 brings to the broadcast. *)
OfferHolds ==
    pc[0] = "decide" =>
        /\ offer[0].stride >= 2 =>
             slowest > 0 /\ (Steady => elapsed + offer[0].stride * slowest <= Interval)
        /\ offer[0].due => elapsed >= Interval /\ (Steady => ~MidWrite)
        /\ ~offer[0].due /\ elapsed >= Interval /\ Steady => MidWrite

SaveFits == pc[0] = "wallclock" => slowest > 0 /\ (Steady => ~MidWrite)

Settled ==
    pc[0] \in {"poll", "train"} /\ Steady /\ elapsed >= Interval =>
        TooClose(0) \/ CpDataWindowActive \/ MidWrite

(* A planned write has its time until the next milestone. *)
PlanHolds ==
    write.planned > 0 =>
        slowest > 0 /\ (Steady => elapsed - sinceStep + ToMilestone * slowest >= write.planned)

ClockInvariant ==
    /\ ClockTypes /\ StepTimesKnown /\ WriteRuns /\ CheckInTime
    /\ OfferHolds /\ SaveFits /\ Settled /\ PlanHolds

LEMMA ProductMonotone ==
  ASSUME NEW a \in Nat, NEW b \in Nat, NEW c \in Nat, a <= b
  PROVE  a * c <= b * c
<1>1. PICK e \in Nat : b = a + e
  <2>1. b - a \in Nat /\ b = a + (b - a)
    OBVIOUS
  <2> QED BY <2>1
<1>2. b * c = a * c + e * c /\ a * c \in Nat /\ e * c \in Nat
  BY <1>1
<1> QED BY <1>2

(* the length of a sequence is done with it.                                 *)
LEMMA Least ==
  ASSUME NEW T \in SUBSET Nat, T # {}
  PROVE  \E m \in T : \A n \in T : m <= n
<1> DEFINE R == OpToRel(<, Nat)
<1>1. IsWellFoundedOn(R, Nat)
  BY NatLessThanWellFounded
<1> HIDE DEF R
<1>2. PICK m \in T : \A n \in T : <<n, m>> \notin R
  BY <1>1, WFMin
<1>3. \A n \in T : ~(n < m)
  BY <1>2 DEF R, OpToRel
<1> QED BY <1>3

(* A finite sequence of numbers has a greatest element. *)
HasGreatest(n) == \A f \in [1..n -> Int] : \E q \in 1..n : \A i \in 1..n : f[i] <= f[q]

LEMMA Greatest == \A n \in Nat \ {0} : HasGreatest(n)
<1> DEFINE T == {n \in Nat \ {0} : ~HasGreatest(n)}
<1>1. SUFFICES ASSUME T # {} PROVE FALSE
  OBVIOUS
<1>2. PICK n \in T : \A k \in T : n <= k
  BY <1>1, Least
<1>3. PICK f \in [1..n -> Int] : ~ \E q \in 1..n : \A i \in 1..n : f[i] <= f[q]
  BY <1>2 DEF HasGreatest
<1>4. n # 1
  <2>1. SUFFICES ASSUME n = 1 PROVE FALSE
    OBVIOUS
  <2>2. 1 \in 1..n /\ \A i \in 1..n : i = 1
    BY <2>1
  <2>3. f[1] \in Int
    BY <2>2
  <2>4. \A i \in 1..n : f[i] <= f[1]
    BY <2>2, <2>3
  <2> QED BY <1>3, <2>2, <2>4
<1>5. n \in Nat /\ n - 1 \in Nat \ {0} /\ n - 1 \notin T
  BY <1>2, <1>4
<1> DEFINE g == [i \in 1..(n - 1) |-> f[i]]
<1>6. HasGreatest(n - 1) /\ g \in [1..(n - 1) -> Int]
  BY <1>5
<1>7. PICK q \in 1..(n - 1) : \A i \in 1..(n - 1) : g[i] <= g[q]
  BY <1>6 DEF HasGreatest
<1>8. \A i \in 1..(n - 1) : f[i] <= f[q]
  BY <1>7
<1>9. CASE f[n] <= f[q]
  <2>1. q \in 1..n /\ \A i \in 1..n : i \in 1..(n - 1) \/ i = n
    BY <1>5, <1>7
  <2> QED BY <2>1, <1>3, <1>8, <1>9
<1>10. CASE ~(f[n] <= f[q])
  <2>1. /\ n \in 1..n /\ q \in 1..n /\ f[n] \in Int /\ f[q] \in Int
        /\ \A i \in 1..n : i \in 1..(n - 1) \/ i = n
        /\ \A i \in 1..n : f[i] \in Int
    BY <1>5, <1>7
  <2>2. \A i \in 1..n : f[i] <= f[n]
    <3> SUFFICES ASSUME NEW i \in 1..n PROVE f[i] <= f[n]
      OBVIOUS
    <3>1. CASE i = n
      BY <2>1, <3>1
    <3>2. CASE i \in 1..(n - 1)
      <4>1. f[i] <= f[q] /\ f[q] < f[n]
        BY <1>8, <3>2, <1>10, <2>1
      <4>2. f[i] \in Int
        BY <2>1
      <4> QED BY <4>1, <4>2, <2>1
    <3> QED BY <2>1, <3>1, <3>2
  <2> QED BY <2>1, <2>2, <1>3
<1> QED BY <1>9, <1>10

(* The estimate is a number. *)
LEMMA EstimateType == ASSUME ClockTypes PROVE WriteEstimate \in Nat
<1>1. samples \in Seq(Nat)
  BY DEF ClockTypes
<1>2. PICK n \in Nat : n = Len(samples)
  BY <1>1, LenProperties
<1>3. \A i \in 1..n : samples[i] \in Nat
  BY <1>1, <1>2, ElementOfSeq
<1> DEFINE f == [i \in 1..(n + 1) |-> IF i = n + 1 THEN AssumedWrite ELSE samples[i]]
<1>4. f \in [1..(n + 1) -> Nat] /\ f \in [1..(n + 1) -> Int]
  BY <1>3
<1>6. f[n + 1] = AssumedWrite /\ \A i \in 1..n : f[i] = samples[i]
  OBVIOUS
<1> HIDE DEF f
<1>5. PICK q \in 1..(n + 1) : \A i \in 1..(n + 1) : f[i] <= f[q]
  <2>1. HasGreatest(n + 1)
    BY Greatest
  <2> QED BY <1>4, <2>1 DEF HasGreatest
<1> DEFINE S == {AssumedWrite} \cup {samples[i] : i \in 1..n}
<1>7. f[q] \in S /\ \A y \in S : f[q] >= y
  <2>1. f[q] \in S
    BY <1>6
  <2>2. f[q] \in Nat /\ n + 1 \in 1..(n + 1) /\ \A i \in 1..n : i \in 1..(n + 1)
    BY <1>4
  <2>3. f[q] >= AssumedWrite /\ \A i \in 1..n : f[q] >= samples[i]
    BY <1>3, <1>5, <1>6, <2>2
  <2> QED BY <2>1, <2>3
<1>8. Max(S) \in S
  BY <1>7 DEF Max
<1>9. WriteEstimate = Max(S)
  BY <1>2 DEF WriteEstimate
<1> QED BY <1>3, <1>8, <1>9

(* Multiples of c lie at least c apart. *)
LEMMA Multiples ==
    ASSUME NEW c \in Nat \ {0}, NEW a \in Nat, NEW b \in Nat, a < b
    PROVE  c * b >= c * a + c
<1> DEFINE e == b - a - 1
<1>1. e \in Nat /\ b = a + 1 + e
  OBVIOUS
<1>2. c * b = c * a + c + c * e
  BY <1>1
<1>3. c * e \in Nat /\ c * a \in Nat
  BY <1>1
<1> QED BY <1>2, <1>3

(* The remainder is the only residue. *)
LEMMA Residue ==
    ASSUME NEW c \in Nat \ {0}, NEW a \in Nat, NEW b \in 0..c - 1
    PROVE  (c * a + b) % c = b
<1>1. PICK x \in Nat : x = c * a + b
  OBVIOUS
<1>2. PICK q \in Nat, m \in 0..c - 1 : x = c * q + m /\ m = x % c
  <2>1. x \div c \in Nat /\ x % c \in 0..c - 1 /\ x = c * (x \div c) + (x % c)
    OBVIOUS
  <2> QED BY <2>1
<1>3. ~(q < a)
  <2>1. SUFFICES ASSUME q < a PROVE FALSE
    OBVIOUS
  <2>2. c * a >= c * q + c
    BY <2>1, Multiples
  <2>3. PICK u \in Nat, v \in Nat : u = c * a /\ v = c * q
    OBVIOUS
  <2> QED BY <1>1, <1>2, <2>2, <2>3
<1>4. ~(a < q)
  <2>1. SUFFICES ASSUME a < q PROVE FALSE
    OBVIOUS
  <2>2. c * q >= c * a + c
    BY <2>1, Multiples
  <2>3. PICK u \in Nat, v \in Nat : u = c * a /\ v = c * q
    OBVIOUS
  <2> QED BY <1>1, <1>2, <2>2, <2>3
<1>5. a = q
  BY <1>3, <1>4
<1>6. PICK u \in Nat : u = c * a
  OBVIOUS
<1>7. b = m
  BY <1>1, <1>2, <1>5, <1>6
<1>8. (c * a + b) % c = x % c
  BY <1>1
<1> QED BY <1>2, <1>7, <1>8

(* The next residue. *)
LEMMA NextResidue ==
    ASSUME NEW n \in Nat, NEW c \in Nat \ {0}
    PROVE  /\ n % c \in 0..c - 1
           /\ (n + 1) % c = IF n % c = c - 1 THEN 0 ELSE (n % c) + 1
<1>1. PICK q \in Nat, m \in 0..c - 1 : n = c * q + m /\ m = n % c
  <2>1. n \div c \in Nat /\ n % c \in 0..c - 1 /\ n = c * (n \div c) + (n % c)
    OBVIOUS
  <2> QED BY <2>1
<1>2. CASE m = c - 1
  <2>1. n + 1 = c * (q + 1) + 0
    <3>1. c * (q + 1) = c * q + c
      OBVIOUS
    <3>2. PICK u \in Nat : u = c * q
      OBVIOUS
    <3> QED BY <1>1, <1>2, <3>1, <3>2
  <2>2. (c * (q + 1) + 0) % c = 0
    BY Residue
  <2> QED BY <1>1, <1>2, <2>1, <2>2
<1>3. CASE m # c - 1
  <2>1. n + 1 = c * q + (m + 1) /\ m + 1 \in 0..c - 1
    BY <1>1, <1>3
  <2>2. (c * q + (m + 1)) % c = m + 1
    BY <2>1, Residue
  <2> QED BY <1>1, <1>3, <2>1, <2>2
<1> QED BY <1>2, <1>3

LEMMA WriteFields ==
  ASSUME ClockTypes
  PROVE  /\ write.length \in WriteTimes \cup {0} /\ write.length \in Nat /\ write.left \in Nat
         /\ write.planned \in Int
         /\ write = [iter |-> write.iter, length |-> write.length, left |-> write.left,
                     planned |-> write.planned]
<1>1. write \in [iter : Nat, length : WriteTimes \cup {0}, left : Nat, planned : Int]
  BY DEF ClockTypes
<1>2. WriteTimes \cup {0} \subseteq Nat
  OBVIOUS
<1>3. write.length \in WriteTimes \cup {0} /\ write.left \in Nat /\ write.planned \in Int
  BY <1>1
<1> QED BY <1>1, <1>2, <1>3

(* Observing a write keeps numbers. *)
LEMMA ObservedType == ASSUME ClockTypes PROVE Observed \in Seq(Nat)
<1>1. samples \in Seq(Nat) /\ write.length \in Nat
  BY WriteFields DEF ClockTypes
<1>2. PICK all \in Seq(Nat) : all = Append(samples, write.length)
  BY <1>1, AppendProperties
<1>3. all # <<>> /\ Tail(all) \in Seq(Nat)
  <2>1. Len(all) = Len(samples) + 1
    BY <1>1, <1>2, AppendProperties
  <2>2. all # <<>>
    BY <1>1, <2>1, LenProperties
  <2> QED BY <2>2, HeadTailProperties
<1> QED BY <1>1, <1>2, <1>3 DEF Observed

LEMMA MilestoneDistance ==
  ASSUME NEW i \in Nat, iteration = i
  PROVE  StepsToMilestone \in 1..SaveIter
<1>1. i % SaveIter \in 0..SaveIter - 1
  OBVIOUS
<1> QED BY <1>1 DEF StepsToMilestone

(* Steps that rank 0 does not take. *)
LEMMA ClockStays ==
  ASSUME ClockInvariant, UNCHANGED <<iteration, clockVars>>,
         pc'[0] = pc[0], nextCheck'[0] = nextCheck[0], lastSave'[0] = lastSave[0],
         offer'[0] = offer[0]
  PROVE  ClockInvariant'
<1> USE DEF clockVars, Steady, Unseen, MidWrite, WriteEstimate, StepsToMilestone
<1>1. (ClockTypes /\ StepTimesKnown /\ WriteRuns)'
  BY DEF ClockInvariant, ClockTypes, StepTimesKnown, WriteRuns
<1>2. (CheckInTime /\ OfferHolds /\ SaveFits)'
  BY DEF ClockInvariant, CheckInTime, ToCheck, OfferHolds, SaveFits
<1>3. (Settled /\ PlanHolds)'
  BY DEF ClockInvariant, Settled, TooClose, CpDataWindowActive, PlanHolds, ToMilestone
<1> QED BY <1>1, <1>2, <1>3 DEF ClockInvariant

LEMMA InitClock == Init => ClockInvariant
<1> SUFFICES ASSUME Init PROVE ClockInvariant
  OBVIOUS
<1>1. /\ iteration = 0 /\ pc[0] = "train" /\ nextCheck[0] = 0
      /\ elapsed = 0 /\ sinceStep = NoTime /\ fastest = 0 /\ slowest = 0
      /\ samples = <<>> /\ write = NoWrite
  BY RankZero DEF Init
<1>2. ClockTypes
  BY <1>1 DEF ClockTypes, NoWrite
<1>3. StepTimesKnown /\ WriteRuns /\ Settled /\ PlanHolds
  BY <1>1 DEF StepTimesKnown, WriteRuns, NoWrite, Settled, PlanHolds, Unseen
<1>4. CheckInTime /\ OfferHolds /\ SaveFits
  BY <1>1 DEF CheckInTime, ToCheck, Unseen, OfferHolds, SaveFits
<1> QED BY <1>2, <1>3, <1>4 DEF ClockInvariant

LEMMA TrainClock ==
  ASSUME Fits, Agreement, ClockInvariant, TrainStep
  PROVE  ClockInvariant'
<1> USE RankZero
<1>1. /\ iteration \in Nat /\ pc[0] = "train" /\ nextCheck[0] \in Int
  BY DEF Agreement, Types, TrainStep, AllAt
<1>2. PICK d \in StepTimes :
          /\ elapsed' = elapsed + d
          /\ sinceStep' = Later(sinceStep, d)
          /\ write' = [write EXCEPT !.left = Max({0, write.left - d})]
  BY DEF TrainStep
<1>3. /\ iteration' = iteration + 1
      /\ pc'[0] = IF iteration' % SaveIter = 0 THEN "milestone" ELSE "stepEnd"
      /\ UNCHANGED <<nextCheck, lastSave, offer, fastest, slowest, samples>>
  BY DEF TrainStep
<1>4. /\ ClockTypes /\ StepTimesKnown /\ WriteRuns /\ CheckInTime /\ PlanHolds
      /\ d \in Nat \ {0} /\ d < Interval
      /\ elapsed \in Nat /\ sinceStep \in Nat \cup {NoTime} /\ slowest \in Nat
  BY DEF ClockInvariant, ClockTypes, Fits
<1>5. /\ write.length \in WriteTimes \cup {0} /\ write.length \in Nat /\ write.left \in Nat
      /\ write.planned \in Int
  BY <1>4, WriteFields
<1>6. /\ write'.left = IF write.left >= d THEN write.left - d ELSE 0
      /\ write'.length = write.length /\ write'.planned = write.planned /\ write'.iter = write.iter
      /\ write'.left \in Nat
  <2>1. Max({0, write.left - d}) = IF 0 >= write.left - d THEN 0 ELSE write.left - d
    BY <1>4, <1>5, MaxTwo
  <2>2. PICK m : m = Max({0, write.left - d})
    OBVIOUS
  <2>3. write' = [iter |-> write.iter, length |-> write.length, left |-> m, planned |-> write.planned]
    BY <1>2, <1>4, <2>2, WriteFields
  <2>4. m = IF write.left >= d THEN write.left - d ELSE 0
    BY <1>4, <1>5, <2>1, <2>2
  <2>5. m \in Nat
    BY <1>4, <1>5, <2>4
  <2> QED BY <2>3, <2>4, <2>5
<1>7. sinceStep' = IF sinceStep = NoTime THEN NoTime ELSE sinceStep + d
  BY <1>2 DEF Later
<1>8. ClockTypes'
  <2>1. write' \in [iter : Nat, length : WriteTimes \cup {0}, left : Nat, planned : Int]
    BY <1>2, <1>4, <1>6 DEF ClockTypes
  <2>2. elapsed' \in Nat /\ sinceStep' \in Nat \cup {NoTime}
    BY <1>2, <1>4, <1>7
  <2> QED BY <1>3, <1>4, <2>1, <2>2 DEF ClockTypes
<1>9. StepTimesKnown'
  BY <1>1, <1>2, <1>3, <1>4, <1>7 DEF StepTimesKnown, Unseen, NoTime
<1>10. WriteRuns'
  <2>1. pc'[0] # "train"
    BY <1>3
  <2>2. CASE write.length = 0
    BY <1>4, <1>5, <1>6, <2>1, <2>2 DEF WriteRuns
  <2>3. CASE write.length > 0
    <3>1. elapsed < write.length /\ write.left = write.length - elapsed
      BY <1>1, <1>4, <1>5, <2>3 DEF WriteRuns
    <3>2. d + write.length <= Interval
      BY <1>5, <2>3 DEF Fits
    <3>3. elapsed' < Interval
      BY <1>2, <1>4, <1>5, <3>1, <3>2
    <3>4. write'.left = IF elapsed' >= write.length THEN 0 ELSE write.length - elapsed'
      BY <1>2, <1>4, <1>5, <1>6, <3>1
    <3> QED BY <1>6, <2>1, <2>3, <3>3, <3>4 DEF WriteRuns
  <2> QED BY <1>5, <2>2, <2>3
<1>11. Unseen' /\ ~Unseen
  BY <1>1, <1>3 DEF Unseen
<1>12. ToCheck' = ToCheck /\ ToCheck \in Int
  BY <1>1, <1>3, <1>11 DEF ToCheck
<1>13. sinceStep = NoTime \/ elapsed' - sinceStep' = elapsed - sinceStep
  BY <1>2, <1>4, <1>7
<1>14. CheckInTime'
  <2>1. pc'[0] # "evaluate" /\ (slowest > 0 => sinceStep # NoTime)
    BY <1>3, <1>4 DEF StepTimesKnown
  <2> QED BY <1>3, <1>4, <1>12, <1>13, <2>1 DEF CheckInTime, Steady
<1>15. ToMilestone' = ToMilestone
  <2>1. /\ iteration % SaveIter \in 0..SaveIter - 1
        /\ (iteration + 1) % SaveIter = IF iteration % SaveIter = SaveIter - 1 THEN 0
                                        ELSE (iteration % SaveIter) + 1
    BY <1>1, NextResidue
  <2> QED BY <1>1, <1>3, <2>1 DEF ToMilestone, StepsToMilestone
<1>16. PlanHolds'
  BY <1>3, <1>4, <1>6, <1>13, <1>15 DEF PlanHolds, Steady, StepTimesKnown
<1>17. OfferHolds' /\ SaveFits' /\ Settled'
  BY <1>3 DEF OfferHolds, SaveFits, Settled
<1> QED BY <1>8, <1>9, <1>10, <1>14, <1>16, <1>17 DEF ClockInvariant

LEMMA EndClock ==
  ASSUME Agreement, ClockInvariant, EndTraining
  PROVE  ClockInvariant'
<1> USE RankZero DEF clockVars
<1>1. pc[0] = "train" /\ pc'[0] = "done"
  BY DEF EndTraining, AllAt
<1>2. UNCHANGED <<iteration, nextCheck, lastSave, offer, clockVars>>
  BY DEF EndTraining
<1>3. (ClockTypes /\ StepTimesKnown /\ WriteRuns)'
  BY <1>1, <1>2 DEF ClockInvariant, ClockTypes, StepTimesKnown, WriteRuns, Unseen
<1>4. (CheckInTime /\ OfferHolds /\ SaveFits /\ Settled)'
  BY <1>1, <1>2 DEF ClockInvariant, CheckInTime, ToCheck, OfferHolds, SaveFits, Settled, Unseen, Steady
<1>5. PlanHolds'
  BY <1>1, <1>2 DEF ClockInvariant, PlanHolds, ToMilestone, StepsToMilestone, Steady
<1> QED BY <1>3, <1>4, <1>5 DEF ClockInvariant

(* A milestone's save resets the time and has no plan. *)
LEMMA MilestoneClock ==
  ASSUME Agreement, ClockInvariant, Save(0), pc[0] = "milestone"
  PROVE  ClockInvariant'
<1> USE RankZero DEF clockVars
<1>1. /\ pc'[0] = "stepEnd" /\ elapsed' = 0 /\ samples' = Observed
      /\ sinceStep' = Later(sinceStep, write.left)
      /\ UNCHANGED <<iteration, nextCheck, offer, fastest, slowest>>
  BY DEF Save, Goto, Agreement, Types
<1>2. PICK d \in WriteTimes :
          write' = [iter |-> iteration, length |-> d, left |-> d, planned |-> 0]
  BY DEF Save
<1>3. /\ ClockTypes /\ StepTimesKnown /\ CheckInTime /\ iteration \in Nat /\ nextCheck[0] \in Int
      /\ sinceStep \in Nat \cup {NoTime} /\ write.left \in Nat /\ elapsed \in Nat /\ slowest \in Nat
      /\ d \in Nat \ {0}
  BY DEF ClockInvariant, ClockTypes, Agreement, Types
<1>4. sinceStep' = IF sinceStep = NoTime THEN NoTime ELSE sinceStep + write.left
  BY <1>1 DEF Later
<1>5. ClockTypes'
  <2>1. samples' \in Seq(Nat)
    BY <1>1, <1>3, ObservedType
  <2>2. sinceStep' \in Nat \cup {NoTime}
    BY <1>3, <1>4
  <2> QED BY <1>1, <1>2, <1>3, <2>1, <2>2 DEF ClockTypes
<1>6. StepTimesKnown'
  BY <1>1, <1>3, <1>4 DEF StepTimesKnown, Unseen, NoTime
<1>7. WriteRuns' /\ PlanHolds'
  BY <1>1, <1>2, <1>3 DEF WriteRuns, PlanHolds
<1>8. CheckInTime'
  <2>1. ToCheck' = ToCheck /\ ToCheck \in Int
    BY <1>1, <1>3 DEF ToCheck, Unseen
  <2>2. sinceStep # NoTime => elapsed' - sinceStep' <= elapsed - sinceStep
    BY <1>1, <1>3, <1>4
  <2>3. slowest > 0 => sinceStep # NoTime
    BY <1>3 DEF StepTimesKnown
  <2>4. PICK p \in Int : p = ToCheck * slowest
    BY <1>3, <2>1
  <2>5. sinceStep # NoTime /\ elapsed - sinceStep + p <= Interval => elapsed' - sinceStep' + p <= Interval
    BY <1>1, <1>3, <1>4, <2>2
  <2> QED BY <1>1, <1>3, <2>1, <2>3, <2>4, <2>5 DEF CheckInTime, Steady
<1>9. OfferHolds' /\ SaveFits' /\ Settled'
  BY <1>1 DEF OfferHolds, SaveFits, Settled
<1> QED BY <1>5, <1>6, <1>7, <1>8, <1>9 DEF ClockInvariant

(* A wall-clock save has the plan its decision was made with. *)
LEMMA WallClockClock ==
  ASSUME Agreement, ClockInvariant, Save(0), pc[0] = "wallclock"
  PROVE  ClockInvariant'
<1> USE RankZero DEF clockVars
<1>1. /\ pc'[0] = "poll" /\ elapsed' = 0 /\ samples' = Observed
      /\ sinceStep' = Later(sinceStep, write.left)
      /\ UNCHANGED <<iteration, nextCheck, offer, fastest, slowest>>
  BY DEF Save, Goto, Agreement, Types
<1>2. PICK d \in WriteTimes :
          write' = [iter |-> iteration, length |-> d, left |-> d,
                    planned |-> WriteEstimate - write.left]
  BY DEF Save
<1>3. /\ ClockTypes /\ StepTimesKnown /\ CheckInTime /\ SaveFits
      /\ iteration \in Nat /\ nextCheck[0] \in Int
      /\ write.left \in Nat /\ elapsed \in Nat /\ slowest \in Nat /\ fastest \in Nat
      /\ d \in Nat \ {0} /\ WriteEstimate \in Nat
  BY EstimateType DEF ClockInvariant, ClockTypes, Agreement, Types
<1>4. sinceStep = 0 /\ sinceStep' = write.left
  BY <1>1, <1>3 DEF StepTimesKnown, Later, NoTime
<1>5. ClockTypes'
  <2>1. samples' \in Seq(Nat)
    BY <1>1, <1>3, ObservedType
  <2>2. write' \in [iter : Nat, length : WriteTimes \cup {0}, left : Nat, planned : Int]
    BY <1>2, <1>3
  <2> QED BY <1>1, <1>3, <1>4, <2>1, <2>2 DEF ClockTypes
<1>6. StepTimesKnown'
  BY <1>1, <1>3, <1>4 DEF StepTimesKnown, Unseen, NoTime
<1>7. WriteRuns'
  BY <1>1, <1>2, <1>3 DEF WriteRuns
<1>8. CheckInTime'
  <2>1. ToCheck' = ToCheck /\ ToCheck \in Int
    BY <1>1, <1>3 DEF ToCheck, Unseen
  <2>2. PICK p \in Int : p = ToCheck * slowest
    BY <1>3, <2>1
  <2>3. elapsed - sinceStep + p <= Interval => elapsed' - sinceStep' + p <= Interval
    BY <1>1, <1>3, <1>4
  <2> QED BY <1>1, <1>3, <2>1, <2>2, <2>3 DEF CheckInTime, Steady
<1>9. PlanHolds'
  <2> SUFFICES ASSUME Steady
               PROVE  elapsed' - sinceStep' + ToMilestone' * slowest' >= write'.planned
    BY <1>1, <1>3 DEF PlanHolds, Steady, SaveFits
  <2>1. ~MidWrite /\ StepsToMilestone \in 1..SaveIter
    BY <1>3, MilestoneDistance DEF SaveFits
  <2>2. PICK p \in Int : p = StepsToMilestone * slowest
    BY <1>3, <2>1
  <2>3. p >= WriteEstimate
    BY <1>3, <2>1, <2>2 DEF MidWrite, Steady
  <2>4. ToMilestone' * slowest' = p
    BY <1>1, <2>2 DEF ToMilestone, StepsToMilestone
  <2>5. write'.planned = WriteEstimate - write.left
    BY <1>2
  <2> QED BY <1>1, <1>3, <1>4, <2>3, <2>4, <2>5
<1>10. OfferHolds' /\ SaveFits' /\ Settled'
  BY <1>1 DEF OfferHolds, SaveFits, Settled
<1> QED BY <1>5, <1>6, <1>7, <1>8, <1>9, <1>10 DEF ClockInvariant

LEMMA PollClock ==
  ASSUME Agreement, ClockInvariant, Poll(0)
  PROVE  ClockInvariant'
<1> USE RankZero DEF clockVars
<1>1. /\ pc[0] = "poll" /\ pc'[0] = "train"
      /\ UNCHANGED <<iteration, nextCheck, lastSave, offer, elapsed, sinceStep, fastest, slowest>>
  BY DEF Poll, Goto, Agreement, Types
<1>2. \/ write.left = 0 /\ samples' = Observed /\ write' = NoWrite
      \/ write.left # 0 /\ UNCHANGED <<samples, write>>
  BY DEF Poll
<1>3. ClockTypes /\ StepTimesKnown /\ WriteRuns /\ CheckInTime /\ Settled /\ PlanHolds
  BY DEF ClockInvariant
<1>4. elapsed \in Nat /\ write.length \in Nat /\ write.left \in Nat
  BY <1>3, WriteFields DEF ClockTypes
<1>5. ClockTypes'
  BY <1>1, <1>2, <1>3, ObservedType DEF ClockTypes, NoWrite
<1>6. StepTimesKnown'
  <2>1. sinceStep # NoTime
    BY <1>1, <1>3 DEF StepTimesKnown
  <2> QED BY <1>1, <1>3, <2>1 DEF StepTimesKnown, Unseen
<1>7. WriteRuns'
  BY <1>1, <1>2, <1>3, <1>4 DEF WriteRuns, NoWrite
<1>8. CheckInTime'
  BY <1>1, <1>3 DEF CheckInTime, ToCheck, Unseen, Steady
<1>9. PlanHolds'
  BY <1>1, <1>2, <1>3 DEF PlanHolds, NoWrite, ToMilestone, StepsToMilestone, Steady
<1>10. Settled'
  <2> SUFFICES ASSUME Steady, elapsed >= Interval
               PROVE  (TooClose(0) \/ CpDataWindowActive \/ MidWrite)'
    BY <1>1 DEF Settled, Steady
  <2>1. write.length = 0
    BY <1>3, <1>4 DEF WriteRuns
  <2>2. samples' = samples
    BY <1>2, <2>1 DEF Observed
  <2>3. TooClose(0) \/ CpDataWindowActive \/ MidWrite
    BY <1>1, <1>3 DEF Settled
  <2> QED BY <1>1, <2>2, <2>3 DEF TooClose, CpDataWindowActive, MidWrite, StepsToMilestone, WriteEstimate
<1>11. OfferHolds' /\ SaveFits'
  BY <1>1 DEF OfferHolds, SaveFits
<1> QED BY <1>5, <1>6, <1>7, <1>8, <1>9, <1>10, <1>11 DEF ClockInvariant

LEMMA ObserveClock ==
  ASSUME Agreement, ClockInvariant, ObserveStep(0)
  PROVE  ClockInvariant'
<1> USE RankZero DEF clockVars
<1>1. /\ pc[0] = "stepEnd" /\ pc'[0] = "evaluate" /\ sinceStep' = 0
      /\ slowest' = IF sinceStep = NoTime THEN 0 ELSE Max({slowest, sinceStep})
      /\ fastest' = IF sinceStep = NoTime THEN 0
                    ELSE IF fastest = 0 THEN sinceStep
                    ELSE IF sinceStep < fastest THEN sinceStep ELSE fastest
      /\ UNCHANGED <<iteration, nextCheck, lastSave, offer, elapsed, samples, write>>
  BY DEF ObserveStep, Goto, Agreement, Types
<1>2. /\ ClockTypes /\ StepTimesKnown /\ WriteRuns /\ CheckInTime /\ PlanHolds
      /\ elapsed \in Nat /\ sinceStep \in Nat \cup {NoTime} /\ fastest \in Nat /\ slowest \in Nat
      /\ iteration \in Nat /\ nextCheck[0] \in Int
  BY DEF ClockInvariant, ClockTypes, Agreement, Types
<1>3. sinceStep = NoTime \/ sinceStep \in Nat \ {0}
  BY <1>1, <1>2 DEF StepTimesKnown, Unseen
<1>4. slowest' = IF sinceStep = NoTime THEN 0 ELSE IF slowest >= sinceStep THEN slowest ELSE sinceStep
  BY <1>1, <1>2, <1>3, MaxTwo
<1>5. ClockTypes'
  BY <1>1, <1>2, <1>3, <1>4 DEF ClockTypes
<1>6. StepTimesKnown'
  BY <1>1, <1>2, <1>3, <1>4 DEF StepTimesKnown, Unseen, NoTime
<1>7. WriteRuns'
  BY <1>1, <1>2 DEF WriteRuns
<1>8. ToCheck' = ToCheck - 1 /\ ToCheck \in Int
  BY <1>1, <1>2 DEF ToCheck, Unseen
(* Steady steps have been steady, and this one is no exception. *)
<1>9. Steady' /\ slowest' > 0 =>
         sinceStep # NoTime /\ slowest' = sinceStep /\ (slowest > 0 => Steady /\ slowest = sinceStep)
  BY <1>1, <1>2, <1>3, <1>4 DEF Steady, StepTimesKnown
<1>10. CheckInTime'
  <2>1. slowest' = 0 => slowest = 0
    BY <1>2, <1>3, <1>4 DEF StepTimesKnown
  <2>2. slowest = 0 => ToCheck' <= 0
    BY <1>2, <1>8 DEF CheckInTime
  <2>3. ASSUME Steady', slowest' > 0, ToCheck' >= 1
        PROVE  elapsed' - sinceStep' + ToCheck' * slowest' <= Interval
    <3>1. slowest > 0
      BY <1>2, <1>8, <2>2, <2>3
    <3>2. Steady /\ slowest = sinceStep /\ slowest' = slowest
      BY <1>9, <2>3, <3>1
    <3>3. ToCheck >= 2
      BY <1>8, <2>3
    <3>4. elapsed - sinceStep + ToCheck * slowest <= Interval
      BY <1>2, <3>1, <3>2, <3>3 DEF CheckInTime
    <3>5. (ToCheck - 1) * slowest = ToCheck * slowest - slowest /\ ToCheck * slowest \in Int
      BY <1>2, <1>8
    <3>6. PICK p \in Int : p = ToCheck * slowest
      BY <3>5
    <3>7. elapsed - 0 + (p - slowest) <= Interval
      BY <1>2, <3>2, <3>4, <3>6
    <3> QED BY <1>1, <1>8, <3>2, <3>5, <3>6, <3>7
  <2>4. ToCheck' \in Int
    BY <1>8
  <2> QED BY <1>8, <2>1, <2>2, <2>3, <2>4 DEF CheckInTime
<1>11. PlanHolds'
  <2> SUFFICES ASSUME write.planned > 0, Steady'
               PROVE  slowest' > 0 /\ elapsed' - sinceStep' + ToMilestone' * slowest' >= write.planned
    <3>1. write.planned > 0 => slowest' > 0
      BY <1>2, <1>3, <1>4 DEF PlanHolds, StepTimesKnown
    <3> QED BY <1>1, <3>1 DEF PlanHolds
  <2>1. slowest > 0 /\ sinceStep # NoTime
    BY <1>2 DEF PlanHolds, StepTimesKnown
  <2>2. slowest' > 0
    BY <1>2, <1>3, <1>4, <2>1
  <2>3. Steady /\ slowest = sinceStep /\ slowest' = slowest
    BY <1>9, <2>1, <2>2
  <2>4. elapsed - sinceStep + ToMilestone * slowest >= write.planned
    BY <1>2, <2>3 DEF PlanHolds
  <2>5. PICK m \in Nat : m = StepsToMilestone
    BY <1>2, MilestoneDistance
  <2>6. ToMilestone = m + 1 /\ ToMilestone' = m
    BY <1>1, <2>5 DEF ToMilestone, StepsToMilestone
  <2>7. (m + 1) * slowest = m * slowest + slowest /\ m * slowest \in Int
    BY <1>2
  <2>8. PICK p \in Int : p = m * slowest
    BY <2>7
  <2>9. elapsed - 0 + p >= write.planned
    <3>1. elapsed - sinceStep + (p + slowest) >= write.planned
      BY <2>4, <2>6, <2>7, <2>8
    <3>2. write.planned \in Int
      BY <1>2, WriteFields
    <3> QED BY <1>2, <2>3, <3>1, <3>2
  <2> QED BY <1>1, <2>2, <2>3, <2>6, <2>8, <2>9
<1>12. OfferHolds' /\ SaveFits' /\ Settled'
  BY <1>1 DEF OfferHolds, SaveFits, Settled
<1> QED BY <1>5, <1>6, <1>7, <1>10, <1>11, <1>12 DEF ClockInvariant

(* No check is due before its time. *)
LEMMA NotYetClock ==
  ASSUME Agreement, ClockInvariant, NotYet(0)
  PROVE  ClockInvariant'
<1> USE RankZero DEF clockVars
<1>1. /\ pc[0] = "evaluate" /\ pc'[0] = "poll" /\ iteration < nextCheck[0]
      /\ UNCHANGED <<iteration, nextCheck, lastSave, offer, clockVars>>
  BY DEF NotYet, Goto, Agreement, Types
<1>2. /\ CheckInTime /\ StepTimesKnown /\ iteration \in Nat /\ nextCheck[0] \in Int
      /\ elapsed \in Nat /\ slowest \in Nat
  BY DEF ClockInvariant, ClockTypes, Agreement, Types
<1>3. ~Unseen /\ ~Unseen' /\ ToCheck' = ToCheck /\ ToCheck \in Nat \ {0}
  BY <1>1, <1>2 DEF ToCheck, Unseen
<1>4. (ClockTypes /\ StepTimesKnown /\ WriteRuns)'
  BY <1>1, <1>3 DEF ClockInvariant, ClockTypes, StepTimesKnown, WriteRuns, NoTime
<1>5. CheckInTime'
  BY <1>1, <1>2, <1>3 DEF CheckInTime, Steady
<1>6. PlanHolds'
  BY <1>1 DEF ClockInvariant, PlanHolds, ToMilestone, StepsToMilestone, Steady
<1>7. Settled'
  <2>1. slowest > 0
    BY <1>1, <1>2, <1>3 DEF CheckInTime
  <2>2. Steady => elapsed < Interval
    <3> SUFFICES ASSUME Steady PROVE elapsed < Interval
      OBVIOUS
    <3>1. elapsed - sinceStep + ToCheck * slowest <= Interval /\ sinceStep = 0
      BY <1>1, <1>2, <1>3, <2>1 DEF CheckInTime, StepTimesKnown
    <3>2. ToCheck * slowest >= slowest /\ ToCheck * slowest \in Nat
      <4>1. 1 * slowest <= ToCheck * slowest
        BY <1>2, <1>3, ProductMonotone
      <4>2. \A a, b \in Nat : a * b \in Nat
        OBVIOUS
      <4> QED BY <1>2, <1>3, <4>1, <4>2
    <3>3. PICK p \in Nat : p = ToCheck * slowest
      BY <3>2
    <3> QED BY <1>2, <2>1, <3>1, <3>2, <3>3
  <2>3. Steady' <=> Steady
    BY <1>1 DEF Steady
  <2> QED BY <1>1, <1>2, <2>2, <2>3 DEF Settled
<1>8. OfferHolds' /\ SaveFits'
  BY <1>1 DEF OfferHolds, SaveFits
<1> QED BY <1>4, <1>5, <1>6, <1>7, <1>8 DEF ClockInvariant

LEMMA SkipClock ==
  ASSUME Agreement, ClockInvariant, SkipTooClose(0)
  PROVE  ClockInvariant'
<1> USE RankZero DEF clockVars
<1>1. /\ pc[0] = "evaluate" /\ pc'[0] = "poll" /\ TooClose(0) /\ nextCheck'[0] = iteration + 1
      /\ UNCHANGED <<iteration, lastSave, offer, clockVars>>
  BY DEF SkipTooClose, Goto, Agreement, Types
<1>2. iteration \in Nat /\ ~Unseen /\ ~Unseen' /\ ToCheck' = 1
  BY <1>1 DEF Agreement, Types, ToCheck, Unseen
<1>3. (ClockTypes /\ StepTimesKnown /\ WriteRuns)'
  BY <1>1, <1>2 DEF ClockInvariant, ClockTypes, StepTimesKnown, WriteRuns, NoTime
<1>4. CheckInTime'
  BY <1>1, <1>2 DEF CheckInTime
<1>5. PlanHolds'
  BY <1>1 DEF ClockInvariant, PlanHolds, ToMilestone, StepsToMilestone, Steady
<1>6. OfferHolds' /\ SaveFits' /\ Settled'
  BY <1>1 DEF OfferHolds, SaveFits, Settled, TooClose
<1> QED BY <1>3, <1>4, <1>5, <1>6 DEF ClockInvariant

LEMMA StrideFits ==
  ASSUME ClockTypes, StepTimesKnown, NEW k \in NextStride, k >= 2
  PROVE  slowest > 0 /\ (Steady => elapsed + k * slowest <= Interval)
<1>1. elapsed \in Nat /\ slowest \in Nat /\ k \in Nat
  BY StridePositive DEF ClockTypes
<1>2. ~(Remaining <= 0 \/ slowest = 0)
  BY DEF NextStride
<1>3. PICK n \in (Remaining \div slowest)..(Remaining \div fastest) :
          k = Max({1, Min({CheckEveryN, n})})
  BY <1>2 DEF NextStride
<1>4. n \in Int /\ k <= n
  <2>1. n \in Int
    BY <1>3
  <2>2. PICK m \in Int : m = Min({CheckEveryN, n}) /\ m <= n
    BY <2>1, MinTwo
  <2>3. k = IF 1 >= m THEN 1 ELSE m
    BY <1>3, <2>2, MaxTwo
  <2> QED BY <2>1, <2>2, <2>3
<1>5. Steady => elapsed + k * slowest <= Interval
  <2> SUFFICES ASSUME Steady PROVE elapsed + k * slowest <= Interval
    OBVIOUS
  <2>1. PICK rem \in Nat : rem = Remaining
    BY <1>1, <1>2 DEF Remaining
  <2>2. PICK q \in Nat, e \in Nat : rem = slowest * q + e /\ q = rem \div slowest
    <3>1. /\ rem \div slowest \in Nat /\ rem % slowest \in 0..slowest - 1
          /\ rem = slowest * (rem \div slowest) + (rem % slowest)
      BY <1>1, <1>2, <2>1
    <3> QED BY <3>1
  <2>3. k <= q
    <3>1. n \in q..q
      BY <1>3, <2>1, <2>2 DEF Steady
    <3> QED BY <1>1, <1>4, <2>2, <3>1
  <2>4. k * slowest <= q * slowest /\ q * slowest = slowest * q
    BY <1>1, <2>2, <2>3, ProductMonotone
  <2>5. PICK u \in Nat, v \in Nat : u = k * slowest /\ v = slowest * q
    BY <1>1, <2>2
  <2>6. u <= rem
    BY <2>2, <2>4, <2>5
  <2> QED BY <1>1, <2>1, <2>5, <2>6 DEF Remaining
<1> QED BY <1>1, <1>2, <1>5

(* Rank 0 offers to save if it is due and steady steps leave the time. *)
LEMMA DueFits ==
  ASSUME ClockTypes, NEW m \in MilestoneLandsMidWrite, slowest > 0, Steady
  PROVE  m <=> MidWrite
<1>1. m \in {StepsToMilestone * fastest < WriteEstimate, StepsToMilestone * slowest < WriteEstimate}
  <2>1. slowest # 0
    BY DEF ClockTypes
  <2> QED BY <2>1 DEF MilestoneLandsMidWrite
<1>2. slowest = fastest
  BY DEF Steady
<1> QED BY <1>1, <1>2 DEF MidWrite

LEMMA OfferClock ==
  ASSUME Agreement, ClockInvariant, Offer(0)
  PROVE  ClockInvariant'
<1> USE RankZero DEF clockVars
<1>1. /\ pc[0] = "evaluate" /\ pc'[0] = "decide" /\ iteration >= nextCheck[0]
      /\ UNCHANGED <<iteration, nextCheck, lastSave, clockVars>>
  BY DEF Offer, Goto, Agreement, Types
<1>2. PICK o \in Offers(0) : offer'[0] = o
  BY DEF Offer, Agreement, Types
<1>3. PICK m \in MilestoneLandsMidWrite, k \in NextStride :
          o = [due |-> (elapsed >= Interval /\ ~m), stride |-> k]
  BY <1>2 DEF Offers
<1>4. /\ ClockTypes /\ StepTimesKnown /\ iteration \in Nat /\ nextCheck[0] \in Int
      /\ elapsed \in Nat /\ slowest \in Nat
  BY DEF ClockInvariant, ClockTypes, Agreement, Types
<1>5. ~Unseen /\ ~Unseen' /\ ToCheck' <= 0 /\ ToCheck' \in Int
  BY <1>1, <1>4 DEF ToCheck, Unseen
<1>6. (ClockTypes /\ StepTimesKnown /\ WriteRuns)'
  BY <1>1, <1>5 DEF ClockInvariant, ClockTypes, StepTimesKnown, WriteRuns
<1>7. CheckInTime'
  BY <1>1, <1>5 DEF CheckInTime
<1>8. PlanHolds'
  BY <1>1 DEF ClockInvariant, PlanHolds, ToMilestone, StepsToMilestone, Steady
<1>9. OfferHolds'
  <2>1. o.due <=> (elapsed >= Interval /\ ~m)
    BY <1>3
  <2>2. o.stride = k
    BY <1>3
  <2>3. elapsed >= Interval => slowest > 0
    BY <1>4, <1>5 DEF StepTimesKnown
  <2>4. elapsed >= Interval /\ Steady => (m <=> MidWrite)
    BY <1>4, <2>3, DueFits
  <2>5. k >= 2 => slowest > 0 /\ (Steady => elapsed + k * slowest <= Interval)
    BY <1>4, StrideFits
  <2>6. (Steady' <=> Steady) /\ (MidWrite' <=> MidWrite)
    BY <1>1 DEF Steady, MidWrite, StepsToMilestone, WriteEstimate
  <2> QED BY <1>1, <1>2, <2>1, <2>2, <2>4, <2>5, <2>6 DEF OfferHolds
<1>10. SaveFits' /\ Settled'
  BY <1>1 DEF SaveFits, Settled
<1> QED BY <1>6, <1>7, <1>8, <1>9, <1>10 DEF ClockInvariant

LEMMA AgreeClock ==
  ASSUME Agreement, ClockInvariant, Agree
  PROVE  ClockInvariant'
<1> USE RankZero DEF clockVars
<1>1. /\ pc[0] = "decide"
      /\ nextCheck'[0] = IF offer[0].due /\ CpDataWindowActive THEN iteration + 1
                         ELSE iteration + offer[0].stride
      /\ pc'[0] = IF offer[0].due /\ ~CpDataWindowActive THEN "wallclock" ELSE "poll"
      /\ UNCHANGED <<iteration, lastSave, clockVars>>
  BY DEF Agree, Agreed, AllAt
<1>2. /\ ClockTypes /\ StepTimesKnown /\ OfferHolds /\ iteration \in Nat
      /\ elapsed \in Nat /\ slowest \in Nat /\ sinceStep = 0
      /\ offer[0].stride \in Nat
  BY <1>1 DEF ClockInvariant, ClockTypes, Agreement, Types, StepTimesKnown
<1>3. ~Unseen /\ ~Unseen' /\ ToCheck' \in {1, offer[0].stride}
  BY <1>1, <1>2 DEF ToCheck, Unseen
<1>4. (ClockTypes /\ StepTimesKnown /\ WriteRuns)'
  BY <1>1, <1>2, <1>3 DEF ClockInvariant, ClockTypes, StepTimesKnown, WriteRuns, NoTime
<1>5. CheckInTime'
  <2>1. pc'[0] # "evaluate"
    BY <1>1
  <2>2. ToCheck' >= 2 => ToCheck' = offer[0].stride /\ offer[0].stride >= 2
    BY <1>2, <1>3
  <2>3. slowest = 0 => ToCheck' <= 1
    BY <1>1, <1>2, <1>3 DEF OfferHolds
  <2>4. ToCheck' >= 2 /\ Steady => elapsed - sinceStep + ToCheck' * slowest <= Interval
    <3>1. elapsed - sinceStep = elapsed
      BY <1>2
    <3> QED BY <1>1, <1>2, <2>2, <3>1 DEF OfferHolds
  <2> QED BY <1>1, <2>1, <2>3, <2>4 DEF CheckInTime, Steady
<1>6. PlanHolds'
  BY <1>1, <1>3 DEF ClockInvariant, PlanHolds, ToMilestone, StepsToMilestone, Steady
<1>7. (Steady' <=> Steady) /\ (MidWrite' <=> MidWrite)
  BY <1>1 DEF Steady, MidWrite, StepsToMilestone, WriteEstimate
<1>8. SaveFits'
  <2>1. offer[0].due => elapsed >= Interval /\ slowest > 0 /\ (Steady => ~MidWrite)
    BY <1>1, <1>2, <1>3 DEF OfferHolds, StepTimesKnown
  <2> QED BY <1>1, <1>7, <2>1 DEF SaveFits
<1>9. Settled'
  <2>1. CpDataWindowActive' <=> CpDataWindowActive
    BY <1>1 DEF CpDataWindowActive
  <2> QED BY <1>1, <1>2, <1>7, <2>1 DEF Settled, OfferHolds
<1>10. OfferHolds'
  BY <1>1 DEF OfferHolds
<1> QED BY <1>4, <1>5, <1>6, <1>8, <1>9, <1>10 DEF ClockInvariant

(* A rank other than 0 keeps off rank 0's clock. *)
LEMMA OtherRankClock ==
  ASSUME Agreement, ClockInvariant, NEW r \in Ranks, r # 0, RankStep(r)
  PROVE  ClockInvariant'
<1>1. UNCHANGED <<iteration, clockVars>>
  BY DEF clockVars, RankStep, Save, Poll, ObserveStep, NotYet, SkipTooClose, Offer
<1>2. /\ pc'[0] = pc[0] /\ nextCheck'[0] = nextCheck[0] /\ lastSave'[0] = lastSave[0]
  BY RankZero DEF RankStep, Save, Poll, ObserveStep, NotYet, SkipTooClose, Offer, Goto, Agreement, Types
<1>3. offer'[0] = offer[0]
  <2>1. UNCHANGED offer \/ \E o : offer' = [offer EXCEPT ![r] = o]
    BY DEF RankStep, Save, Poll, ObserveStep, NotYet, SkipTooClose, Offer
  <2> QED BY <2>1, RankZero DEF Agreement, Types
<1> QED BY <1>1, <1>2, <1>3, ClockStays

LEMMA NextClock ==
  ASSUME Fits, Agreement, ClockInvariant, [Next]_vars
  PROVE  ClockInvariant'
<1>1. CASE UNCHANGED vars
  BY <1>1, ClockStays DEF vars, rankVars
<1>2. CASE RankStep(0)
  <2>1. CASE Save(0)
    <3>1. pc[0] \in {"milestone", "wallclock"}
      BY <2>1 DEF Save
    <3> QED BY <2>1, <3>1, MilestoneClock, WallClockClock
  <2> QED BY <1>2, <2>1, PollClock, ObserveClock, NotYetClock, SkipClock, OfferClock DEF RankStep
<1>3. ASSUME NEW r \in Ranks, r # 0, RankStep(r) PROVE ClockInvariant'
  BY <1>3, OtherRankClock
<1> QED BY <1>1, <1>2, <1>3, TrainClock, EndClock, AgreeClock DEF Next, Done

THEOREM ClockHolds == ASSUME Fits PROVE Spec => []ClockInvariant
<1>1. Init => Agreement /\ ClockInvariant
  BY InitAgreement, InitClock
<1>2. (Agreement /\ ClockInvariant) /\ [Next]_vars => (Agreement /\ ClockInvariant)'
  BY NextKeeps, NextClock
<1> QED BY <1>1, <1>2, PTL DEF Spec

(* SavedOnTime: between two steady steps the interval is over only if a     *)
(* save is not allowed or would stall the next milestone.                   *)
THEOREM SavedOnTimeCorrect == ASSUME Fits PROVE Spec => []SavedOnTime
<1>1. ClockInvariant => SavedOnTime
  BY RankZero DEF ClockInvariant, Settled, Steady, MidWrite, SavedOnTime, AllAt
<1>2. []ClockInvariant => []SavedOnTime
  BY <1>1, PTL
<1> QED BY <1>2, ClockHolds, PTL

(* StallIsUnforeseen: with steady steps a milestone waits for a wall-clock  *)
(* write only if that write took longer than it was planned with.           *)
THEOREM StallIsUnforeseenCorrect == ASSUME Fits PROVE Spec => []StallIsUnforeseen
<1>1. ClockInvariant => StallIsUnforeseen
  <2> SUFFICES ASSUME ClockInvariant, pc[0] = "milestone", write.left > 0, write.planned > 0,
                      Steady, sinceStep = fastest
               PROVE  write.length > write.planned
    BY DEF StallIsUnforeseen, Steady
  <2>1. ClockTypes /\ WriteRuns /\ elapsed \in Nat /\ slowest \in Nat /\ slowest = sinceStep
    BY DEF ClockInvariant, ClockTypes, Steady
  <2>2. write.length \in Nat /\ write.planned \in Int
    BY <2>1, WriteFields
  <2>3. elapsed - sinceStep + 1 * slowest >= write.planned
    BY DEF ClockInvariant, PlanHolds, ToMilestone
  <2>4. write.length > elapsed
    BY <2>1, <2>2 DEF WriteRuns
  <2> QED BY <2>1, <2>2, <2>3, <2>4
<1>2. []ClockInvariant => []StallIsUnforeseen
  BY <1>1, PTL
<1> QED BY <1>2, ClockHolds, PTL
=============================================================================
