----------------------- MODULE AsyncCheckpointProofs -----------------------
(***************************************************************************)
(* Proofs about AsyncCheckpoint, for any number of ranks, keys, iterations *)
(* and runs.                                                               *)
(***************************************************************************)
EXTENDS AsyncCheckpoint, SequenceTheorems, TLAPS

(* A background process that is saving has been given an iteration. *)
JobIsIteration == \A r \in Rank : Busy(r) => bgJob[r] \in Iter

TypeInv == TypeOK /\ JobIsIteration

LEMMA ConstantTypes ==
  /\ MaxIter \in Nat /\ MaxIter >= 1
  /\ NumKeys \in Nat /\ NumKeys >= 1
  /\ MaxRuns \in Nat /\ MaxRuns >= 1
  /\ MaxFaults \in Nat
  /\ SaveIter \in Nat /\ SaveIter >= 1
  /\ ExportEveryN \in Nat
BY BoundAssumption

LEMMA InitType == Init => TypeInv
<1> SUFFICES ASSUME Init PROVE TypeInv
  OBVIOUS
<1>1. TypeOK
  <2>1. Absent \in Content /\ 1 \in Key /\ None \in 0..MaxIter
    BY ConstantTypes DEF Absent, Content, Key, None
  <2>2. \A S : <<>> \in Seq(S)
    BY EmptySeq
  <2>3. /\ shard \in [Iter -> [Key -> [Rank -> Content]]]
        /\ meta \in [Iter -> [Key -> Content]]
        /\ dataloader \in [Iter -> [Rank -> Content]]
    BY <2>1 DEF Init
  <2>4. /\ sendQ \in [Rank -> Seq(0..MaxIter)]
        /\ recvQ \in [Rank -> Seq(SaveDone)]
        /\ confirmed \in [Rank -> Seq(Iter)]
    BY <2>2 DEF Init
  <2>5. committed \in (0..MaxIter) \X (0..NumKeys)
    BY ConstantTypes DEF Init, None
  <2>6. /\ pc \in [Rank -> MainPc]
        /\ inProgress \in [Rank -> BOOLEAN]
        /\ bgPhase \in [Rank -> BgPhase]
    BY DEF Init, MainPc, BgPhase
  <2>7. /\ iteration \in [Rank -> 0..MaxIter]
        /\ deferred \in [Rank -> 0..MaxIter]
        /\ staging \in [Rank -> 0..MaxIter]
        /\ bgJob \in [Rank -> 0..MaxIter]
        /\ bgKey \in [Rank -> Key]
        /\ failed \in [Rank -> 0..MaxIter]
    BY <2>1 DEF Init, None
  <2>8. pointer \in Truncated..MaxIter /\ run \in 1..MaxRuns
    BY ConstantTypes DEF Init, None, Truncated
  <2>9. faulted \in BOOLEAN /\ faults \in 0..MaxFaults
    <3>1. 0 \in 0..MaxFaults
      BY ConstantTypes
    <3>2. faults = 0 /\ faulted = FALSE
      BY DEF Init
    <3> QED BY <3>1, <3>2
  <2>10. exporting \in 0..MaxIter /\ exportError \in BOOLEAN /\ exported \subseteq Iter
    BY <2>1 DEF Init
  <2> QED BY <2>3, <2>4, <2>5, <2>6, <2>7, <2>8, <2>9, <2>10 DEF TypeOK
<1>2. JobIsIteration
  BY DEF Init, JobIsIteration, Busy
<1> QED BY <1>1, <1>2 DEF TypeInv

(* Stored contents have their type. *)
LEMMA SavedType ==
  ASSUME TypeOK, NEW n \in 0..MaxIter
  PROVE  Saved(n) \in Content
BY ConstantTypes DEF TypeOK, Saved, Content

(* The answer at the head of a result queue. *)
LEMMA AnswerType ==
  ASSUME TypeOK, NEW r \in Rank, recvQ[r] # <<>>
  PROVE  /\ Head(recvQ[r]) \in SaveDone
         /\ Head(recvQ[r]).iter \in Iter
         /\ Head(recvQ[r]).ok \in BOOLEAN
         /\ Tail(recvQ[r]) \in Seq(SaveDone)
<1>1. recvQ[r] \in Seq(SaveDone)
  BY DEF TypeOK
<1>2. Head(recvQ[r]) \in SaveDone /\ Tail(recvQ[r]) \in Seq(SaveDone)
  BY <1>1, HeadTailProperties
<1> QED BY <1>2 DEF SaveDone

LEMMA ConfirmType ==
  ASSUME TypeOK, NEW r \in Rank, MayPoll(r), Confirm(r)
  PROVE  /\ confirmed' \in [Rank -> Seq(Iter)]
         /\ inProgress' \in [Rank -> BOOLEAN]
         /\ recvQ' \in [Rank -> Seq(SaveDone)]
<1>1. Head(recvQ[r]).iter \in Iter /\ Tail(recvQ[r]) \in Seq(SaveDone)
  BY AnswerType DEF MayPoll
<1>2. Append(confirmed[r], Head(recvQ[r]).iter) \in Seq(Iter)
  BY <1>1, AppendProperties DEF TypeOK
<1> QED BY <1>1, <1>2 DEF Confirm, TypeOK

LEMMA MainType ==
  ASSUME TypeInv, NEW r \in Rank, Main(r)
  PROVE  TypeInv'
<1> USE ConstantTypes DEF TypeInv, JobIsIteration, Busy, bgVars, storeVars, exportVars, envVars
<1>1. CASE OptimizerStep(r)
  <2>1. iteration' \in [Rank -> 0..MaxIter]
    BY <1>1 DEF OptimizerStep, TypeOK
  <2>2. pc' \in [Rank -> MainPc]
    BY <1>1 DEF OptimizerStep, TypeOK, MainPc
  <2> QED BY <1>1, <2>1, <2>2 DEF OptimizerStep, TypeOK
<1>2. CASE EndTraining(r)
  BY <1>2 DEF EndTraining, TypeOK, MainPc, AfterLoop
<1>3. CASE PollNothing(r)
  BY <1>3 DEF PollNothing, TypeOK, MainPc
<1>4. CASE PollSuccess(r)
  BY <1>4, ConfirmType DEF PollSuccess, TypeOK, MainPc
<1>5. CASE PollFailure(r)
  <2>1. Head(recvQ[r]).iter \in 0..MaxIter /\ Tail(recvQ[r]) \in Seq(SaveDone)
    BY <1>5, AnswerType DEF PollFailure, MayPoll, Iter
  <2> QED BY <1>5, <2>1 DEF PollFailure, TypeOK, MainPc
<1>6. CASE WaitIdle(r)
  BY <1>6 DEF WaitIdle, TypeOK, MainPc, AfterWait, AfterExport, Waiting
<1>7. CASE WaitSuccess(r)
  BY <1>7, ConfirmType DEF WaitSuccess, TypeOK, MainPc, AfterWait, AfterExport
<1>8. CASE WaitFailure(r)
  <2>1. Tail(recvQ[r]) \in Seq(SaveDone)
    BY <1>8, AnswerType DEF WaitFailure, MayPoll
  <2>2. recvQ' \in [Rank -> Seq(SaveDone)] /\ inProgress' \in [Rank -> BOOLEAN] /\ pc' \in [Rank -> MainPc]
    BY <1>8, <2>1 DEF WaitFailure, TypeOK, MainPc
  <2>3. TypeOK'
    BY <1>8, <2>2 DEF WaitFailure, TypeOK
  <2>4. JobIsIteration'
    BY <1>8 DEF WaitFailure
  <2> QED BY <2>3, <2>4
<1>9. CASE WaitDeferred(r)
  <2>1. deferred' \in [Rank -> 0..MaxIter]
    BY <1>9 DEF WaitDeferred, TypeOK, None
  <2>2. pc' \in [Rank -> MainPc]
    BY <1>9 DEF WaitDeferred, TypeOK, MainPc
  <2>3. TypeOK'
    BY <1>9, <2>1, <2>2 DEF WaitDeferred, TypeOK
  <2>4. JobIsIteration'
    BY <1>9 DEF WaitDeferred
  <2> QED BY <2>3, <2>4
<1>10. CASE WaitTimeout(r)
  BY <1>10 DEF WaitTimeout, TypeOK, MainPc
<1>11. CASE WriteDataloader(r)
  <2>1. Saved(iteration[r]) \in Content
    BY SavedType DEF TypeOK
  <2> QED BY <1>11, <2>1 DEF WriteDataloader, TypeOK, MainPc
<1>12. CASE StageAndSubmit(r)
  <2>1. sendQ' \in [Rank -> Seq(0..MaxIter)] /\ staging' \in [Rank -> 0..MaxIter]
    BY <1>12 DEF StageAndSubmit, TypeOK
  <2>2. pc' \in [Rank -> MainPc] /\ inProgress' \in [Rank -> BOOLEAN]
    BY <1>12 DEF StageAndSubmit, TypeOK, MainPc, AfterLoop
  <2> QED BY <1>12, <2>1, <2>2 DEF StageAndSubmit, TypeOK
<1>13. CASE FinalizeDead(r)
  BY <1>13 DEF FinalizeDead, TypeOK, MainPc
<1>14. CASE SendTerminate(r)
  <2>1. sendQ' \in [Rank -> Seq(0..MaxIter)]
    BY <1>14 DEF SendTerminate, TypeOK, Terminate
  <2>2. pc' \in [Rank -> MainPc]
    BY <1>14 DEF SendTerminate, TypeOK, MainPc
  <2>3. TypeOK'
    BY <1>14, <2>1, <2>2 DEF SendTerminate, TypeOK
  <2>4. JobIsIteration'
    BY <1>14 DEF SendTerminate
  <2> QED BY <2>3, <2>4
<1>15. CASE Join(r)
  BY <1>15 DEF Join, TypeOK, MainPc
<1>16. CASE PassBarrier(r)
  BY <1>16 DEF PassBarrier, TypeOK, MainPc
<1>17. CASE LaunchExport(r)
  BY <1>17 DEF LaunchExport, TypeOK, MainPc, AfterExport
<1>18. CASE RaiseExportError(r) \/ WriteDataloaderFails(r)
  BY <1>18 DEF RaiseExportError, WriteDataloaderFails, TypeOK, MainPc
<1>19. CASE JoinExport(r)
  BY <1>19 DEF JoinExport, TypeOK, MainPc
<1> QED
  BY <1>1, <1>2, <1>3, <1>4, <1>5, <1>6, <1>7, <1>8, <1>9, <1>10, <1>11, <1>12, <1>13,
     <1>14, <1>15, <1>16, <1>17, <1>18, <1>19 DEF Main

(* A SaveDone is well formed: only a background process that is saving      *)
(* reports.                                                                 *)
LEMMA ReportType ==
  ASSUME TypeInv, NEW r \in Rank, NEW ok \in BOOLEAN, Busy(r), Report(r, ok)
  PROVE  recvQ' \in [Rank -> Seq(SaveDone)] /\ bgPhase' \in [Rank -> BgPhase]
<1>1. [iter |-> bgJob[r], ok |-> ok] \in SaveDone
  BY DEF TypeInv, JobIsIteration, SaveDone
<1>2. Append(recvQ[r], [iter |-> bgJob[r], ok |-> ok]) \in Seq(SaveDone)
  BY <1>1, AppendProperties DEF TypeInv, TypeOK
<1> QED BY <1>2 DEF Report, TypeInv, TypeOK, BgPhase

LEMMA BackgroundType ==
  ASSUME TypeInv, NEW r \in Rank, Background(r)
  PROVE  TypeInv'
<1> USE ConstantTypes DEF TypeInv, JobIsIteration, Busy, mainVars, storeVars, exportVars, envVars
<1>1. CASE BgTake(r)
  <2>1. Head(sendQ[r]) \in Iter /\ Tail(sendQ[r]) \in Seq(0..MaxIter)
    <3>1. sendQ[r] \in Seq(0..MaxIter) /\ sendQ[r] # <<>> /\ Head(sendQ[r]) # 0
      BY <1>1 DEF BgTake, TypeOK, Terminate
    <3>2. Head(sendQ[r]) \in 0..MaxIter /\ Tail(sendQ[r]) \in Seq(0..MaxIter)
      BY <3>1, HeadTailProperties
    <3> QED BY <3>1, <3>2 DEF Iter
  <2>2. 1 \in Key /\ Head(sendQ[r]) \in 0..MaxIter
    BY <2>1 DEF Key, Iter
  <2> QED BY <1>1, <2>1, <2>2 DEF BgTake, TypeOK, BgPhase
<1>2. CASE BgTerminate(r)
  <2>1. Tail(sendQ[r]) \in Seq(0..MaxIter)
    BY <1>2, HeadTailProperties DEF BgTerminate, TypeOK
  <2> QED BY <1>2, <2>1 DEF BgTerminate, TypeOK, BgPhase
<1>3. CASE BgPlan(r)
  <2>1. Torn \in Content
    BY DEF Torn, Content
  <2>2. shard' \in [Iter -> [Key -> [Rank -> Content]]]
    BY <1>3, <2>1 DEF BgPlan, TypeOK
  <2> QED BY <1>3, <2>2 DEF BgPlan, TypeOK, BgPhase
<1>4. CASE BgWrite(r)
  <2>1. Saved(staging[r]) \in Content
    BY SavedType DEF TypeOK
  <2>2. shard' \in [Iter -> [Key -> [Rank -> Content]]]
    BY <1>4, <2>1 DEF BgWrite, TypeOK
  <2> QED BY <1>4, <2>2 DEF BgWrite, TypeOK, BgPhase
<1>5. CASE BgLeave(r)
  <2>1. CASE NextKey(r) /\ MoreKeys(r) /\ UNCHANGED recvQ
    <3>1. bgKey[r] + 1 \in Key
      BY <2>1 DEF MoreKeys, Key, TypeOK
    <3> QED BY <1>5, <2>1, <3>1 DEF BgLeave, NextKey, TypeOK, BgPhase
  <2>2. CASE Report(r, TRUE) /\ UNCHANGED bgKey
    <3>1. recvQ' \in [Rank -> Seq(SaveDone)] /\ bgPhase' \in [Rank -> BgPhase]
      BY <1>5, <2>2, ReportType DEF BgLeave
    <3> QED BY <1>5, <2>2, <3>1 DEF BgLeave, Report, TypeOK
  <2> QED BY <1>5, <2>1, <2>2 DEF BgLeave
<1>6. CASE BgError(r)
  <2>1. recvQ' \in [Rank -> Seq(SaveDone)] /\ bgPhase' \in [Rank -> BgPhase]
    BY <1>6, ReportType DEF BgError
  <2> QED BY <1>6, <2>1 DEF BgError, Report, TypeOK
<1> QED BY <1>1, <1>2, <1>3, <1>4, <1>5, <1>6 DEF Background

LEMMA CoordinatorType ==
  ASSUME TypeInv, Coordinator
  PROVE  TypeInv'
<1> USE ConstantTypes, RankAssumption DEF TypeInv, JobIsIteration, Busy, mainVars, exportVars, envVars
<1>1. CASE BgCommit
  <2>1. bgJob[Rank0] \in Iter /\ bgKey[Rank0] \in Key
    BY <1>1 DEF BgCommit, TypeOK
  <2>2. Saved(bgJob[Rank0]) \in Content
    BY SavedType DEF TypeOK
  <2>3. meta' \in [Iter -> [Key -> Content]]
    BY <1>1, <2>2 DEF BgCommit, TypeOK
  <2>4. committed' \in (0..MaxIter) \X (0..NumKeys)
    BY <1>1, <2>1 DEF BgCommit, Iter, Key
  <2>5. bgKey' \in [Rank -> Key] /\ bgPhase' \in [Rank -> BgPhase]
    <3>1. CASE MoreKeys(Rank0) /\ NextKey(Rank0)
      <4>1. bgKey[Rank0] + 1 \in Key
        BY <3>1 DEF MoreKeys, Key, TypeOK
      <4> QED BY <1>1, <3>1, <4>1 DEF NextKey, TypeOK, BgPhase
    <3>2. CASE bgPhase' = [bgPhase EXCEPT ![Rank0] = "pointer"] /\ UNCHANGED bgKey
      BY <1>1, <3>2 DEF TypeOK, BgPhase
    <3> QED BY <1>1, <3>1, <3>2 DEF BgCommit
  <2>6. JobIsIteration'
    BY <1>1, <2>1 DEF BgCommit, NextKey, TypeOK
  <2> QED BY <1>1, <2>3, <2>4, <2>5, <2>6 DEF BgCommit, TypeOK
<1>2. CASE BgTruncatePointer
  BY <1>2 DEF BgTruncatePointer, TypeOK, BgPhase, Truncated
<1>3. CASE BgWritePointer
  <2>1. Busy(Rank0)
    BY <1>3 DEF BgWritePointer
  <2>2. recvQ' \in [Rank -> Seq(SaveDone)] /\ bgPhase' \in [Rank -> BgPhase]
    BY <1>3, <2>1, ReportType DEF BgWritePointer
  <2>3. pointer' \in Truncated..MaxIter /\ JobIsIteration'
    BY <1>3, <2>1 DEF BgWritePointer, Report, TypeOK, Truncated
  <2> QED BY <1>3, <2>2, <2>3 DEF BgWritePointer, TypeOK
<1> QED BY <1>1, <1>2, <1>3 DEF Coordinator

(* The collective of the export, and its thread. *)
LEMMA ExportType ==
  ASSUME TypeInv, GatherWeights \/ Exporter
  PROVE  TypeInv'
<1> USE ConstantTypes DEF TypeInv, JobIsIteration, Busy, mainVars, bgVars, storeVars, exportVars, envVars
<1>1. CASE GatherWeights
  BY <1>1 DEF GatherWeights, TypeOK, MainPc, AfterExport
<1>2. CASE ExportDone
  BY <1>2 DEF ExportDone, TypeOK, Iter, None
<1>3. CASE ExportFails
  BY <1>3 DEF ExportFails, TypeOK, None
<1> QED BY <1>1, <1>2, <1>3 DEF Exporter

(* Kill and restart put the volatile variables back to their initial types. *)
LEMMA EnvironmentType ==
  ASSUME TypeInv, Environment
  PROVE  TypeInv'
<1> USE ConstantTypes DEF TypeInv, JobIsIteration, Busy
<1> DEFINE Emptied == [r \in Rank |-> <<>>]
<1>1. Emptied \in [Rank -> Seq(0..MaxIter)] /\ Emptied \in [Rank -> Seq(SaveDone)]
      /\ Emptied \in [Rank -> Seq(Iter)]
  BY EmptySeq
<1>2. None \in 0..MaxIter /\ 1 \in Key
  BY DEF None, Key
<1>3. <<None, 0>> \in (0..MaxIter) \X (0..NumKeys)
  BY <1>2
<1>4. ASSUME KillAll PROVE TypeInv'
  BY <1>1, <1>2, <1>3, <1>4 DEF KillAll, TypeOK, MainPc, BgPhase, storeVars, None
<1>5. CASE Fault
  BY <1>5 DEF Fault, TypeOK, mainVars, bgVars, storeVars, exportVars
<1>6. CASE Restart
  <2>1. iteration' \in [Rank -> 0..MaxIter]
    <3>1. CASE iteration' = [r \in Rank |-> 0]
      BY <3>1
    <3>2. CASE /\ Loadable(pointer)
               /\ iteration' = [r \in Rank |-> shard[pointer][NumKeys][r].iter]
      <4>1. pointer \in Iter /\ NumKeys \in Key
        BY <3>2 DEF Loadable, Key
      <4>2. \A r \in Rank : shard[pointer][NumKeys][r] \in Content
        BY <4>1 DEF TypeOK
      <4> QED BY <3>2, <4>2 DEF Content
    <3> QED BY <1>6, <3>1, <3>2 DEF Restart
  <2>2. run' \in 1..MaxRuns
    BY <1>6 DEF Restart, TypeOK
  <2> QED BY <1>1, <1>2, <1>3, <1>6, <2>1, <2>2 DEF Restart, TypeOK, MainPc, BgPhase, storeVars, exportVars
<1>7. CASE Stopped
  BY <1>7 DEF Stopped, TypeOK, vars, mainVars, bgVars, storeVars, exportVars, envVars
<1>8. ASSUME NEW r \in Rank, BgDie(r) PROVE TypeInv'
  BY <1>8 DEF BgDie, TypeOK, BgPhase, mainVars, storeVars, exportVars, envVars
<1> QED BY <1>4, <1>5, <1>6, <1>7, <1>8 DEF Environment, Crash, Teardown

LEMMA NextType == TypeInv /\ [Next]_vars => TypeInv'
<1> SUFFICES ASSUME TypeInv, [Next]_vars PROVE TypeInv'
  OBVIOUS
<1>1. CASE UNCHANGED vars
  BY <1>1 DEF vars, mainVars, bgVars, storeVars, exportVars, envVars, TypeInv, TypeOK, JobIsIteration, Busy
<1>2. CASE Next
  BY <1>2, MainType, BackgroundType, ExportType, CoordinatorType, EnvironmentType DEF Next
<1> QED BY <1>1, <1>2

(* Every variable keeps its type, and a SaveDone always names an iteration. *)
THEOREM TypeCorrect == Spec => []TypeOK
<1>1. TypeInv => TypeOK
  BY DEF TypeInv
<1> QED BY <1>1, InitType, NextType, PTL DEF Spec

-----------------------------------------------------------------------------
(***************************************************************************)
(* One save at a time.  Between the wait at the start of a save and its     *)
(* submission nothing is in progress; the message that ends the background  *)
(* loop is sent once, by finalize; and what is submitted is an iteration.   *)
(***************************************************************************)
Quiet(r) == pc[r] \in {"export", "launch", "dataloader", "stage", "terminate"} => ~inProgress[r]

TerminateIsLast(r) ==
  sendQ[r] # <<>> /\ Head(sendQ[r]) = Terminate => pc[r] \in {"join", "barrier", "done"}

SubmitsIteration(r) ==
  pc[r] \in {"save", "export", "launch", "dataloader", "stage"} => iteration[r] # Terminate

SlotInv(r) ==
  OnePlace(r) /\ HoldsStaged(r) /\ Quiet(r) /\ TerminateIsLast(r) /\ SubmitsIteration(r)

SlotInvariant == TypeInv /\ \A r \in Rank : SlotInv(r)

LEMMA TailOfOne ==
  ASSUME NEW S, NEW s \in Seq(S), Len(s) <= 1, s # <<>>
  PROVE  Tail(s) = <<>>
<1>1. Tail(s) \in Seq(S) /\ Len(Tail(s)) = Len(s) - 1
  BY HeadTailProperties
<1>2. Len(s) \in Nat /\ Len(s) # 0
  BY LenProperties, EmptySeq
<1>3. Len(Tail(s)) = 0
  BY <1>1, <1>2
<1> QED BY <1>1, <1>3, EmptySeq

LEMMA AppendToNone ==
  ASSUME NEW S, NEW x \in S
  PROVE  /\ Append(<<>>, x) # <<>>
         /\ Len(Append(<<>>, x)) = 1
         /\ Head(Append(<<>>, x)) = x
BY EmptySeq, AppendProperties

(* The rank's own part of the state. *)
Local(r) == <<pc[r], iteration[r], inProgress[r], deferred[r], staging[r],
              sendQ[r], recvQ[r], bgPhase[r], bgJob[r], confirmed[r], failed[r]>>

LEMMA SlotStays ==
  ASSUME NEW r \in Rank, SlotInv(r), UNCHANGED Local(r)
  PROVE  SlotInv(r)'
BY DEF SlotInv, OnePlace, HoldsStaged, Quiet, TerminateIsLast, SubmitsIteration,
       Local, Queued, Busy, Answered, Deferred

(* A rank that has no process, or a new one, has no save under way. *)
LEMMA SlotFresh ==
  ASSUME NEW r \in Rank,
         sendQ[r] = <<>>, recvQ[r] = <<>>, ~inProgress[r], deferred[r] = None,
         bgPhase[r] \in {"idle", "dead"}, pc[r] \in {"train", "down"}
  PROVE  SlotInv(r)
BY EmptySeq DEF SlotInv, OnePlace, HoldsStaged, Quiet, TerminateIsLast, SubmitsIteration,
       Queued, Busy, Answered, Deferred

(* The same after a step. *)
LEMMA SlotFreshPrimed ==
  ASSUME NEW r \in Rank,
         sendQ'[r] = <<>>, recvQ'[r] = <<>>, ~inProgress'[r], deferred'[r] = None,
         bgPhase'[r] \in {"idle", "dead"}, pc'[r] \in {"train", "down"}
  PROVE  SlotInv(r)'
BY EmptySeq DEF SlotInv, OnePlace, HoldsStaged, Quiet, TerminateIsLast, SubmitsIteration,
       Queued, Busy, Answered, Deferred

LEMMA InitSlot == Init => SlotInvariant
<1> SUFFICES ASSUME Init PROVE SlotInvariant
  OBVIOUS
<1>1. \A r \in Rank : SlotInv(r)
  BY SlotFresh DEF Init
<1> QED BY <1>1, InitType DEF SlotInvariant

(* The result of a save is taken from the queue: the place is free again. *)
LEMMA SlotFreed ==
  ASSUME TypeInv, NEW r \in Rank, OnePlace(r), HoldsStaged(r), TerminateIsLast(r),
         SubmitsIteration(r), MayPoll(r),
         recvQ'[r] = Tail(recvQ[r]), ~inProgress'[r], deferred'[r] = deferred[r],
         pc'[r] \notin {"join", "barrier", "done", "save"}, pc[r] \notin {"join", "barrier", "done"},
         pc'[r] \in {"export", "launch", "dataloader", "stage"} => pc[r] = "save",
         UNCHANGED <<iteration[r], staging[r], sendQ[r], bgPhase[r], bgJob[r]>>
  PROVE  SlotInv(r)'
<1>1. recvQ[r] \in Seq(SaveDone) /\ Len(recvQ[r]) <= 1 /\ recvQ[r] # <<>>
  BY DEF TypeInv, TypeOK, OnePlace, MayPoll
<1>2. recvQ'[r] = <<>> /\ Len(<<>>) = 0
  BY <1>1, TailOfOne, EmptySeq
<1> QED BY <1>2 DEF SlotInv, OnePlace, HoldsStaged, Quiet, TerminateIsLast, SubmitsIteration,
       Queued, Busy, Answered, Deferred, MayPoll

LEMMA MainSlot ==
  ASSUME TypeInv, NEW r \in Rank, SlotInv(r), Main(r)
  PROVE  SlotInv(r)'
<1> USE ConstantTypes DEF TypeInv, bgVars
<1>1. CASE OptimizerStep(r)
  <2>1. iteration[r] \in 0..MaxIter /\ iteration'[r] = iteration[r] + 1
    BY <1>1 DEF OptimizerStep, TypeOK
  <2>2. iteration'[r] # Terminate
    BY <2>1 DEF Terminate
  <2>3. pc[r] = "train" /\ pc'[r] \in {"save", "stepEnd"}
    BY <1>1 DEF OptimizerStep, TypeOK
  <2> QED BY <1>1, <2>2, <2>3 DEF OptimizerStep, SlotInv, OnePlace, HoldsStaged, Quiet,
        TerminateIsLast, SubmitsIteration, Queued, Busy, Answered, Deferred
<1>2. CASE EndTraining(r)
  <2>1. iteration[r] # Terminate
    BY <1>2 DEF EndTraining, Terminate
  <2>2. pc[r] = "train" /\ pc'[r] \in {"save", "trainEnd", "finalize"}
    BY <1>2 DEF EndTraining, TypeOK, AfterLoop
  <2> QED BY <1>2, <2>1, <2>2 DEF EndTraining, SlotInv, OnePlace, HoldsStaged, Quiet,
        TerminateIsLast, SubmitsIteration, Queued, Busy, Answered, Deferred
<1>3. CASE PollNothing(r)
  <2>1. pc[r] = "stepEnd" /\ pc'[r] = "train"
    BY <1>3 DEF PollNothing, TypeOK
  <2> QED BY <1>3, <2>1 DEF PollNothing, SlotInv, OnePlace, HoldsStaged, Quiet,
        TerminateIsLast, SubmitsIteration, Queued, Busy, Answered, Deferred
<1>4. CASE PollSuccess(r)
  BY <1>4, SlotFreed DEF PollSuccess, Confirm, TypeOK, SlotInv
<1>5. CASE PollFailure(r)
  <2>1. recvQ[r] \in Seq(SaveDone) /\ Len(recvQ[r]) <= 1 /\ recvQ[r] # <<>>
    BY <1>5 DEF PollFailure, TypeOK, SlotInv, OnePlace, MayPoll
  <2>2. recvQ'[r] = <<>> /\ Len(<<>>) = 0
    BY <1>5, <2>1, TailOfOne, EmptySeq DEF PollFailure, TypeOK
  <2>3. Head(recvQ[r]).iter # None
    BY <1>5, AnswerType DEF PollFailure, MayPoll, Iter, None
  <2>4. pc[r] = "stepEnd" /\ pc'[r] = "train" /\ deferred'[r] # None
    BY <1>5, <2>3 DEF PollFailure, TypeOK
  <2> QED BY <1>5, <2>1, <2>2, <2>4 DEF PollFailure, SlotInv, OnePlace, HoldsStaged, Quiet,
        TerminateIsLast, SubmitsIteration, Queued, Busy, Answered, Deferred, MayPoll
<1>6. CASE WaitIdle(r)
  <2>1. pc[r] \in {"save", "finalize"} /\ pc'[r] = AfterWait(r)
    BY <1>6 DEF WaitIdle, Waiting, TypeOK
  <2>2. pc'[r] \in {"terminate", "export", "dataloader", "stage"}
        /\ (pc'[r] # "terminate" => pc[r] = "save")
    BY <2>1 DEF AfterWait, AfterExport
  <2> QED BY <1>6, <2>1, <2>2 DEF WaitIdle, SlotInv, OnePlace, HoldsStaged, Quiet,
        TerminateIsLast, SubmitsIteration, Queued, Busy, Answered, Deferred
<1>7. CASE WaitSuccess(r)
  <2>1. pc[r] \in {"save", "finalize"} /\ pc'[r] = AfterWait(r)
    BY <1>7 DEF WaitSuccess, Waiting, TypeOK
  <2>2. pc'[r] \in {"terminate", "export", "dataloader", "stage"}
        /\ (pc'[r] # "terminate" => pc[r] = "save")
    BY <2>1 DEF AfterWait, AfterExport
  <2> QED BY <1>7, <2>1, <2>2, SlotFreed DEF WaitSuccess, Confirm, TypeOK, SlotInv
<1>8. CASE WaitFailure(r)
  <2>1. pc[r] \in {"save", "finalize"} /\ pc'[r] = "failed"
    BY <1>8 DEF WaitFailure, Waiting, TypeOK
  <2> QED BY <1>8, <2>1, SlotFreed DEF WaitFailure, TypeOK, SlotInv
<1>9. CASE WaitDeferred(r)
  <2>1. pc[r] \in {"save", "finalize"} /\ pc'[r] = "failed"
    BY <1>9 DEF WaitDeferred, Waiting, TypeOK
  <2>2. deferred'[r] = None /\ ~inProgress'[r] /\ deferred[r] # None
    BY <1>9 DEF WaitDeferred, TypeOK
  <2> QED BY <1>9, <2>1, <2>2 DEF WaitDeferred, SlotInv, OnePlace, HoldsStaged, Quiet,
        TerminateIsLast, SubmitsIteration, Queued, Busy, Answered, Deferred
<1>10. CASE WaitTimeout(r)
  <2>1. pc[r] \in {"save", "finalize"} /\ pc'[r] = "failed"
    BY <1>10 DEF WaitTimeout, Waiting, TypeOK
  <2> QED BY <1>10, <2>1 DEF WaitTimeout, SlotInv, OnePlace, HoldsStaged, Quiet,
        TerminateIsLast, SubmitsIteration, Queued, Busy, Answered, Deferred
<1>11. CASE WriteDataloader(r)
  <2>1. pc[r] = "dataloader" /\ pc'[r] = "stage"
    BY <1>11 DEF WriteDataloader, TypeOK
  <2> QED BY <1>11, <2>1 DEF WriteDataloader, SlotInv, OnePlace, HoldsStaged, Quiet,
        TerminateIsLast, SubmitsIteration, Queued, Busy, Answered, Deferred
<1>12. CASE StageAndSubmit(r)
  <2>1. pc[r] = "stage" /\ pc'[r] \in {"stepEnd", "trainEnd", "finalize"}
    BY <1>12 DEF StageAndSubmit, TypeOK, AfterLoop
  <2>2. ~Queued(r) /\ ~Busy(r) /\ ~Answered(r) /\ ~Deferred(r)
    BY <2>1 DEF SlotInv, OnePlace, Quiet
  <2>3. sendQ[r] = <<>>
    BY <2>1, <2>2 DEF SlotInv, TerminateIsLast, Queued
  <2>4. iteration[r] \in 0..MaxIter /\ sendQ'[r] = Append(<<>>, iteration[r])
    BY <1>12, <2>3 DEF StageAndSubmit, TypeOK
  <2>5. sendQ'[r] # <<>> /\ Len(sendQ'[r]) = 1 /\ Head(sendQ'[r]) = iteration[r]
    BY <2>4, AppendToNone
  <2>6. iteration[r] # Terminate
    BY <2>1 DEF SlotInv, SubmitsIteration
  <2>7. staging'[r] = iteration[r] /\ inProgress'[r]
    BY <1>12 DEF StageAndSubmit, TypeOK
  <2> QED BY <1>12, <2>1, <2>2, <2>5, <2>6, <2>7 DEF StageAndSubmit, SlotInv, OnePlace, HoldsStaged,
        Quiet, TerminateIsLast, SubmitsIteration, Queued, Busy, Answered, Deferred
<1>13. CASE FinalizeDead(r)
  <2>1. pc[r] = "finalize" /\ pc'[r] = "barrier"
    BY <1>13 DEF FinalizeDead, TypeOK
  <2> QED BY <1>13, <2>1 DEF FinalizeDead, SlotInv, OnePlace, HoldsStaged, Quiet,
        TerminateIsLast, SubmitsIteration, Queued, Busy, Answered, Deferred
<1>14. CASE SendTerminate(r)
  <2>1. pc[r] = "terminate" /\ pc'[r] = "join"
    BY <1>14 DEF SendTerminate, TypeOK
  <2>2. ~Queued(r) /\ ~Busy(r) /\ ~Answered(r) /\ ~Deferred(r) /\ ~inProgress[r]
    BY <2>1 DEF SlotInv, OnePlace, Quiet
  <2>3. sendQ[r] = <<>>
    BY <2>1, <2>2 DEF SlotInv, TerminateIsLast, Queued
  <2>4. Terminate \in 0..MaxIter /\ sendQ'[r] = Append(<<>>, Terminate)
    BY <1>14, <2>3 DEF SendTerminate, TypeOK, Terminate
  <2>5. sendQ'[r] # <<>> /\ Len(sendQ'[r]) = 1 /\ Head(sendQ'[r]) = Terminate
    BY <2>4, AppendToNone
  <2> QED BY <1>14, <2>1, <2>2, <2>5 DEF SendTerminate, SlotInv, OnePlace, HoldsStaged,
        Quiet, TerminateIsLast, SubmitsIteration, Queued, Busy, Answered, Deferred
<1>15. CASE Join(r)
  <2>1. pc[r] = "join" /\ pc'[r] = "barrier"
    BY <1>15 DEF Join, TypeOK
  <2> QED BY <1>15, <2>1 DEF Join, SlotInv, OnePlace, HoldsStaged, Quiet,
        TerminateIsLast, SubmitsIteration, Queued, Busy, Answered, Deferred
<1>16. CASE PassBarrier(r)
  <2>1. pc[r] = "barrier" /\ pc'[r] = "done"
    BY <1>16 DEF PassBarrier, TypeOK
  <2> QED BY <1>16, <2>1 DEF PassBarrier, SlotInv, OnePlace, HoldsStaged, Quiet,
        TerminateIsLast, SubmitsIteration, Queued, Busy, Answered, Deferred
<1>17. CASE LaunchExport(r)
  <2>1. pc[r] = "launch" /\ pc'[r] \in {"dataloader", "stage"}
    BY <1>17 DEF LaunchExport, TypeOK, AfterExport
  <2> QED BY <1>17, <2>1 DEF LaunchExport, SlotInv, OnePlace, HoldsStaged, Quiet,
        TerminateIsLast, SubmitsIteration, Queued, Busy, Answered, Deferred
<1>18. CASE RaiseExportError(r) \/ WriteDataloaderFails(r)
  <2>1. pc[r] \in {"launch", "trainEnd", "dataloader"} /\ pc'[r] = "failed"
    BY <1>18 DEF RaiseExportError, WriteDataloaderFails, TypeOK
  <2> QED BY <1>18, <2>1 DEF RaiseExportError, WriteDataloaderFails, SlotInv, OnePlace, HoldsStaged, Quiet,
        TerminateIsLast, SubmitsIteration, Queued, Busy, Answered, Deferred
<1>19. CASE JoinExport(r)
  <2>1. pc[r] = "trainEnd" /\ pc'[r] = "finalize"
    BY <1>19 DEF JoinExport, TypeOK
  <2> QED BY <1>19, <2>1 DEF JoinExport, SlotInv, OnePlace, HoldsStaged, Quiet,
        TerminateIsLast, SubmitsIteration, Queued, Busy, Answered, Deferred
<1> QED
  BY <1>1, <1>2, <1>3, <1>4, <1>5, <1>6, <1>7, <1>8, <1>9, <1>10, <1>11, <1>12, <1>13,
     <1>14, <1>15, <1>16, <1>17, <1>18, <1>19 DEF Main

(* A busy background process moves on or reports. *)
LEMMA ReportSlot ==
  ASSUME TypeInv, NEW r \in Rank, NEW ok \in BOOLEAN, SlotInv(r), Busy(r), Report(r, ok),
         UNCHANGED <<pc[r], iteration[r], inProgress[r], deferred[r], staging[r], sendQ[r], bgJob[r]>>
  PROVE  SlotInv(r)'
<1>1. recvQ[r] = <<>>
  BY DEF SlotInv, OnePlace, Answered
<1>2. [iter |-> bgJob[r], ok |-> ok] \in SaveDone
  BY DEF TypeInv, JobIsIteration, SaveDone
<1>3. recvQ'[r] = Append(<<>>, [iter |-> bgJob[r], ok |-> ok])
  BY <1>1 DEF Report, TypeInv, TypeOK
<1>4. recvQ'[r] # <<>> /\ Len(recvQ'[r]) = 1
  BY <1>2, <1>3, AppendToNone
<1>5. bgPhase'[r] = "idle"
  BY DEF Report, TypeInv, TypeOK
<1> QED BY <1>4, <1>5 DEF SlotInv, OnePlace, HoldsStaged, Quiet, TerminateIsLast, SubmitsIteration,
       Queued, Busy, Answered, Deferred

LEMMA BusySlot ==
  ASSUME NEW r \in Rank, SlotInv(r), Busy(r), Busy(r)',
         UNCHANGED <<pc[r], iteration[r], inProgress[r], deferred[r], staging[r], sendQ[r], recvQ[r], bgJob[r]>>
  PROVE  SlotInv(r)'
BY DEF SlotInv, OnePlace, HoldsStaged, Quiet, TerminateIsLast, SubmitsIteration,
       Queued, Busy, Answered, Deferred

LEMMA BackgroundSlot ==
  ASSUME TypeInv, NEW r \in Rank, SlotInv(r), Background(r)
  PROVE  SlotInv(r)'
<1> USE DEF mainVars, bgVars
<1>1. CASE BgTake(r)
  <2>1. sendQ[r] \in Seq(0..MaxIter) /\ Len(sendQ[r]) <= 1 /\ Queued(r)
    BY <1>1 DEF TypeInv, TypeOK, SlotInv, OnePlace, BgTake, Queued
  <2>2. sendQ'[r] = <<>> /\ Len(<<>>) = 0
    BY <1>1, <2>1, TailOfOne, EmptySeq DEF BgTake, TypeInv, TypeOK
  <2>3. bgPhase'[r] = "plan" /\ bgJob'[r] = Head(sendQ[r])
    BY <1>1 DEF BgTake, TypeInv, TypeOK
  <2> QED BY <1>1, <2>1, <2>2, <2>3 DEF BgTake, SlotInv, OnePlace, HoldsStaged, Quiet,
        TerminateIsLast, SubmitsIteration, Queued, Busy, Answered, Deferred
<1>2. CASE BgTerminate(r)
  <2>1. sendQ[r] \in Seq(0..MaxIter) /\ Len(sendQ[r]) <= 1 /\ sendQ[r] # <<>>
    BY <1>2 DEF TypeInv, TypeOK, SlotInv, OnePlace, BgTerminate
  <2>2. sendQ'[r] = <<>> /\ Len(<<>>) = 0
    BY <1>2, <2>1, TailOfOne, EmptySeq DEF BgTerminate, TypeInv, TypeOK
  <2>3. bgPhase[r] = "idle" /\ bgPhase'[r] = "exited" /\ ~Queued(r)
    BY <1>2 DEF BgTerminate, TypeInv, TypeOK, Queued
  <2> QED BY <1>2, <2>1, <2>2, <2>3 DEF BgTerminate, SlotInv, OnePlace, HoldsStaged, Quiet,
        TerminateIsLast, SubmitsIteration, Queued, Busy, Answered, Deferred
<1>3. CASE BgPlan(r)
  BY <1>3, BusySlot DEF BgPlan, TypeInv, TypeOK, Busy
<1>4. CASE BgWrite(r)
  BY <1>4, BusySlot DEF BgWrite, TypeInv, TypeOK, Busy
<1>5. CASE BgLeave(r)
  <2>1. Busy(r)
    BY <1>5 DEF BgLeave, Busy
  <2>2. CASE NextKey(r) /\ UNCHANGED recvQ
    BY <1>5, <2>1, <2>2, BusySlot DEF BgLeave, NextKey, TypeInv, TypeOK, Busy
  <2>3. CASE Report(r, TRUE)
    BY <1>5, <2>1, <2>3, ReportSlot DEF BgLeave
  <2> QED BY <1>5, <2>2, <2>3 DEF BgLeave
<1>6. CASE BgError(r)
  <2>1. Busy(r)
    BY <1>6 DEF BgError, Busy
  <2> QED BY <1>6, <2>1, ReportSlot DEF BgError
<1> QED BY <1>1, <1>2, <1>3, <1>4, <1>5, <1>6 DEF Background

LEMMA CoordinatorSlot ==
  ASSUME TypeInv, SlotInv(Rank0), Coordinator
  PROVE  SlotInv(Rank0)'
<1> USE RankAssumption DEF mainVars
<1>1. CASE BgCommit
  <2>1. Busy(Rank0)
    BY <1>1 DEF BgCommit, Busy
  <2>2. bgPhase'[Rank0] \in {"plan", "pointer"}
    BY <1>1 DEF BgCommit, NextKey, TypeInv, TypeOK
  <2> QED BY <1>1, <2>1, <2>2, BusySlot DEF BgCommit, Busy
<1>2. CASE BgTruncatePointer
  BY <1>2, BusySlot DEF BgTruncatePointer, Busy, TypeInv, TypeOK
<1>3. CASE BgWritePointer
  <2>1. Busy(Rank0)
    BY <1>3 DEF BgWritePointer, Busy
  <2> QED BY <1>3, <2>1, ReportSlot DEF BgWritePointer
<1> QED BY <1>1, <1>2, <1>3 DEF Coordinator

(* A step of rank r leaves what SlotInv reads of the other ranks alone. *)
LEMMA RankFrame ==
  ASSUME TypeInv, NEW r \in Rank, NEW q \in Rank, q # r,
         Main(r) \/ Background(r) \/ (r = Rank0 /\ Coordinator) \/ BgDie(r)
  PROVE  UNCHANGED Local(q)
<1> USE DEF TypeInv, TypeOK, Local, mainVars, bgVars, storeVars, exportVars, envVars
<1>1. CASE Main(r)
  <2>1. CASE OptimizerStep(r) \/ EndTraining(r) \/ PollNothing(r)
    BY <2>1 DEF OptimizerStep, EndTraining, PollNothing
  <2>2. CASE PollSuccess(r) \/ PollFailure(r)
    BY <2>2 DEF PollSuccess, PollFailure, Confirm
  <2>3. CASE WaitIdle(r) \/ WaitSuccess(r) \/ WaitFailure(r)
    BY <2>3 DEF WaitIdle, WaitSuccess, WaitFailure, Confirm
  <2>4. CASE WaitDeferred(r) \/ WaitTimeout(r) \/ WriteDataloader(r)
    BY <2>4 DEF WaitDeferred, WaitTimeout, WriteDataloader
  <2>5. CASE StageAndSubmit(r) \/ FinalizeDead(r) \/ SendTerminate(r)
    BY <2>5 DEF StageAndSubmit, FinalizeDead, SendTerminate
  <2>6. CASE Join(r) \/ PassBarrier(r)
    BY <2>6 DEF Join, PassBarrier
  <2>7. CASE LaunchExport(r) \/ RaiseExportError(r) \/ WriteDataloaderFails(r) \/ JoinExport(r)
    BY <2>7 DEF LaunchExport, RaiseExportError, WriteDataloaderFails, JoinExport
  <2> QED BY <1>1, <2>1, <2>2, <2>3, <2>4, <2>5, <2>6, <2>7 DEF Main
<1>2. CASE Background(r)
  <2>1. CASE BgTake(r) \/ BgTerminate(r)
    BY <2>1 DEF BgTake, BgTerminate
  <2>2. CASE BgPlan(r) \/ BgWrite(r)
    BY <2>2 DEF BgPlan, BgWrite
  <2>3. CASE BgLeave(r)
    BY <2>3 DEF BgLeave, NextKey, Report
  <2>4. CASE BgError(r)
    BY <2>4 DEF BgError, Report
  <2> QED BY <1>2, <2>1, <2>2, <2>3, <2>4 DEF Background
<1>3. CASE r = Rank0 /\ Coordinator
  <2>1. CASE BgCommit
    BY <1>3, <2>1 DEF BgCommit, NextKey
  <2>2. CASE BgTruncatePointer
    BY <1>3, <2>2 DEF BgTruncatePointer
  <2>3. CASE BgWritePointer
    BY <1>3, <2>3 DEF BgWritePointer, Report
  <2> QED BY <1>3, <2>1, <2>2, <2>3 DEF Coordinator
<1>4. CASE BgDie(r)
  BY <1>4 DEF BgDie
<1> QED BY <1>1, <1>2, <1>3, <1>4

(* Every rank leaves the gather for its next step of the save. *)
LEMMA GatherSlot ==
  ASSUME TypeInv, NEW r \in Rank, SlotInv(r), GatherWeights
  PROVE  SlotInv(r)'
<1>1. pc[r] = "export" /\ pc'[r] \in {"launch", "dataloader", "stage"}
  BY DEF GatherWeights, AfterExport
<1> QED BY <1>1 DEF GatherWeights, bgVars, SlotInv, OnePlace, HoldsStaged, Quiet,
       TerminateIsLast, SubmitsIteration, Queued, Busy, Answered, Deferred

LEMMA DieSlot ==
  ASSUME TypeInv, NEW r \in Rank, SlotInv(r), BgDie(r)
  PROVE  SlotInv(r)'
<1>1. bgPhase'[r] = "dead"
  BY DEF BgDie, TypeInv, TypeOK
<1> QED BY <1>1 DEF BgDie, mainVars, SlotInv, OnePlace, HoldsStaged, Quiet, TerminateIsLast,
       SubmitsIteration, Queued, Busy, Answered, Deferred

LEMMA NextSlot == SlotInvariant /\ [Next]_vars => SlotInvariant'
<1> SUFFICES ASSUME SlotInvariant, [Next]_vars PROVE SlotInvariant'
  OBVIOUS
<1>1. TypeInv'
  BY NextType DEF SlotInvariant
<1>2. ASSUME NEW q \in Rank PROVE SlotInv(q)'
  <2> USE DEF SlotInvariant
  <2>1. ASSUME NEW r \in Rank,
               Main(r) \/ Background(r) \/ (r = Rank0 /\ Coordinator) \/ BgDie(r)
        PROVE  SlotInv(q)'
    <3>1. CASE q = r
      BY <2>1, <3>1, MainSlot, BackgroundSlot, CoordinatorSlot, DieSlot
    <3>2. CASE q # r
      BY <2>1, <3>2, RankFrame, SlotStays
    <3> QED BY <3>1, <3>2
  <2>2. CASE Fault \/ Stopped \/ Exporter \/ UNCHANGED vars
    <3>1. UNCHANGED Local(q)
      BY <2>2 DEF Fault, Stopped, Exporter, ExportDone, ExportFails, vars, mainVars, bgVars, Local
    <3> QED BY <3>1, SlotStays
  <2>3. CASE KillAll
    BY <2>3, SlotFreshPrimed DEF KillAll
  <2>4. CASE Restart
    BY <2>4, SlotFreshPrimed DEF Restart
  <2>5. CASE GatherWeights
    BY <2>5, GatherSlot
  <2> QED BY <2>1, <2>2, <2>3, <2>4, <2>5, RankAssumption DEF Next, Environment, Crash, Teardown
<1> QED BY <1>1, <1>2 DEF SlotInvariant

LEMMA SlotCorrect == Spec => []SlotInvariant
BY InitSlot, NextSlot, PTL DEF Spec

(* At any moment a submitted save is in one place, and                      *)
(* checkpoint_in_progress says so: poll_async_save and                      *)
(* _wait_for_previous_async_checkpoint cannot both take a result, and no    *)
(* second save is handed over before the first is answered.                 *)
THEOREM SingleSlotCorrect == Spec => []SingleSlot
<1>1. SlotInvariant => SingleSlot
  BY DEF SlotInvariant, SlotInv, SingleSlot
<1> QED BY <1>1, SlotCorrect, PTL

(* The pinned buffer shared with the background process keeps the state of  *)
(* the submitted iteration until the save of it is over.                    *)
THEOREM BufferIntactCorrect == Spec => []BufferIntact
<1>1. SlotInvariant => BufferIntact
  BY DEF SlotInvariant, SlotInv, BufferIntact
<1> QED BY <1>1, SlotCorrect, PTL

-----------------------------------------------------------------------------
(***************************************************************************)
(* Every save that rank 0 has staged or confirmed was handed to the export *)
(* thread before, and from then on it is exported, being exported, or the  *)
(* failure is kept until it is raised.                                     *)
(***************************************************************************)
Covered(n) ==
  ExportDue(n) => \/ n \in exported
                  \/ n = exporting
                  \/ exportError
                  \/ pc[Rank0] \in {"failed", "down"}

ConfirmedCovered == \A n \in 1..Len(confirmed[Rank0]) : Covered(confirmed[Rank0][n])

StagedCovered ==
  /\ staging[Rank0] # None => Covered(staging[Rank0])
  /\ pc[Rank0] \in {"dataloader", "stage"} => Covered(iteration[Rank0])

EndJoined ==
  pc[Rank0] \in {"finalize", "terminate", "join", "barrier", "done"} =>
    exporting = None /\ ~exportError

\* The answer on the result queue is about the save that was staged last.
AnswersStaged == recvQ[Rank0] # <<>> => Head(recvQ[Rank0]).iter = staging[Rank0]

ExportInv == ConfirmedCovered /\ StagedCovered /\ EndJoined /\ AnswersStaged

ExportInvariant == SlotInvariant /\ ExportInv

LEMMA InitExport == Init => ExportInv
<1> SUFFICES ASSUME Init PROVE ExportInv
  OBVIOUS
<1>1. Len(confirmed[Rank0]) = 0 /\ recvQ[Rank0] = <<>> /\ staging[Rank0] = None
      /\ pc[Rank0] = "train"
  BY RankAssumption, EmptySeq DEF Init
<1> QED BY <1>1 DEF ExportInv, ConfirmedCovered, StagedCovered, EndJoined, AnswersStaged

(* Nothing of rank 0 and of its export thread has changed. *)
LEMMA ExportStays ==
  ASSUME ExportInv, UNCHANGED <<Local(Rank0), exportVars>>
  PROVE  ExportInv'
BY DEF ExportInv, ConfirmedCovered, StagedCovered, EndJoined, AnswersStaged, Covered,
       Local, exportVars

(* The thread ends one way or the other. *)
LEMMA ExporterCovers ==
  ASSUME ExportInv, TypeInv, Exporter
  PROVE  ExportInv'
<1> USE DEF mainVars, bgVars
<1>1. \A n : Covered(n) => Covered(n)'
  BY DEF Exporter, ExportDone, ExportFails, Covered
<1>2. exporting # None
  BY DEF Exporter, ExportDone, ExportFails
<1>3. UNCHANGED <<Local(Rank0), pc, confirmed, staging, iteration, recvQ>>
  BY DEF Exporter, ExportDone, ExportFails, Local
<1> QED BY <1>1, <1>2, <1>3
     DEF ExportInv, ConfirmedCovered, StagedCovered, EndJoined, AnswersStaged

(* Rank 0 confirms the save it staged last. *)
LEMMA ConfirmCovers ==
  ASSUME ExportInv, TypeInv, SlotInv(Rank0), MayPoll(Rank0), Confirm(Rank0), UNCHANGED exportVars,
         UNCHANGED <<staging[Rank0], iteration[Rank0]>>,
         pc[Rank0] \notin {"failed", "down", "dataloader", "stage"},
         pc'[Rank0] \notin {"failed", "down"},
         pc'[Rank0] \in {"dataloader", "stage"} => ~ExportDue(iteration[Rank0]),
         pc'[Rank0] \in {"finalize", "terminate", "join", "barrier", "done"} => pc[Rank0] = "finalize"
  PROVE  ExportInv'
<1> USE RankAssumption DEF exportVars
<1> DEFINE m == Head(recvQ[Rank0]).iter
<1>1. m \in Iter /\ m = staging[Rank0] /\ m # None
  BY AnswerType DEF ExportInv, AnswersStaged, MayPoll, TypeInv, Iter, None
<1>2. Covered(m) /\ \A n : Covered(n) => Covered(n)'
  BY <1>1 DEF ExportInv, StagedCovered, Covered
<1>3. /\ confirmed[Rank0] \in Seq(Iter)
      /\ confirmed'[Rank0] = Append(confirmed[Rank0], m)
  BY DEF Confirm, TypeInv, TypeOK
<1>4. ConfirmedCovered'
  <2>1. /\ Len(confirmed'[Rank0]) = Len(confirmed[Rank0]) + 1
        /\ \A n \in 1..Len(confirmed[Rank0]) : confirmed'[Rank0][n] = confirmed[Rank0][n]
        /\ confirmed'[Rank0][Len(confirmed[Rank0]) + 1] = m
        /\ Len(confirmed[Rank0]) \in Nat
    BY <1>1, <1>3, AppendProperties, LenProperties
  <2> SUFFICES ASSUME NEW n \in 1..Len(confirmed'[Rank0]) PROVE Covered(confirmed[Rank0][n])'
    BY DEF ConfirmedCovered
  <2>2. CASE n \in 1..Len(confirmed[Rank0])
    <3>1. Covered(confirmed[Rank0][n])
      BY <2>2 DEF ExportInv, ConfirmedCovered
    <3>2. confirmed[Rank0][n]' = confirmed[Rank0][n]
      BY <2>1, <2>2
    <3> QED BY <1>2, <3>1, <3>2 DEF Covered
  <2>3. CASE n = Len(confirmed[Rank0]) + 1
    <3>1. confirmed[Rank0][n]' = m
      BY <2>1, <2>3
    <3> QED BY <1>2, <3>1 DEF Covered
  <2> QED BY <2>1, <2>2, <2>3
<1>5. recvQ'[Rank0] = <<>>
  BY TailOfOne DEF Confirm, SlotInv, OnePlace, MayPoll, TypeInv, TypeOK
<1> QED BY <1>2, <1>4, <1>5 DEF ExportInv, StagedCovered, EndJoined, AnswersStaged, Covered

LEMMA MainExport ==
  ASSUME ExportInv, TypeInv, SlotInv(Rank0), Main(Rank0)
  PROVE  ExportInv'
<1> USE RankAssumption, ConstantTypes
    DEF exportVars, TypeInv, ExportInv, StagedCovered, EndJoined, AnswersStaged
<1> DEFINE r == Rank0
           Still == UNCHANGED <<confirmed, exporting, exportError, exported>>
<1>1. ASSUME Still, pc'[r] \in {"failed", "down"} <=> pc[r] \in {"failed", "down"}
      PROVE  ConfirmedCovered' /\ \A n : Covered(n) <=> Covered(n)'
  BY <1>1 DEF ConfirmedCovered, Covered
<1>2. CASE OptimizerStep(r) \/ EndTraining(r) \/ PollNothing(r)
  <2>1. /\ pc[r] \in {"train", "stepEnd"}
        /\ pc'[r] \in {"save", "stepEnd", "trainEnd", "train"}
        /\ UNCHANGED <<staging, recvQ>> /\ Still
    BY <1>2 DEF OptimizerStep, EndTraining, PollNothing, TypeOK, AfterLoop
  <2> QED BY <1>1, <2>1
<1>3. CASE PollSuccess(r)
  <2>1. pc[r] = "stepEnd" /\ pc'[r] = "train"
    BY <1>3 DEF PollSuccess, TypeOK
  <2> QED BY <1>3, <2>1, ConfirmCovers DEF PollSuccess
<1>4. CASE PollFailure(r)
  <2>1. pc[r] = "stepEnd" /\ pc'[r] = "train" /\ staging' = staging /\ Still
    BY <1>4 DEF PollFailure, TypeOK
  <2>2. recvQ'[r] = <<>>
    BY <1>4, TailOfOne DEF PollFailure, SlotInv, OnePlace, MayPoll, TypeOK
  <2> QED BY <1>1, <2>1, <2>2
<1>5. CASE WaitIdle(r)
  <2>1. /\ pc[r] \in {"save", "finalize"} /\ pc'[r] = AfterWait(r)
        /\ UNCHANGED <<staging, recvQ, iteration>> /\ Still
    BY <1>5 DEF WaitIdle, Waiting, TypeOK
  <2>2. /\ pc'[r] \in {"terminate", "export", "dataloader", "stage"}
        /\ pc'[r] = "terminate" => pc[r] = "finalize"
        /\ pc'[r] \in {"dataloader", "stage"} => ~ExportDue(iteration[r])
    BY <2>1 DEF AfterWait, AfterExport
  <2>3. pc'[r] \in {"dataloader", "stage"} => Covered(iteration[r])'
    BY <2>1, <2>2 DEF Covered
  <2> QED BY <1>1, <2>1, <2>2, <2>3
<1>6. CASE WaitSuccess(r)
  <2>1. pc[r] \in {"save", "finalize"} /\ pc'[r] = AfterWait(r)
    BY <1>6 DEF WaitSuccess, Waiting, TypeOK
  <2>2. /\ pc'[r] \in {"terminate", "export", "dataloader", "stage"}
        /\ pc'[r] = "terminate" => pc[r] = "finalize"
        /\ pc'[r] \in {"dataloader", "stage"} => ~ExportDue(iteration[r])
    BY <2>1 DEF AfterWait, AfterExport
  <2> QED BY <1>6, <2>1, <2>2, ConfirmCovers DEF WaitSuccess
<1>7. CASE WaitFailure(r) \/ WaitDeferred(r) \/ WaitTimeout(r)
  <2>1. pc'[r] = "failed" /\ UNCHANGED <<staging, confirmed>>
    BY <1>7 DEF WaitFailure, WaitDeferred, WaitTimeout, TypeOK
  <2>2. recvQ'[r] = recvQ[r] \/ recvQ'[r] = <<>>
    <3>1. CASE WaitFailure(r)
      BY <3>1, TailOfOne DEF WaitFailure, SlotInv, OnePlace, MayPoll, TypeOK
    <3> QED BY <1>7, <3>1 DEF WaitDeferred, WaitTimeout
  <2> QED BY <2>1, <2>2 DEF ConfirmedCovered, Covered
<1>8. CASE LaunchExport(r)
  <2>1. /\ pc[r] = "launch" /\ pc'[r] \in {"dataloader", "stage"}
        /\ exporting = None /\ ~exportError /\ exporting' = iteration[r] /\ exportError' = exportError
        /\ exported' = exported \ {iteration[r]}
        /\ UNCHANGED <<staging, recvQ, iteration, confirmed>>
    BY <1>8 DEF LaunchExport, TypeOK, AfterExport
  <2>2. \A n : n # None /\ Covered(n) => Covered(n)'
    BY <2>1 DEF Covered
  <2>3. \A n \in 1..Len(confirmed[r]) : confirmed[r][n] # None
    <3>1. confirmed[r] \in Seq(Iter)
      BY DEF TypeOK
    <3>2. \A n \in 1..Len(confirmed[r]) : confirmed[r][n] \in Iter
      BY <3>1, ElementOfSeq
    <3> QED BY <3>2 DEF Iter, None
  <2>4. ConfirmedCovered' /\ Covered(iteration[r])'
    BY <2>1, <2>2, <2>3 DEF ConfirmedCovered, Covered
  <2> QED BY <2>1, <2>2, <2>4
<1>9. CASE RaiseExportError(r) \/ WriteDataloaderFails(r)
  <2>1. pc'[r] = "failed" /\ UNCHANGED <<staging, recvQ, confirmed>>
    BY <1>9 DEF RaiseExportError, WriteDataloaderFails, TypeOK
  <2> QED BY <2>1 DEF ConfirmedCovered, Covered
<1>10. CASE JoinExport(r)
  <2>1. /\ pc[r] = "trainEnd" /\ pc'[r] = "finalize" /\ exporting = None /\ ~exportError
        /\ UNCHANGED <<staging, recvQ, iteration>> /\ Still
    BY <1>10 DEF JoinExport, TypeOK
  <2> QED BY <1>1, <2>1
<1>11. CASE WriteDataloader(r)
  <2>1. /\ pc[r] = "dataloader" /\ pc'[r] = "stage"
        /\ UNCHANGED <<staging, recvQ, iteration>> /\ Still
    BY <1>11 DEF WriteDataloader, TypeOK
  <2> QED BY <1>1, <2>1
<1>12. CASE StageAndSubmit(r)
  <2>1. /\ pc[r] = "stage" /\ pc'[r] \in {"stepEnd", "trainEnd"}
        /\ staging'[r] = iteration[r] /\ Still
    BY <1>12 DEF StageAndSubmit, TypeOK, AfterLoop
  <2>2. recvQ'[r] = <<>>
    BY <1>12, <2>1 DEF StageAndSubmit, SlotInv, Quiet, OnePlace, Answered
  <2> QED BY <1>1, <2>1, <2>2 DEF Covered
<1>13. CASE FinalizeDead(r) \/ SendTerminate(r) \/ Join(r) \/ PassBarrier(r)
  <2>1. /\ pc[r] \in {"finalize", "terminate", "join", "barrier"}
        /\ pc'[r] \in {"join", "barrier", "done"}
        /\ UNCHANGED <<staging, recvQ, iteration>> /\ Still
    BY <1>13 DEF FinalizeDead, SendTerminate, Join, PassBarrier, TypeOK
  <2> QED BY <1>1, <2>1
<1> QED BY <1>2, <1>3, <1>4, <1>5, <1>6, <1>7, <1>8, <1>9, <1>10, <1>11, <1>12, <1>13 DEF Main

(* A background process of rank 0 changes, of what the invariant reads, only *)
(* the answer, which names the job whose state is staged.                    *)
LEMMA ReportExport ==
  ASSUME ExportInv, TypeInv, SlotInv(Rank0), NEW ok \in BOOLEAN, Busy(Rank0), Report(Rank0, ok),
         UNCHANGED <<mainVars, exportVars>>
  PROVE  ExportInv'
<1> USE RankAssumption
<1> DEFINE answer == [iter |-> bgJob[Rank0], ok |-> ok]
<1>1. answer \in SaveDone /\ answer.iter = staging[Rank0]
  BY DEF TypeInv, JobIsIteration, SaveDone, SlotInv, HoldsStaged
<1>2. recvQ'[Rank0] = Append(<<>>, answer)
  BY DEF Report, TypeInv, TypeOK, SlotInv, OnePlace, Answered
<1>3. Head(recvQ'[Rank0]) = answer
  BY <1>1, <1>2, AppendToNone
<1> QED BY <1>1, <1>3 DEF mainVars, exportVars, ExportInv, ConfirmedCovered, StagedCovered,
       EndJoined, AnswersStaged, Covered

LEMMA BackgroundExport ==
  ASSUME ExportInv, TypeInv, SlotInv(Rank0), Background(Rank0) \/ Coordinator \/ BgDie(Rank0)
  PROVE  ExportInv'
<1> USE RankAssumption
<1>1. ASSUME UNCHANGED <<mainVars, exportVars, recvQ>> PROVE ExportInv'
  BY <1>1 DEF mainVars, exportVars, ExportInv, ConfirmedCovered, StagedCovered, EndJoined,
       AnswersStaged, Covered
<1>2. CASE BgTake(Rank0) \/ BgTerminate(Rank0) \/ BgPlan(Rank0) \/ BgWrite(Rank0) \/ BgDie(Rank0)
  BY <1>1, <1>2 DEF BgTake, BgTerminate, BgPlan, BgWrite, BgDie
<1>3. CASE BgCommit \/ BgTruncatePointer
  BY <1>1, <1>3 DEF BgCommit, BgTruncatePointer
<1>4. CASE BgError(Rank0)
  BY <1>4, ReportExport DEF BgError, Busy
<1>5. CASE BgWritePointer
  <2>1. Busy(Rank0)
    BY <1>5 DEF BgWritePointer, Busy
  <2> QED BY <1>5, <2>1, ReportExport DEF BgWritePointer
<1>6. ~BgLeave(Rank0)
  BY DEF BgLeave
<1> QED BY <1>2, <1>3, <1>4, <1>5, <1>6 DEF Background, Coordinator

LEMMA NextExport == ExportInvariant /\ [Next]_vars => ExportInvariant'
<1> SUFFICES ASSUME ExportInvariant, [Next]_vars PROVE ExportInvariant'
  OBVIOUS
<1>1. SlotInvariant'
  BY NextSlot DEF ExportInvariant
<1>2. ExportInv /\ TypeInv /\ SlotInv(Rank0) /\ \A r \in Rank : SlotInv(r)
  BY RankAssumption DEF ExportInvariant, SlotInvariant
<1>3. ExportInv'
  <2>1. ASSUME NEW r \in Rank, Main(r) \/ Background(r) \/ BgDie(r) PROVE ExportInv'
    <3>1. CASE r = Rank0
      BY <1>2, <2>1, <3>1, MainExport, BackgroundExport
    <3>2. CASE r # Rank0
      <4>1. UNCHANGED Local(Rank0)
        BY <1>2, <2>1, <3>2, RankFrame, RankAssumption
      <4>2. UNCHANGED exportVars
        <5>1. CASE Main(r)
          BY <5>1, <3>2 DEF Main, OptimizerStep, EndTraining, PollNothing, PollSuccess, PollFailure,
            WaitIdle, WaitSuccess, WaitFailure, WaitDeferred, WaitTimeout, LaunchExport,
            RaiseExportError, WriteDataloaderFails, JoinExport, WriteDataloader, StageAndSubmit, FinalizeDead,
            SendTerminate, Join, PassBarrier
        <5>2. CASE Background(r)
          BY <5>2 DEF Background, BgTake, BgTerminate, BgPlan, BgWrite, BgLeave, BgError
        <5>3. CASE BgDie(r)
          BY <5>3 DEF BgDie
        <5> QED BY <2>1, <5>1, <5>2, <5>3
      <4> QED BY <1>2, <4>1, <4>2, ExportStays
    <3> QED BY <3>1, <3>2
  <2>2. CASE Coordinator
    BY <1>2, <2>2, BackgroundExport
  <2>3. CASE Exporter
    BY <1>2, <2>3, ExporterCovers
  <2>4. CASE GatherWeights
    <3>1. /\ pc[Rank0] = "export" /\ pc'[Rank0] = "launch"
          /\ UNCHANGED <<confirmed, staging, recvQ, iteration, exporting, exportError, exported>>
      BY <2>4, RankAssumption DEF GatherWeights, exportVars
    <3> QED BY <1>2, <3>1 DEF ExportInv, ConfirmedCovered, StagedCovered, EndJoined, AnswersStaged,
              Covered
  <2>5. CASE Fault \/ Stopped \/ UNCHANGED vars
    <3>1. UNCHANGED <<Local(Rank0), exportVars>>
      BY <2>5 DEF Fault, Stopped, vars, mainVars, bgVars, Local
    <3> QED BY <1>2, <3>1, ExportStays
  <2>6. CASE KillAll
    <3>1. pc'[Rank0] = "down" /\ staging'[Rank0] = None /\ recvQ'[Rank0] = <<>>
      BY <2>6, RankAssumption DEF KillAll
    <3> QED BY <3>1 DEF ExportInv, ConfirmedCovered, StagedCovered, EndJoined, AnswersStaged, Covered
  <2>7. CASE Restart
    <3>1. /\ pc'[Rank0] = "train" /\ staging'[Rank0] = None /\ recvQ'[Rank0] = <<>>
          /\ confirmed'[Rank0] = <<>> /\ Len(<<>>) = 0
      BY <2>7, RankAssumption, EmptySeq DEF Restart
    <3> QED BY <3>1 DEF ExportInv, ConfirmedCovered, StagedCovered, EndJoined, AnswersStaged
  <2> QED BY <2>1, <2>2, <2>3, <2>4, <2>5, <2>6, <2>7 DEF Next, Environment, Crash, Teardown
<1> QED BY <1>1, <1>3 DEF ExportInvariant

LEMMA ExportCorrect == Spec => []ExportInvariant
<1>1. Init => ExportInvariant
  BY InitSlot, InitExport DEF ExportInvariant
<1> QED BY <1>1, NextExport, PTL DEF Spec

(* A job whose end rank 0 reached normally has exported every save it       *)
(* confirmed: an export that failed stops rank 0 at the next export, or in  *)
(* on_train_end.                                                            *)
THEOREM DoneMeansExportedCorrect == Spec => []DoneMeansExported
<1>1. ExportInvariant => DoneMeansExported
  <2> SUFFICES ASSUME ExportInvariant, pc[Rank0] = "done", NEW n \in 1..Len(confirmed[Rank0]),
                      ExportDue(confirmed[Rank0][n])
               PROVE  confirmed[Rank0][n] \in exported
    BY DEF DoneMeansExported
  <2>1. Covered(confirmed[Rank0][n]) /\ exporting = None /\ ~exportError
    BY DEF ExportInvariant, ExportInv, ConfirmedCovered, EndJoined
  <2>2. confirmed[Rank0] \in Seq(Iter)
    BY RankAssumption DEF ExportInvariant, SlotInvariant, TypeInv, TypeOK
  <2>3. confirmed[Rank0][n] # None
    <3>1. confirmed[Rank0][n] \in Iter
      BY <2>2, ElementOfSeq
    <3> QED BY <3>1 DEF Iter, None
  <2> QED BY <2>1, <2>3 DEF Covered
<1> QED BY <1>1, ExportCorrect, PTL

-----------------------------------------------------------------------------
(***************************************************************************)
(* What is on storage.  A key of iteration j is settled when its metadata  *)
(* and the shards of all ranks are of one run, and no process of this run  *)
(* writes any of them again: no rank hands j over any more, and those that *)
(* still work on it are past the key.                                      *)
(***************************************************************************)
Saving == {"save", "export", "launch", "dataloader", "stage"}
Ending == {"trainEnd", "finalize", "terminate", "join", "barrier", "done", "failed", "down"}

\* Rank r does not hand iteration j over any more in this run.
WontSubmit(r, j) ==
  /\ iteration[r] >= j
  /\ iteration[r] = j => pc[r] \notin Saving /\ (MilestoneDue(j) \/ pc[r] \in Ending)

\* Nor does it write key k of iteration j any more.
PastKey(r, j, k) ==
  staging[r] = j =>
    /\ ~Queued(r)
    /\ Busy(r) => \/ bgKey[r] > k
                  \/ bgKey[r] = k /\ bgPhase[r] \in {"written", "pointer", "pointerText"}

\* Key k of iteration j as rank r left it.
KeyStored(r, j, k) ==
  /\ shard[j][k][r] = meta[j][k]
  /\ StatefulDataloader => dataloader[j][r] = meta[j][k]

KeySettled(j, k) ==
  /\ j \in Iter
  /\ meta[j][k].iter = j
  /\ \A r \in Rank : KeyStored(r, j, k) /\ WontSubmit(r, j) /\ PastKey(r, j, k)

Settled(j) == \A k \in Key : KeySettled(j, k)

\* What rank r hands over is a milestone or the last iteration, and once.
Submits(r) ==
  /\ pc[r] \in Saving => MilestoneDue(iteration[r]) \/ iteration[r] = MaxIter
  /\ pc[r] \in Ending \ {"failed", "down"} => iteration[r] = MaxIter
  /\ staging[r] # None => /\ WontSubmit(r, staging[r])
                          /\ MilestoneDue(staging[r]) \/ staging[r] = MaxIter
  /\ pc[r] = "failed" => \/ iteration[r] = MaxIter
                         \/ MilestoneDue(iteration[r]) /\ staging[r] # iteration[r]

\* The dataloader file of what it has handed over, or is about to.
DataloaderWritten(r) ==
  StatefulDataloader =>
    /\ staging[r] # None => dataloader[staging[r]][r] = Saved(staging[r])
    /\ pc[r] = "stage" => dataloader[iteration[r]][r] = Saved(iteration[r])

\* The answer on the result queue is about the save that was staged last, and
\* what the background process has written is what it was given.
Writes(r) ==
  /\ Answered(r) => Head(recvQ[r]).iter = staging[r]
  /\ bgPhase[r] = "written" => shard[bgJob[r]][bgKey[r]][r] = Saved(bgJob[r])
  /\ bgPhase[r] \in {"pointer", "pointerText"} => r = Rank0

\* What a rank reports, or has left behind, is settled.
LeavesSettled(r) ==
  /\ Busy(r) => \A k \in Key : k < bgKey[r] => KeySettled(bgJob[r], k)
  /\ bgPhase[r] \in {"pointer", "pointerText"} => Settled(bgJob[r])
  /\ Answered(r) /\ Head(recvQ[r]).ok => Settled(Head(recvQ[r]).iter)
  /\ \A n \in 1..Len(confirmed[r]) : Settled(confirmed[r][n])

CommittedSettled ==
  committed[1] # None => \A k \in Key : k <= committed[2] => KeySettled(committed[1], k)

StoreInv ==
  /\ \A r \in Rank : Submits(r) /\ DataloaderWritten(r) /\ Writes(r) /\ LeavesSettled(r)
  /\ CommittedSettled

StoreInvariant == SlotInvariant /\ StoreInv

\* The pointer names something settled, unless a relaunch may save it again.
PointerSettled == pointer \in Iter /\ SavedOnce => Settled(pointer)

-----------------------------------------------------------------------------
(***************************************************************************)
(* Rank 0's saves and the pointer.                                         *)
(***************************************************************************)
\* The last save that rank 0 knows to be good is the one the pointer names.
PointerKnown ==
  /\ staging[Rank0] # None /\ ~inProgress[Rank0] /\ pc[Rank0] \notin {"failed", "down"} =>
       pointer = staging[Rank0]
  /\ Answered(Rank0) /\ Head(recvQ[Rank0]).ok => pointer = staging[Rank0]

ConfirmedKnown ==
  /\ pc[Rank0] # "down" => \A n \in 1..Len(confirmed[Rank0]) : confirmed[Rank0][n] <= staging[Rank0]
  /\ pointer # Truncated => \A n \in 1..Len(confirmed[Rank0]) : confirmed[Rank0][n] <= pointer

\* Past a milestone, and past the loop, the last save has been handed over.
HandedOver ==
  \/ pc[Rank0] \in {"train", "stepEnd"} /\ iteration[Rank0] > 0 /\ MilestoneDue(iteration[Rank0])
  \/ pc[Rank0] \in Ending \ {"failed", "down"}

LastHandedOver ==
  HandedOver => \/ staging[Rank0] = iteration[Rank0]
                \/ staging[Rank0] = None /\ pointer = iteration[Rank0]

EndQuiet ==
  /\ pc[Rank0] = "join" => ~inProgress[Rank0]
  /\ pc[Rank0] \in {"barrier", "done"} => ~inProgress[Rank0] \/ bgPhase[Rank0] = "dead"

\* The background process of rank 0 ends only when it has been told to, and
\* nothing is under way in a job that is down.
ExitsWhenTold ==
  /\ bgPhase[Rank0] = "exited" => pc[Rank0] \in {"join", "barrier", "done"}
  /\ pc[Rank0] = "down" => ~inProgress[Rank0]

\* The pointer is torn only while rank 0 has a save in progress.
TornWhileSaving ==
  pointer = Truncated /\ pc[Rank0] \notin {"failed", "down"} => inProgress[Rank0]

PointerInv == PointerKnown /\ ConfirmedKnown /\ LastHandedOver /\ EndQuiet /\ ExitsWhenTold

PointerInvariant == StoreInvariant /\ PointerInv

(* What a main process leaves alone, and the keys of other ranks. *)
LEMMA MainBackground ==
  ASSUME NEW r \in Rank, Main(r)
  PROVE  UNCHANGED <<bgPhase, bgJob, bgKey, committed, shard, meta, pointer, run>>
BY DEF Main, OptimizerStep, EndTraining, PollNothing, PollSuccess, PollFailure, WaitIdle,
   WaitSuccess, WaitFailure, WaitDeferred, WaitTimeout, LaunchExport, RaiseExportError, WriteDataloaderFails, JoinExport,
   WriteDataloader, StageAndSubmit, FinalizeDead, SendTerminate, Join, PassBarrier,
   bgVars, storeVars, envVars

LEMMA KeyFrame ==
  ASSUME TypeInv, NEW r \in Rank, NEW q \in Rank, q # r,
         Main(r) \/ Background(r) \/ (r = Rank0 /\ Coordinator) \/ BgDie(r)
  PROVE  bgKey'[q] = bgKey[q]
<1> USE DEF TypeInv, TypeOK
<1>1. CASE Main(r)
  BY <1>1, MainBackground
<1>2. CASE Background(r)
  BY <1>2 DEF Background, BgTake, BgTerminate, BgPlan, BgWrite, BgLeave, BgError, NextKey
<1>3. CASE r = Rank0 /\ Coordinator
  BY <1>3 DEF Coordinator, BgCommit, BgTruncatePointer, BgWritePointer, NextKey
<1>4. CASE BgDie(r)
  BY <1>4 DEF BgDie
<1> QED BY <1>1, <1>2, <1>3, <1>4

LEMMA InitStore == Init => StoreInv
<1> SUFFICES ASSUME Init PROVE StoreInv
  OBVIOUS
<1>1. ASSUME NEW r \in Rank
      PROVE  Submits(r) /\ DataloaderWritten(r) /\ Writes(r) /\ LeavesSettled(r)
  <2>1. /\ pc[r] = "train" /\ staging[r] = None /\ bgPhase[r] = "idle"
        /\ recvQ[r] = <<>> /\ confirmed[r] = <<>> /\ Len(confirmed[r]) = 0
    BY EmptySeq DEF Init
  <2> QED BY <2>1 DEF Submits, DataloaderWritten, Writes, LeavesSettled, Saving, Ending,
            Answered, Busy
<1>2. CommittedSettled
  BY DEF Init, CommittedSettled
<1> QED BY <1>1, <1>2 DEF StoreInv

(* A rank that has handed an iteration over, or has gone past it, does not  *)
(* come back to it while the job runs.                                      *)
LEMMA WontSubmitStays ==
  ASSUME TypeInv, [Next]_vars, ~Restart, NEW q \in Rank, NEW j \in Iter, WontSubmit(q, j)
  PROVE  WontSubmit(q, j)'
<1>1. ASSUME iteration'[q] = iteration[q],
             \/ pc'[q] = pc[q]
             \/ pc'[q] \in Ending
             \/ pc[q] \in Saving
             \/ pc'[q] \notin Saving /\ pc[q] \notin Ending
      PROVE  WontSubmit(q, j)'
  BY <1>1 DEF WontSubmit, Ending, Saving
<1>2. ASSUME UNCHANGED mainVars PROVE WontSubmit(q, j)'
  BY <1>1, <1>2 DEF mainVars
<1>3. CASE Main(q)
  <2> USE DEF TypeInv, TypeOK
  <2>1. CASE OptimizerStep(q)
    <3>1. iteration'[q] = iteration[q] + 1 /\ iteration[q] \in Int /\ j \in Int
      BY <2>1, ConstantTypes DEF OptimizerStep, Iter
    <3>2. iteration'[q] > j
      BY <3>1 DEF WontSubmit
    <3>3. iteration'[q] # j /\ iteration'[q] >= j
      BY <3>1, <3>2
    <3> QED BY <3>3 DEF WontSubmit
  <2>2. CASE EndTraining(q)
    <3>1. /\ iteration'[q] = iteration[q] /\ pc[q] = "train"
          /\ pc'[q] \in Ending \/ ~MilestoneDue(iteration[q])
      BY <2>2 DEF EndTraining, AfterLoop, Ending
    <3>2. CASE iteration[q] = j
      BY <3>1, <3>2, <1>1 DEF WontSubmit, Ending
    <3>3. CASE iteration[q] # j
      BY <3>1, <3>3 DEF WontSubmit
    <3> QED BY <3>2, <3>3
  <2>3. CASE PollNothing(q) \/ PollSuccess(q) \/ PollFailure(q)
    <3>1. iteration'[q] = iteration[q] /\ pc[q] = "stepEnd" /\ pc'[q] = "train"
      BY <2>3 DEF PollNothing, PollSuccess, PollFailure
    <3> QED BY <3>1, <1>1 DEF Saving, Ending
  <2>4. CASE WaitIdle(q) \/ WaitSuccess(q) \/ WaitFailure(q) \/ WaitDeferred(q) \/ WaitTimeout(q)
    <3>1. iteration'[q] = iteration[q]
      BY <2>4 DEF WaitIdle, WaitSuccess, WaitFailure, WaitDeferred, WaitTimeout
    <3>2. pc[q] = "save" \/ (pc[q] = "finalize" /\ pc'[q] \in {"terminate", "failed"})
      BY <2>4 DEF WaitIdle, WaitSuccess, WaitFailure, WaitDeferred, WaitTimeout, Waiting, AfterWait
    <3> QED BY <3>1, <3>2, <1>1 DEF Saving, Ending
  <2>5. CASE LaunchExport(q) \/ WriteDataloader(q) \/ StageAndSubmit(q)
    <3>1. iteration'[q] = iteration[q] /\ pc[q] \in Saving
      BY <2>5 DEF LaunchExport, WriteDataloader, StageAndSubmit, Saving
    <3> QED BY <3>1, <1>1
  <2>6. CASE \/ RaiseExportError(q) \/ WriteDataloaderFails(q) \/ JoinExport(q) \/ FinalizeDead(q) \/ SendTerminate(q)
             \/ Join(q) \/ PassBarrier(q)
    <3>1. iteration'[q] = iteration[q] /\ pc'[q] \in Ending
      BY <2>6 DEF RaiseExportError, WriteDataloaderFails, JoinExport, FinalizeDead, SendTerminate, Join, PassBarrier, Ending
    <3> QED BY <3>1, <1>1
  <2> QED BY <1>3, <2>1, <2>2, <2>3, <2>4, <2>5, <2>6 DEF Main
<1>4. ASSUME NEW r \in Rank, Main(r), r # q PROVE WontSubmit(q, j)'
  BY <1>1, <1>4, RankFrame DEF Local
<1>5. ASSUME NEW r \in Rank, Background(r) \/ BgDie(r) PROVE WontSubmit(q, j)'
  BY <1>2, <1>5 DEF Background, BgTake, BgTerminate, BgPlan, BgWrite, BgLeave, BgError, BgDie
<1>6. CASE Coordinator \/ Exporter \/ Fault \/ Stopped \/ UNCHANGED vars
  BY <1>2, <1>6 DEF Coordinator, BgCommit, BgTruncatePointer, BgWritePointer, Exporter, ExportDone,
     ExportFails, Fault, Stopped, vars
<1>7. CASE GatherWeights
  <2>1. pc[q] \in Saving /\ iteration'[q] = iteration[q]
    BY <1>7 DEF GatherWeights, Saving
  <2> QED BY <2>1, <1>1
<1>8. CASE KillAll
  BY <1>1, <1>8 DEF KillAll, Ending
<1> QED BY <1>3, <1>4, <1>5, <1>6, <1>7, <1>8 DEF Next, Environment, Crash, Teardown

(* Nor does one that is past a key come back to it.                         *)
LEMMA PastKeyStays ==
  ASSUME SlotInvariant, [Next]_vars, ~Restart, NEW q \in Rank, NEW j \in Iter, NEW k \in Key,
         WontSubmit(q, j), PastKey(q, j, k)
  PROVE  PastKey(q, j, k)'
<1>1. ASSUME staging'[q] = staging[q], Queued(q)' => Queued(q),
             UNCHANGED <<bgPhase[q], bgKey[q]>> \/ ~Busy(q)'
      PROVE  PastKey(q, j, k)'
  BY <1>1 DEF PastKey, Busy
<1>2. ASSUME staging'[q] = staging[q], sendQ'[q] = sendQ[q],
             Busy(q) /\ (bgKey'[q] > bgKey[q] \/ (bgKey'[q] = bgKey[q]
               /\ (bgPhase[q] \in {"plan", "write"} \/ bgPhase'[q] \in {"written", "pointer", "pointerText"})))
      PROVE  PastKey(q, j, k)'
  <2>1. bgKey[q] \in Int /\ bgKey'[q] \in Int /\ k \in Int
    <3>1. bgKey' \in [Rank -> Key]
      BY NextType DEF SlotInvariant, TypeInv, TypeOK
    <3>2. bgKey \in [Rank -> Key]
      BY DEF SlotInvariant, TypeInv, TypeOK
    <3> QED BY <3>1, <3>2 DEF Key
  <2> SUFFICES ASSUME staging'[q] = j
               PROVE  ~Queued(q)' /\ (\/ bgKey'[q] > k
                                      \/ bgKey'[q] = k /\ bgPhase'[q] \in {"written", "pointer", "pointerText"})
    BY DEF PastKey
  <2>2. ~Queued(q)
    BY <1>2 DEF PastKey
  <2>3. ~Queued(q)'
    BY <1>2, <2>2 DEF Queued
  <2>4. bgKey[q] > k \/ (bgKey[q] = k /\ bgPhase[q] \in {"written", "pointer", "pointerText"})
    <3>1. staging[q] = j /\ Busy(q)
      BY <1>2
    <3> QED BY <2>1, <3>1 DEF PastKey, Busy
  <2>5. CASE bgKey[q] > k
    BY <1>2, <2>1, <2>3, <2>5
  <2>6. CASE bgKey[q] = k /\ bgPhase[q] \in {"written", "pointer", "pointerText"}
    <3>1. CASE bgKey'[q] > bgKey[q]
      BY <2>1, <2>3, <2>6, <3>1
    <3>2. CASE ~(bgKey'[q] > bgKey[q])
      BY <1>2, <2>3, <2>6, <3>2
    <3> QED BY <3>1, <3>2
  <2> QED BY <2>4, <2>5, <2>6
<1> USE DEF SlotInvariant, TypeInv, TypeOK
<1>3. CASE Main(q)
  <2>1. UNCHANGED <<bgPhase, bgKey>>
    BY <1>3, MainBackground
  <2>2. CASE StageAndSubmit(q)
    <3>1. staging'[q] = iteration[q] /\ pc[q] \in Saving
      BY <2>2 DEF StageAndSubmit, Saving
    <3>2. staging'[q] # j
      BY <3>1 DEF WontSubmit
    <3> QED BY <3>2 DEF PastKey
  <2>3. CASE SendTerminate(q)
    <3>1. Queued(q)' => Queued(q)
      <4>1. sendQ[q] \in Seq(0..MaxIter) /\ Terminate \in 0..MaxIter
        BY ConstantTypes DEF Terminate
      <4>2. sendQ'[q] = Append(sendQ[q], Terminate)
        BY <2>3 DEF SendTerminate
      <4>3. CASE sendQ[q] = <<>>
        BY <4>1, <4>2, <4>3, AppendToNone DEF Queued
      <4>4. CASE sendQ[q] # <<>>
        <5>1. Head(sendQ'[q]) = Head(sendQ[q])
          BY <4>1, <4>2, <4>4, AppendProperties
        <5> QED BY <4>4, <5>1 DEF Queued
      <4> QED BY <4>3, <4>4
    <3>2. staging'[q] = staging[q]
      BY <2>3 DEF SendTerminate
    <3> QED BY <2>1, <3>1, <3>2, <1>1
  <2>4. CASE ~StageAndSubmit(q) /\ ~SendTerminate(q)
    <3>1. UNCHANGED <<staging, sendQ>>
      BY <1>3, <2>4 DEF Main, OptimizerStep, EndTraining, PollNothing, PollSuccess, PollFailure,
         WaitIdle, WaitSuccess, WaitFailure, WaitDeferred, WaitTimeout, LaunchExport, RaiseExportError, WriteDataloaderFails,
         JoinExport, WriteDataloader, FinalizeDead, Join, PassBarrier
    <3> QED BY <2>1, <3>1, <1>1 DEF Queued
  <2> QED BY <2>2, <2>3, <2>4
<1>4. CASE Background(q)
  <2> USE DEF mainVars
  <2>1. CASE BgTake(q)
    <3>1. staging[q] # j /\ staging' = staging
      BY <2>1 DEF BgTake, Queued, PastKey
    <3> QED BY <3>1 DEF PastKey
  <2>2. CASE BgTerminate(q)
    <3>1. sendQ'[q] = <<>>
      BY <2>2, TailOfOne DEF BgTerminate, SlotInv, OnePlace
    <3>2. bgPhase'[q] = "exited" /\ staging' = staging
      BY <2>2 DEF BgTerminate
    <3> QED BY <3>1, <3>2, <1>1 DEF Queued, Busy
  <2>3. CASE BgPlan(q) \/ BgWrite(q)
    <3>1. /\ bgPhase[q] \in {"plan", "write"} /\ UNCHANGED <<staging, sendQ, bgKey>>
      BY <2>3 DEF BgPlan, BgWrite
    <3> QED BY <3>1, <1>2 DEF Busy
  <2>4. CASE BgLeave(q)
    <3>1. bgPhase[q] = "written" /\ UNCHANGED <<staging, sendQ>>
      BY <2>4 DEF BgLeave
    <3>2. CASE NextKey(q)
      <4>1. bgKey'[q] = bgKey[q] + 1 /\ bgKey[q] \in Int
        BY <3>2 DEF NextKey, Key
      <4>2. bgKey'[q] > bgKey[q]
        BY <4>1
      <4> QED BY <3>1, <4>2, <1>2 DEF Busy
    <3>3. CASE Report(q, TRUE)
      BY <3>1, <3>3, <1>1 DEF Report, Busy, Queued
    <3> QED BY <2>4, <3>2, <3>3 DEF BgLeave
  <2>5. CASE BgError(q)
    BY <2>5, <1>1 DEF BgError, Report, Busy, Queued
  <2> QED BY <1>4, <2>1, <2>2, <2>3, <2>4, <2>5 DEF Background
<1>5. CASE q = Rank0 /\ Coordinator
  <2> USE DEF mainVars
  <2>1. CASE BgCommit
    <3>1. bgPhase[q] = "written" /\ UNCHANGED <<staging, sendQ>> /\ bgKey[q] \in Int
      BY <2>1, <1>5 DEF BgCommit, Key
    <3>2. CASE NextKey(Rank0)
      <4>1. bgKey'[q] = bgKey[q] + 1
        BY <1>5, <3>2 DEF NextKey
      <4>2. bgKey'[q] > bgKey[q]
        BY <3>1, <4>1
      <4> QED BY <3>1, <4>2, <1>2 DEF Busy
    <3>3. CASE bgPhase' = [bgPhase EXCEPT ![Rank0] = "pointer"] /\ UNCHANGED bgKey
      BY <1>5, <3>1, <3>3, <1>2 DEF Busy
    <3> QED BY <2>1, <3>2, <3>3 DEF BgCommit
  <2>2. CASE BgTruncatePointer
    <3>1. /\ bgPhase[q] = "pointer" /\ bgPhase'[q] = "pointerText"
          /\ UNCHANGED <<staging, sendQ, bgKey>>
      BY <2>2, <1>5 DEF BgTruncatePointer
    <3> QED BY <3>1, <1>2 DEF Busy
  <2>3. CASE BgWritePointer
    BY <2>3, <1>5, <1>1 DEF BgWritePointer, Report, Busy, Queued
  <2> QED BY <1>5, <2>1, <2>2, <2>3 DEF Coordinator
<1>6. CASE BgDie(q)
  BY <1>6, <1>1 DEF BgDie, Busy, Queued, mainVars
<1>7. ASSUME NEW r \in Rank, r # q,
             Main(r) \/ Background(r) \/ (r = Rank0 /\ Coordinator) \/ BgDie(r)
      PROVE  PastKey(q, j, k)'
  <2>1. UNCHANGED Local(q)
    BY <1>7, RankFrame
  <2>2. bgKey'[q] = bgKey[q]
    BY <1>7, KeyFrame
  <2> QED BY <2>1, <2>2, <1>1 DEF Local, Queued
<1>8. CASE GatherWeights \/ Exporter \/ Fault \/ Stopped \/ UNCHANGED vars
  BY <1>8, <1>1 DEF GatherWeights, Exporter, ExportDone, ExportFails, Fault, Stopped, vars, mainVars,
     bgVars, Queued
<1>9. CASE KillAll
  BY <1>9 DEF KillAll, PastKey, Queued, Busy
<1> QED BY <1>3, <1>4, <1>5, <1>6, <1>7, <1>8, <1>9, RankAssumption
        DEF Next, Environment, Crash, Teardown

(* Rank 0 writes a key's metadata when all ranks have written their shard,  *)
(* so that the key is settled from then on.                                 *)
LEMMA CommitSettles ==
  ASSUME StoreInvariant, BgCommit, NEW j, NEW k, j = bgJob[Rank0], k = bgKey[Rank0]
  PROVE  KeySettled(j, k)'
<1> USE RankAssumption DEF StoreInvariant, SlotInvariant, TypeInv, TypeOK
<1>1. j \in Iter /\ k \in Key /\ j # None /\ bgJob' = bgJob
  BY DEF BgCommit, JobIsIteration, Busy, Iter, None
<1>2. ASSUME NEW r \in Rank
      PROVE  /\ bgJob[r] = j /\ bgKey[r] = k /\ bgPhase[r] = "written"
             /\ staging[r] = j /\ ~Queued(r) /\ Busy(r)
  <2>1. bgJob[r] = j /\ bgKey[r] = k /\ bgPhase[r] = "written"
    BY DEF BgCommit, AllWritten, AllIn
  <2>2. OnePlace(r) /\ HoldsStaged(r)
    BY DEF SlotInv
  <2> QED BY <2>1, <2>2 DEF OnePlace, HoldsStaged, Busy
<1>3. /\ meta'[j][k] = Saved(j)
      /\ shard' = shard /\ dataloader' = dataloader /\ run' = run
  <2>1. meta' = [meta EXCEPT ![j][k] = Saved(j)]
    BY DEF BgCommit
  <2>2. meta'[j] = [meta[j] EXCEPT ![k] = Saved(j)]
    BY <1>1, <2>1
  <2>3. meta[j] \in [Key -> Content]
    BY <1>1
  <2>4. meta'[j][k] = Saved(j)
    BY <1>1, <2>2, <2>3
  <2> QED BY <2>4 DEF BgCommit, envVars
<1>4. \A r \in Rank : KeyStored(r, j, k)'
  <2>1. ASSUME NEW r \in Rank
        PROVE  /\ shard[j][k][r] = Saved(j)
               /\ StatefulDataloader => dataloader[j][r] = Saved(j)
    <3>1. Writes(r) /\ DataloaderWritten(r)
      BY DEF StoreInv
    <3> QED BY <1>1, <1>2, <3>1 DEF Writes, DataloaderWritten
  <2>2. ASSUME NEW r \in Rank
        PROVE  KeyStored(r, j, k)'
    BY <1>1, <1>3, <2>1 DEF KeyStored
  <2> QED BY <2>2
<1>5. \A r \in Rank : WontSubmit(r, j)'
  <2>1. ASSUME NEW r \in Rank
        PROVE  WontSubmit(r, j)'
    <3>1. WontSubmit(r, j)
      BY <1>1, <1>2 DEF StoreInv, Submits
    <3> QED BY <1>1, <3>1 DEF WontSubmit, BgCommit, mainVars
  <2> QED BY <2>1
<1>6. \A r \in Rank : PastKey(r, j, k)'
  <2>1. ASSUME NEW r \in Rank
        PROVE  PastKey(r, j, k)'
    <3>1. staging'[r] = j /\ sendQ'[r] = sendQ[r] /\ ~Queued(r)'
      BY <1>2 DEF BgCommit, mainVars, Queued
    <3>2. CASE NextKey(Rank0)
      <4>1. CASE r = Rank0
        <5>1. bgKey'[r] = k + 1 /\ k \in Int
          BY <1>1, <3>2, <4>1 DEF NextKey, Key
        <5>2. bgKey'[r] > k
          BY <5>1
        <5> QED BY <1>1, <3>1, <5>2 DEF PastKey
      <4>2. CASE r # Rank0
        <5>1. bgKey'[r] = k /\ bgPhase'[r] = "written"
          BY <1>2, <3>2, <4>2 DEF NextKey
        <5> QED BY <1>1, <3>1, <5>1 DEF PastKey
      <4> QED BY <4>1, <4>2
    <3>3. CASE bgPhase' = [bgPhase EXCEPT ![Rank0] = "pointer"] /\ UNCHANGED bgKey
      <4>1. bgKey'[r] = k /\ bgPhase'[r] \in {"written", "pointer"}
        BY <1>2, <3>3
      <4> QED BY <1>1, <3>1, <4>1 DEF PastKey
    <3> QED BY <3>2, <3>3 DEF BgCommit
  <2> QED BY <2>1
<1>7. meta'[j][k].iter = j
  BY <1>3 DEF Saved
<1> QED BY <1>1, <1>4, <1>5, <1>6, <1>7 DEF KeySettled

(* Only these four steps touch shards, metadata or dataloader files. *)
LEMMA StorageFrame ==
  ASSUME [Next]_vars, ~BgCommit,
         \A q \in Rank : ~WriteDataloader(q) /\ ~BgPlan(q) /\ ~BgWrite(q)
  PROVE  UNCHANGED <<shard, meta, dataloader>>
<1> USE DEF storeVars
<1>1. ASSUME NEW q \in Rank, Main(q) PROVE UNCHANGED <<shard, meta, dataloader>>
  BY <1>1 DEF Main, OptimizerStep, EndTraining, PollNothing, PollSuccess, PollFailure, WaitIdle,
     WaitSuccess, WaitFailure, WaitDeferred, WaitTimeout, LaunchExport, RaiseExportError, WriteDataloaderFails, JoinExport,
     StageAndSubmit, FinalizeDead, SendTerminate, Join, PassBarrier
<1>2. ASSUME NEW q \in Rank, Background(q) \/ BgDie(q) PROVE UNCHANGED <<shard, meta, dataloader>>
  BY <1>2 DEF Background, BgTake, BgTerminate, BgLeave, BgError, BgDie
<1>3. CASE GatherWeights \/ Exporter \/ Coordinator
  BY <1>3 DEF GatherWeights, Exporter, ExportDone, ExportFails, Coordinator, BgTruncatePointer,
     BgWritePointer
<1>4. CASE Fault \/ Crash \/ Teardown \/ Restart \/ Stopped \/ UNCHANGED vars
  BY <1>4 DEF Fault, Crash, Teardown, KillAll, Restart, Stopped, vars
<1> QED BY <1>1, <1>2, <1>3, <1>4 DEF Next, Environment

(* The main step of the argument: a settled key stays settled while the job  *)
(* runs, whatever the ranks, the background processes and the faults do.     *)
LEMMA KeySettledStays ==
  ASSUME StoreInvariant, [Next]_vars, ~Restart, NEW j, NEW k \in Key, KeySettled(j, k)
  PROVE  KeySettled(j, k)'
<1> USE DEF StoreInvariant, SlotInvariant, TypeInv, TypeOK
<1>1. j \in Iter /\ \A r \in Rank : WontSubmit(r, j)' /\ PastKey(r, j, k)'
  BY WontSubmitStays, PastKeyStays DEF KeySettled
<1>2. ASSUME meta'[j][k] = meta[j][k], \A r \in Rank : shard'[j][k][r] = shard[j][k][r],
             \A r \in Rank : dataloader'[j][r] = dataloader[j][r]
      PROVE  KeySettled(j, k)'
  BY <1>1, <1>2 DEF KeySettled, KeyStored
<1>3. ASSUME NEW q \in Rank, WriteDataloader(q) PROVE KeySettled(j, k)'
  <2>1. iteration[q] # j
    BY <1>3 DEF KeySettled, WontSubmit, WriteDataloader, Saving
  <2>2. dataloader' = [dataloader EXCEPT ![iteration[q]][q] = Saved(iteration[q])]
        /\ UNCHANGED <<shard, meta>>
    BY <1>3 DEF WriteDataloader
  <2>3. dataloader'[j] = dataloader[j]
    BY <1>1, <2>1, <2>2
  <2> QED BY <2>2, <2>3, <1>2
<1>4. ASSUME NEW q \in Rank, BgPlan(q) \/ BgWrite(q) PROVE KeySettled(j, k)'
  <2>1. Busy(q) /\ bgPhase[q] \notin {"written", "pointer", "pointerText"}
    BY <1>4 DEF BgPlan, BgWrite, Busy
  <2>2. staging[q] = bgJob[q]
    BY <2>1 DEF SlotInv, HoldsStaged
  <2>3. bgJob[q] = j => bgKey[q] # k
    <3>1. bgJob[q] = j => bgKey[q] > k
      BY <2>1, <2>2 DEF KeySettled, PastKey
    <3>2. bgKey[q] \in Int /\ k \in Int
      BY DEF Key
    <3> QED BY <3>1, <3>2
  <2>4. bgJob[q] \in Iter /\ bgKey[q] \in Key
    BY <2>1 DEF JobIsIteration
  <2>5. UNCHANGED <<meta, dataloader>>
    BY <1>4 DEF BgPlan, BgWrite
  <2>6. \/ shard' = shard
        \/ \E c : shard' = [shard EXCEPT ![bgJob[q]][bgKey[q]][q] = c]
    BY <1>4 DEF BgPlan, BgWrite
  <2>7. shard'[j][k] = shard[j][k]
    <3>1. ASSUME NEW c, shard' = [shard EXCEPT ![bgJob[q]][bgKey[q]][q] = c]
          PROVE  shard'[j][k] = shard[j][k]
      <4>1. CASE bgJob[q] # j
        BY <1>1, <3>1, <4>1
      <4>2. CASE bgJob[q] = j
        <5>1. shard'[j] = [shard[j] EXCEPT ![bgKey[q]][q] = c]
          BY <1>1, <3>1, <4>2
        <5>2. shard[j] \in [Key -> [Rank -> Content]]
          BY <1>1
        <5> QED BY <5>1, <5>2, <2>3, <4>2
      <4> QED BY <4>1, <4>2
    <3> QED BY <2>6, <3>1
  <2> QED BY <2>5, <2>7, <1>2
<1>5. CASE BgCommit
  <2>1. CASE j = bgJob[Rank0] /\ k = bgKey[Rank0]
    BY <1>5, <2>1, CommitSettles
  <2>2. CASE j # bgJob[Rank0] \/ k # bgKey[Rank0]
    <3>1. UNCHANGED <<shard, dataloader>>
      BY <1>5 DEF BgCommit
    <3>2. meta' = [meta EXCEPT ![bgJob[Rank0]][bgKey[Rank0]] = Saved(bgJob[Rank0])]
      BY <1>5 DEF BgCommit
    <3>3. meta'[j][k] = meta[j][k]
      <4>1. CASE bgJob[Rank0] # j
        BY <1>1, <3>2, <4>1
      <4>2. CASE bgJob[Rank0] = j
        <5>1. meta'[j] = [meta[j] EXCEPT ![bgKey[Rank0]] = Saved(bgJob[Rank0])]
          BY <1>1, <3>2, <4>2
        <5>2. meta[j] \in [Key -> Content]
          BY <1>1
        <5> QED BY <5>1, <5>2, <2>2, <4>2
      <4> QED BY <4>1, <4>2
    <3> QED BY <3>1, <3>3, <1>2
  <2> QED BY <2>1, <2>2
<1>6. CASE ~BgCommit /\ \A q \in Rank : ~WriteDataloader(q) /\ ~BgPlan(q) /\ ~BgWrite(q)
  BY <1>6, <1>2, StorageFrame
<1> QED BY <1>3, <1>4, <1>5, <1>6

(* A save is handed over at a milestone or at the end, and a rank that fails *)
(* in between does so before it has staged the iteration it is at.           *)
LEMMA MainSubmits ==
  ASSUME SlotInvariant, NEW r \in Rank, Main(r), [Next]_vars, ~Restart, Submits(r)
  PROVE  Submits(r)'
<1> USE DEF SlotInvariant, TypeInv, TypeOK
<1>1. /\ iteration[r] \in Nat /\ iteration[r] <= MaxIter /\ MaxIter \in Nat
      /\ staging[r] \in 0..MaxIter
      /\ pc[r] \in Saving => iteration[r] \in Iter
  <2>1. pc[r] \in Saving => iteration[r] # 0
    BY DEF SlotInv, SubmitsIteration, Saving, Terminate
  <2> QED BY <2>1, ConstantTypes DEF Iter
<1>2. staging[r] # None => staging[r] \in Iter /\ WontSubmit(r, staging[r])
  BY <1>1 DEF Submits, Iter, None
<1>3. pc[r] \in Saving => staging[r] # iteration[r]
  BY <1>1, <1>2 DEF WontSubmit, Iter, None
<1>4. ASSUME staging'[r] = staging[r]
      PROVE  staging'[r] # None => /\ WontSubmit(r, staging[r])'
                                   /\ MilestoneDue(staging'[r]) \/ staging'[r] = MaxIter
  <2>1. ASSUME NEW j \in Iter, staging[r] = j PROVE WontSubmit(r, j)'
    <3>1. j # None
      BY DEF Iter, None
    <3>2. WontSubmit(r, j)
      BY <1>2, <2>1, <3>1
    <3>3. TypeInv
      OBVIOUS
    <3> HIDE DEF TypeInv
    <3> QED BY <3>2, <3>3, WontSubmitStays
  <2>2. ASSUME NEW j \in Iter, staging[r] = j PROVE WontSubmit(r, staging[r])'
    BY <1>4, <2>1, <2>2 DEF WontSubmit
  <2> QED BY <1>2, <1>4, <2>2 DEF Submits
<1>5. CASE OptimizerStep(r)
  <2>1. /\ pc'[r] = IF MilestoneDue(iteration[r] + 1) THEN "save" ELSE "stepEnd"
        /\ iteration'[r] = iteration[r] + 1 /\ staging'[r] = staging[r]
    BY <1>5 DEF OptimizerStep
  <2> QED BY <1>4, <2>1 DEF Submits, Saving, Ending
<1>6. CASE EndTraining(r)
  <2>1. /\ pc'[r] \in {"save", "trainEnd", "finalize"}
        /\ iteration'[r] = MaxIter /\ staging'[r] = staging[r]
    BY <1>1, <1>6 DEF EndTraining, AfterLoop
  <2> QED BY <1>4, <2>1 DEF Submits
<1>7. CASE PollNothing(r) \/ PollSuccess(r) \/ PollFailure(r)
  <2>1. pc'[r] = "train" /\ staging'[r] = staging[r]
    BY <1>7 DEF PollNothing, PollSuccess, PollFailure
  <2> QED BY <1>4, <2>1 DEF Submits, Saving, Ending
<1>8. CASE WaitIdle(r) \/ WaitSuccess(r)
  <2>1. /\ iteration'[r] = iteration[r] /\ staging'[r] = staging[r]
        /\ \/ pc[r] = "finalize" /\ pc'[r] = "terminate"
           \/ pc[r] = "save" /\ pc'[r] \in {"export", "dataloader", "stage"}
    BY <1>8 DEF WaitIdle, WaitSuccess, Waiting, AfterWait, AfterExport
  <2> QED BY <1>4, <2>1 DEF Submits, Saving, Ending
<1>9. CASE WaitFailure(r) \/ WaitDeferred(r) \/ WaitTimeout(r) \/ RaiseExportError(r) \/ WriteDataloaderFails(r)
  <2>1. /\ iteration'[r] = iteration[r] /\ staging'[r] = staging[r] /\ pc'[r] = "failed"
        /\ pc[r] \in {"save", "finalize", "launch", "trainEnd", "dataloader"}
    BY <1>9 DEF WaitFailure, WaitDeferred, WaitTimeout, RaiseExportError, WriteDataloaderFails, Waiting
  <2>2. \/ iteration'[r] = MaxIter
        \/ MilestoneDue(iteration'[r]) /\ staging'[r] # iteration'[r]
    BY <1>3, <2>1 DEF Submits, Saving, Ending
  <2> QED BY <1>4, <2>1, <2>2 DEF Submits, Saving, Ending
<1>10. CASE LaunchExport(r) \/ WriteDataloader(r)
  <2>1. /\ iteration'[r] = iteration[r] /\ staging'[r] = staging[r]
        /\ pc[r] \in Saving /\ pc'[r] \in {"dataloader", "stage"}
    BY <1>10 DEF LaunchExport, WriteDataloader, AfterExport, Saving
  <2> QED BY <1>4, <2>1 DEF Submits, Saving, Ending
<1>11. CASE StageAndSubmit(r)
  <2>1. /\ iteration'[r] = iteration[r] /\ staging'[r] = iteration[r] /\ pc[r] = "stage"
        /\ \/ MilestoneDue(iteration[r]) /\ pc'[r] = "stepEnd"
           \/ ~MilestoneDue(iteration[r]) /\ pc'[r] \in {"trainEnd", "finalize"}
    BY <1>11 DEF StageAndSubmit, AfterLoop
  <2>2. MilestoneDue(iteration[r]) \/ iteration[r] = MaxIter
    BY <2>1 DEF Submits, Saving
  <2>3. WontSubmit(r, staging[r])'
    BY <1>1, <2>1 DEF WontSubmit, Saving, Ending
  <2> QED BY <2>1, <2>2, <2>3 DEF Submits, Saving, Ending
<1>12. CASE JoinExport(r) \/ FinalizeDead(r) \/ SendTerminate(r) \/ Join(r) \/ PassBarrier(r)
  <2>1. /\ iteration'[r] = iteration[r] /\ staging'[r] = staging[r]
        /\ pc[r] \in Ending \ {"failed", "down"} /\ pc'[r] \in Ending \ {"failed", "down"}
    BY <1>12 DEF JoinExport, FinalizeDead, SendTerminate, Join, PassBarrier, Ending
  <2> QED BY <1>4, <2>1 DEF Submits, Saving, Ending
<1> QED BY <1>5, <1>6, <1>7, <1>8, <1>9, <1>10, <1>11, <1>12 DEF Main

(* What the invariant reads of a rank that did not step. *)
LEMMA SubmitsStays ==
  ASSUME NEW r \in Rank, UNCHANGED <<pc[r], iteration[r], staging[r]>>, Submits(r)
  PROVE  Submits(r)'
BY DEF Submits, WontSubmit

LEMMA NextSubmits ==
  ASSUME StoreInvariant, [Next]_vars, NEW q \in Rank
  PROVE  Submits(q)'
<1> USE DEF StoreInvariant, SlotInvariant, TypeInv, TypeOK
<1>1. Submits(q)
  BY DEF StoreInv
<1>2. ASSUME NEW r \in Rank, Main(r) PROVE Submits(q)'
  <2>1. CASE Restart
    BY <2>1 DEF Restart, Submits, Saving, Ending
  <2>2. CASE q = r /\ ~Restart
    BY <1>1, <1>2, <2>2, MainSubmits
  <2>3. CASE q # r
    BY <1>1, <1>2, <2>3, RankFrame, SubmitsStays DEF Local
  <2> QED BY <2>1, <2>2, <2>3
<1>3. ASSUME NEW r \in Rank, Background(r) \/ BgDie(r) PROVE Submits(q)'
  BY <1>1, <1>3, SubmitsStays
     DEF Background, BgTake, BgTerminate, BgPlan, BgWrite, BgLeave, BgError, BgDie, mainVars
<1>4. CASE Coordinator \/ Exporter \/ Fault \/ Stopped \/ UNCHANGED vars
  BY <1>1, <1>4, SubmitsStays DEF Coordinator, BgCommit, BgTruncatePointer, BgWritePointer, Exporter,
     ExportDone, ExportFails, Fault, Stopped, vars, mainVars
<1>5. CASE GatherWeights
  <2>1. /\ pc[q] = "export" /\ pc'[q] \in {"launch", "dataloader", "stage"}
        /\ UNCHANGED <<iteration, staging>>
    BY <1>5 DEF GatherWeights, AfterExport
  <2>2. staging[q] # iteration[q] \/ staging[q] = None
    BY <1>1, <2>1 DEF Submits, WontSubmit, Saving
  <2>3. staging[q] # None => WontSubmit(q, staging[q])'
    BY <1>1, <2>1, <2>2 DEF Submits, WontSubmit
  <2> QED BY <1>1, <2>1, <2>3 DEF Submits, Saving, Ending
<1>6. CASE KillAll
  BY <1>6 DEF KillAll, Submits, Saving, Ending
<1>7. CASE Restart
  BY <1>7 DEF Restart, Submits, Saving, Ending
<1> QED BY <1>2, <1>3, <1>4, <1>5, <1>6, <1>7 DEF Next, Environment, Crash, Teardown

(* A rank's dataloader file and shards are its own. *)
LEMMA DataloaderRow ==
  ASSUME TypeInv, [Next]_vars, NEW q \in Rank, ~WriteDataloader(q), NEW i \in Iter
  PROVE  dataloader'[i][q] = dataloader[i][q]
<1> USE DEF TypeInv, TypeOK
<1>1. ASSUME NEW r \in Rank, WriteDataloader(r) PROVE dataloader'[i][q] = dataloader[i][q]
  <2>1. dataloader' = [dataloader EXCEPT ![iteration[r]][r] = Saved(iteration[r])] /\ q # r
    BY <1>1 DEF WriteDataloader
  <2>2. CASE iteration[r] = i
    <3>1. dataloader'[i] = [dataloader[i] EXCEPT ![r] = Saved(iteration[r])]
      BY <2>1, <2>2
    <3> QED BY <2>1, <3>1
  <2>3. CASE iteration[r] # i
    BY <2>1, <2>3
  <2> QED BY <2>2, <2>3
<1>2. ASSUME NEW r \in Rank, BgPlan(r) \/ BgWrite(r) PROVE dataloader'[i][q] = dataloader[i][q]
  BY <1>2 DEF BgPlan, BgWrite
<1>3. CASE BgCommit
  BY <1>3 DEF BgCommit
<1> QED BY <1>1, <1>2, <1>3, StorageFrame

LEMMA ShardRow ==
  ASSUME TypeInv, [Next]_vars, NEW q \in Rank, ~BgPlan(q), ~BgWrite(q), NEW i \in Iter, NEW k \in Key
  PROVE  shard'[i][k][q] = shard[i][k][q]
<1> USE DEF TypeInv, TypeOK
<1>1. ASSUME NEW r \in Rank, BgPlan(r) \/ BgWrite(r) PROVE shard'[i][k][q] = shard[i][k][q]
  <2>1. q # r /\ (shard' = shard \/ \E c : shard' = [shard EXCEPT ![bgJob[r]][bgKey[r]][r] = c])
    BY <1>1 DEF BgPlan, BgWrite
  <2>2. ASSUME NEW c, shard' = [shard EXCEPT ![bgJob[r]][bgKey[r]][r] = c]
        PROVE  shard'[i][k][q] = shard[i][k][q]
    <3>1. CASE bgJob[r] # i
      BY <2>2, <3>1
    <3>2. CASE bgJob[r] = i
      <4>1. shard'[i] = [shard[i] EXCEPT ![bgKey[r]][r] = c]
        BY <2>2, <3>2
      <4>2. shard[i] \in [Key -> [Rank -> Content]]
        OBVIOUS
      <4>3. CASE bgKey[r] # k
        BY <4>1, <4>2, <4>3
      <4>4. CASE bgKey[r] = k
        <5>1. shard'[i][k] = [shard[i][k] EXCEPT ![r] = c]
          BY <4>1, <4>2, <4>4
        <5> QED BY <2>1, <4>2, <5>1
      <4> QED BY <4>3, <4>4
    <3> QED BY <3>1, <3>2
  <2> QED BY <2>1, <2>2
<1>2. ASSUME NEW r \in Rank, WriteDataloader(r) PROVE shard'[i][k][q] = shard[i][k][q]
  BY <1>2 DEF WriteDataloader
<1>3. CASE BgCommit
  BY <1>3 DEF BgCommit
<1> QED BY <1>1, <1>2, <1>3, StorageFrame

LEMMA RunStays ==
  ASSUME [Next]_vars, ~Restart
  PROVE  run' = run
<1> USE DEF envVars
<1>1. ASSUME NEW r \in Rank, Main(r) PROVE run' = run
  BY <1>1, MainBackground
<1>2. ASSUME NEW r \in Rank, Background(r) \/ BgDie(r) PROVE run' = run
  BY <1>2 DEF Background, BgTake, BgTerminate, BgPlan, BgWrite, BgLeave, BgError, BgDie
<1>3. CASE GatherWeights \/ Exporter \/ Coordinator
  BY <1>3 DEF GatherWeights, Exporter, ExportDone, ExportFails, Coordinator, BgCommit,
     BgTruncatePointer, BgWritePointer
<1>4. CASE Fault \/ Crash \/ Teardown \/ Stopped \/ UNCHANGED vars
  BY <1>4 DEF Fault, Crash, Teardown, KillAll, Stopped, vars
<1> QED BY <1>1, <1>2, <1>3, <1>4 DEF Next, Environment

(* The only ways into the last step of a save, with a stateful dataloader. *)
LEMMA StageStep ==
  ASSUME TypeInv, [Next]_vars, ~Restart, NEW q \in Rank
  PROVE  /\ \/ staging'[q] = staging[q]
            \/ staging'[q] = None
            \/ StageAndSubmit(q)
         /\ StatefulDataloader /\ pc'[q] = "stage" =>
              \/ WriteDataloader(q)
              \/ pc[q] = "stage" /\ iteration'[q] = iteration[q]
<1> USE DEF TypeInv, TypeOK
<1>1. ASSUME UNCHANGED <<pc[q], iteration[q], staging[q]>>
      PROVE  /\ staging'[q] = staging[q]
             /\ pc'[q] = "stage" => pc[q] = "stage" /\ iteration'[q] = iteration[q]
  BY <1>1
<1>2. CASE Main(q)
  <2>1. CASE OptimizerStep(q) \/ EndTraining(q) \/ PollNothing(q) \/ PollSuccess(q) \/ PollFailure(q)
    BY <2>1 DEF OptimizerStep, EndTraining, AfterLoop, PollNothing, PollSuccess, PollFailure
  <2>2. CASE WaitIdle(q) \/ WaitSuccess(q)
    BY <2>2 DEF WaitIdle, WaitSuccess, AfterWait, AfterExport
  <2>3. CASE WaitFailure(q) \/ WaitDeferred(q) \/ WaitTimeout(q) \/ RaiseExportError(q) \/ WriteDataloaderFails(q)
    BY <2>3 DEF WaitFailure, WaitDeferred, WaitTimeout, RaiseExportError, WriteDataloaderFails
  <2>4. CASE LaunchExport(q) \/ WriteDataloader(q) \/ StageAndSubmit(q)
    BY <2>4 DEF LaunchExport, AfterExport, AfterLoop, WriteDataloader, StageAndSubmit
  <2>5. CASE JoinExport(q) \/ FinalizeDead(q) \/ SendTerminate(q) \/ Join(q) \/ PassBarrier(q)
    BY <2>5 DEF JoinExport, FinalizeDead, SendTerminate, Join, PassBarrier
  <2> QED BY <1>2, <2>1, <2>2, <2>3, <2>4, <2>5 DEF Main
<1>3. ASSUME NEW r \in Rank, r # q, Main(r) PROVE UNCHANGED <<pc[q], iteration[q], staging[q]>>
  BY <1>3, RankFrame DEF Local
<1>4. ASSUME NEW r \in Rank, Background(r) \/ BgDie(r)
      PROVE  UNCHANGED <<pc[q], iteration[q], staging[q]>>
  BY <1>4 DEF Background, BgTake, BgTerminate, BgPlan, BgWrite, BgLeave, BgError, BgDie, mainVars
<1>5. CASE Coordinator \/ Exporter \/ Fault \/ Stopped \/ UNCHANGED vars
  BY <1>1, <1>5 DEF Coordinator, BgCommit, BgTruncatePointer, BgWritePointer, Exporter,
     ExportDone, ExportFails, Fault, Stopped, vars, mainVars
<1>6. CASE GatherWeights
  BY <1>6 DEF GatherWeights, AfterExport
<1>7. CASE KillAll
  BY <1>7 DEF KillAll
<1> QED BY <1>1, <1>2, <1>3, <1>4, <1>5, <1>6, <1>7 DEF Next, Environment, Crash, Teardown

(* The dataloader's state is on storage before the save is handed over. *)
LEMMA NextDataloader ==
  ASSUME StoreInvariant, [Next]_vars, NEW q \in Rank
  PROVE  DataloaderWritten(q)'
<1> USE DEF StoreInvariant, SlotInvariant
<1>1. CASE Restart
  BY <1>1 DEF Restart, DataloaderWritten
<1>2. CASE ~Restart
  <2> SUFFICES ASSUME StatefulDataloader
               PROVE  /\ staging'[q] # None => dataloader'[staging'[q]][q] = Saved(staging[q])'
                      /\ pc'[q] = "stage" => dataloader'[iteration'[q]][q] = Saved(iteration[q])'
    BY DEF DataloaderWritten
  <2> USE DEF Saved
  <2>1. run' = run
    BY <1>2, RunStays
  <2>2. /\ staging[q] # None => staging[q] \in Iter
        /\ pc[q] \in Saving => iteration[q] \in Iter
    BY ConstantTypes DEF TypeInv, TypeOK, Iter, None, SlotInv, SubmitsIteration, Saving, Terminate
  <2>3. DataloaderWritten(q)
    BY DEF StoreInv
  <2>4. CASE WriteDataloader(q)
    <3>1. dataloader' = [dataloader EXCEPT ![iteration[q]][q] = Saved(iteration[q])]
          /\ UNCHANGED <<iteration, staging>> /\ iteration[q] \in Iter
      BY <2>2, <2>4 DEF WriteDataloader, Saving
    <3>2. dataloader'[iteration[q]] = [dataloader[iteration[q]] EXCEPT ![q] = Saved(iteration[q])]
      BY <3>1 DEF TypeInv, TypeOK
    <3>3. dataloader'[iteration[q]][q] = Saved(iteration[q])
      BY <3>1, <3>2 DEF TypeInv, TypeOK
    <3>4. staging[q] # None /\ staging[q] # iteration[q] =>
            dataloader'[staging[q]][q] = dataloader[staging[q]][q]
      BY <2>2, <3>1 DEF TypeInv, TypeOK
    <3> QED BY <2>1, <2>3, <3>1, <3>3, <3>4 DEF DataloaderWritten
  <2>5. CASE ~WriteDataloader(q)
    <3>1. /\ staging[q] # None => dataloader'[staging[q]][q] = Saved(staging[q])
          /\ pc[q] = "stage" => dataloader'[iteration[q]][q] = Saved(iteration[q])
      BY <2>2, <2>3, <2>5, DataloaderRow DEF DataloaderWritten, Saving
    <3>2. StageAndSubmit(q) => pc[q] = "stage" /\ staging'[q] = iteration[q]
      BY DEF StageAndSubmit, TypeInv, TypeOK
    <3> QED BY <1>2, <2>1, <2>5, <3>1, <3>2, StageStep
  <2> QED BY <2>4, <2>5
<1> QED BY <1>1, <1>2

(* The steps of a background process. *)
LEMMA BackgroundStep ==
  ASSUME SlotInvariant, [Next]_vars, NEW q \in Rank
  PROVE  \/ UNCHANGED <<bgPhase[q], bgJob[q], bgKey[q]>>
         \/ ~Busy(q)'
         \/ BgTake(q) \/ BgPlan(q) \/ BgWrite(q)
         \/ BgLeave(q) /\ MoreKeys(q) /\ NextKey(q)
         \/ q = Rank0 /\ (BgCommit \/ BgTruncatePointer)
<1> USE DEF SlotInvariant, TypeInv, TypeOK
<1>1. ASSUME NEW r \in Rank, Main(r) PROVE UNCHANGED <<bgPhase[q], bgJob[q], bgKey[q]>>
  BY <1>1, MainBackground
<1>2. ASSUME NEW r \in Rank, r # q,
             Background(r) \/ (r = Rank0 /\ Coordinator) \/ BgDie(r)
      PROVE  UNCHANGED <<bgPhase[q], bgJob[q], bgKey[q]>>
  BY <1>2, RankFrame, KeyFrame DEF Local
<1>3. CASE BgTerminate(q) \/ BgError(q) \/ BgDie(q)
  BY <1>3 DEF BgTerminate, BgError, Report, BgDie, Busy
<1>4. CASE BgLeave(q)
  BY <1>4 DEF BgLeave, Report, Busy
<1>5. CASE q = Rank0 /\ BgWritePointer
  BY <1>5 DEF BgWritePointer, Report, Busy
<1>6. CASE GatherWeights \/ Exporter \/ Fault \/ Stopped \/ UNCHANGED vars
  BY <1>6 DEF GatherWeights, Exporter, ExportDone, ExportFails, Fault, Stopped, vars, bgVars
<1>7. CASE KillAll \/ Restart
  BY <1>7 DEF KillAll, Restart, Busy
<1> QED BY <1>1, <1>2, <1>3, <1>4, <1>5, <1>6, <1>7, RankAssumption
        DEF Next, Environment, Crash, Teardown, Background, Coordinator

(* The one answer of a save, and where it comes from. *)
Answers(q, ok) ==
  /\ Busy(q) /\ staging'[q] = staging[q]
  /\ recvQ'[q] = Append(recvQ[q], [iter |-> bgJob[q], ok |-> ok])

LEMMA AnswerStep ==
  ASSUME SlotInvariant, [Next]_vars, NEW q \in Rank
  PROVE  \/ recvQ'[q] = recvQ[q] /\ (staging'[q] = staging[q] \/ ~Answered(q))
         \/ recvQ'[q] = <<>>
         \/ Answers(q, FALSE)
         \/ BgLeave(q) /\ ~MoreKeys(q) /\ Answers(q, TRUE)
         \/ q = Rank0 /\ BgWritePointer /\ Answers(q, TRUE)
<1> USE DEF SlotInvariant, TypeInv, TypeOK
<1>1. CASE Main(q)
  <2>1. CASE OptimizerStep(q) \/ EndTraining(q) \/ PollNothing(q) \/ WaitIdle(q)
    BY <2>1 DEF OptimizerStep, EndTraining, PollNothing, WaitIdle
  <2>2. CASE PollSuccess(q) \/ PollFailure(q) \/ WaitSuccess(q) \/ WaitFailure(q)
    <3>1. MayPoll(q) /\ recvQ' = [recvQ EXCEPT ![q] = Tail(@)]
      BY <2>2 DEF PollSuccess, PollFailure, WaitSuccess, WaitFailure, Confirm
    <3>2. recvQ[q] \in Seq(SaveDone) /\ Len(recvQ[q]) <= 1
      BY DEF SlotInv, OnePlace
    <3> QED BY <3>1, <3>2, TailOfOne DEF MayPoll
  <2>3. CASE WaitDeferred(q) \/ WaitTimeout(q) \/ RaiseExportError(q) \/ JoinExport(q)
             \/ WriteDataloaderFails(q)
    BY <2>3 DEF WaitDeferred, WaitTimeout, RaiseExportError, WriteDataloaderFails, JoinExport
  <2>4. CASE StageAndSubmit(q)
    <3>1. ~Answered(q) /\ recvQ' = recvQ
      BY <2>4 DEF StageAndSubmit, SlotInv, OnePlace, Quiet
    <3> QED BY <3>1
  <2>5. CASE LaunchExport(q) \/ WriteDataloader(q)
    BY <2>5 DEF LaunchExport, WriteDataloader
  <2>6. CASE FinalizeDead(q) \/ SendTerminate(q) \/ Join(q) \/ PassBarrier(q)
    BY <2>6 DEF FinalizeDead, SendTerminate, Join, PassBarrier
  <2> QED BY <1>1, <2>1, <2>2, <2>3, <2>4, <2>5, <2>6 DEF Main
<1>2. CASE Background(q)
  <2>1. CASE BgTake(q) \/ BgTerminate(q) \/ BgPlan(q) \/ BgWrite(q)
    BY <2>1 DEF BgTake, BgTerminate, BgPlan, BgWrite, mainVars
  <2>2. CASE BgLeave(q)
    <3>1. CASE ~MoreKeys(q) /\ Report(q, TRUE)
      BY <2>2, <3>1 DEF BgLeave, Report, mainVars, Busy, Answers
    <3> QED BY <2>2, <3>1 DEF BgLeave, mainVars
  <2>3. CASE BgError(q)
    BY <2>3 DEF BgError, Report, mainVars, Busy, Answers
  <2> QED BY <1>2, <2>1, <2>2, <2>3 DEF Background
<1>3. ASSUME NEW r \in Rank, r # q,
             Main(r) \/ Background(r) \/ (r = Rank0 /\ Coordinator) \/ BgDie(r)
      PROVE  recvQ'[q] = recvQ[q] /\ staging'[q] = staging[q]
  BY <1>3, RankFrame DEF Local
<1>4. CASE q = Rank0 /\ Coordinator
  <2>1. CASE BgCommit \/ BgTruncatePointer
    BY <2>1 DEF BgCommit, BgTruncatePointer, mainVars
  <2>2. CASE BgWritePointer
    BY <1>4, <2>2 DEF BgWritePointer, Report, mainVars, Busy, Answers
  <2> QED BY <1>4, <2>1, <2>2 DEF Coordinator
<1>5. CASE BgDie(q) \/ GatherWeights \/ Exporter \/ Fault \/ Stopped \/ UNCHANGED vars
  BY <1>5 DEF BgDie, GatherWeights, Exporter, ExportDone, ExportFails, Fault, Stopped, vars, mainVars
<1>6. CASE KillAll \/ Restart
  BY <1>6 DEF KillAll, Restart
<1> QED BY <1>1, <1>2, <1>3, <1>4, <1>5, <1>6, RankAssumption DEF Next, Environment, Crash, Teardown

(* The answer is the only element of the result queue. *)
LEMMA AnswerAlone ==
  ASSUME SlotInvariant, NEW q \in Rank, NEW ok \in BOOLEAN, Answers(q, ok)
  PROVE  /\ bgJob[q] \in Iter /\ bgJob[q] = staging'[q]
         /\ Head(recvQ'[q]).iter = bgJob[q] /\ Head(recvQ'[q]).ok = ok
<1>1. bgJob[q] \in Iter /\ bgJob[q] = staging'[q] /\ recvQ[q] = <<>>
  BY DEF Answers, SlotInvariant, TypeInv, JobIsIteration, SlotInv, HoldsStaged, OnePlace, Answered
<1>2. [iter |-> bgJob[q], ok |-> ok] \in SaveDone
  BY <1>1 DEF SaveDone
<1>3. Head(recvQ'[q]) = [iter |-> bgJob[q], ok |-> ok]
  BY <1>1, <1>2, AppendToNone DEF Answers
<1> QED BY <1>1, <1>3

(* What a background process has written and answered. *)
LEMMA NextWrites ==
  ASSUME StoreInvariant, [Next]_vars, NEW q \in Rank
  PROVE  Writes(q)'
<1> USE RankAssumption DEF StoreInvariant
<1>1. Writes(q) /\ TypeInv /\ SlotInv(q) /\ TypeOK
  BY DEF StoreInv, SlotInvariant, TypeInv
<1>2. Answered(q)' => Head(recvQ'[q]).iter = staging'[q]
  <2>1. CASE recvQ'[q] = recvQ[q] /\ (staging'[q] = staging[q] \/ ~Answered(q))
    BY <1>1, <2>1 DEF Writes, Answered
  <2>2. CASE recvQ'[q] = <<>>
    BY <2>2 DEF Answered
  <2>3. ASSUME NEW ok \in BOOLEAN, Answers(q, ok) PROVE Head(recvQ'[q]).iter = staging'[q]
    BY <2>3, AnswerAlone
  <2> QED BY <2>1, <2>2, <2>3, AnswerStep
<1>3. bgPhase'[q] = "written" => shard'[bgJob'[q]][bgKey'[q]][q] = [run |-> run', iter |-> bgJob'[q]]
  <2> SUFFICES ASSUME bgPhase'[q] = "written"
               PROVE  shard'[bgJob'[q]][bgKey'[q]][q] = [run |-> run', iter |-> bgJob'[q]]
    OBVIOUS
  <2>1. ~Restart
    BY DEF Restart
  <2>2. Busy(q)'
    BY DEF Busy
  <2>3. CASE UNCHANGED <<bgPhase[q], bgJob[q], bgKey[q]>>
    <3>1. ~BgPlan(q) /\ ~BgWrite(q)
      BY <2>3 DEF BgPlan, BgWrite
    <3>2. bgJob[q] \in Iter /\ bgKey[q] \in Key
      BY <1>1, <2>2, <2>3 DEF TypeInv, JobIsIteration, Busy, TypeOK
    <3>3. shard'[bgJob[q]][bgKey[q]][q] = shard[bgJob[q]][bgKey[q]][q]
      BY <1>1, <3>1, <3>2, ShardRow
    <3> QED BY <1>1, <2>1, <2>3, <3>3, RunStays DEF Writes, Saved
  <2>4. CASE BgTake(q) \/ BgPlan(q) \/ (BgLeave(q) /\ MoreKeys(q) /\ NextKey(q))
             \/ (q = Rank0 /\ (BgCommit \/ BgTruncatePointer))
    BY <1>1, <2>4 DEF BgTake, BgPlan, NextKey, BgCommit, BgTruncatePointer, TypeInv, TypeOK
  <2>5. CASE BgWrite(q)
    <3>1. staging[q] = bgJob[q] /\ bgJob[q] \in Iter /\ bgKey[q] \in Key
      BY <1>1, <2>5 DEF BgWrite, SlotInv, HoldsStaged, Busy, TypeInv, JobIsIteration, TypeOK
    <3>2. /\ shard' = [shard EXCEPT ![bgJob[q]][bgKey[q]][q] = Saved(bgJob[q])]
          /\ bgJob' = bgJob /\ bgKey' = bgKey /\ run' = run
      BY <2>5, <3>1 DEF BgWrite, envVars
    <3>3. shard[bgJob[q]] \in [Key -> [Rank -> Content]] /\ shard \in [Iter -> [Key -> [Rank -> Content]]]
      BY <1>1, <3>1 DEF TypeOK
    <3>4. shard'[bgJob[q]] = [shard[bgJob[q]] EXCEPT ![bgKey[q]][q] = Saved(bgJob[q])]
      BY <3>1, <3>2, <3>3
    <3>5. shard'[bgJob[q]][bgKey[q]] = [shard[bgJob[q]][bgKey[q]] EXCEPT ![q] = Saved(bgJob[q])]
      BY <3>1, <3>3, <3>4
    <3>6. shard'[bgJob[q]][bgKey[q]][q] = Saved(bgJob[q])
      BY <3>1, <3>3, <3>5
    <3> QED BY <3>2, <3>6 DEF Saved
  <2> QED BY <1>1, <2>2, <2>3, <2>4, <2>5, BackgroundStep DEF SlotInvariant
<1>4. bgPhase'[q] \in {"pointer", "pointerText"} => q = Rank0
  <2> SUFFICES ASSUME bgPhase'[q] \in {"pointer", "pointerText"} PROVE q = Rank0
    OBVIOUS
  <2>1. Busy(q)'
    BY DEF Busy
  <2>2. CASE UNCHANGED <<bgPhase[q], bgJob[q], bgKey[q]>>
    BY <1>1, <2>2 DEF Writes
  <2>3. CASE BgTake(q) \/ BgPlan(q) \/ BgWrite(q) \/ (BgLeave(q) /\ MoreKeys(q) /\ NextKey(q))
    BY <1>1, <2>3 DEF BgTake, BgPlan, BgWrite, NextKey, TypeOK
  <2> QED BY <2>1, <2>2, <2>3, BackgroundStep
<1> QED BY <1>2, <1>3, <1>4 DEF Writes, Saved

(* A confirmation is of a save that was answered as good. *)
LEMMA ConfirmStep ==
  ASSUME SlotInvariant, [Next]_vars, NEW q \in Rank
  PROVE  \/ confirmed'[q] = confirmed[q]
         \/ confirmed'[q] = <<>>
         \/ /\ Answered(q) /\ Head(recvQ[q]).ok
            /\ confirmed'[q] = Append(confirmed[q], Head(recvQ[q]).iter)
<1> USE DEF SlotInvariant, TypeInv, TypeOK
<1>1. CASE Main(q)
  <2>1. CASE OptimizerStep(q) \/ EndTraining(q) \/ PollNothing(q) \/ PollFailure(q) \/ WaitIdle(q)
    BY <2>1 DEF OptimizerStep, EndTraining, PollNothing, PollFailure, WaitIdle
  <2>2. CASE PollSuccess(q) \/ WaitSuccess(q)
    BY <2>2 DEF PollSuccess, WaitSuccess, Confirm, MayPoll, Answered
  <2>3. CASE WaitFailure(q) \/ WaitDeferred(q) \/ WaitTimeout(q) \/ RaiseExportError(q) \/ JoinExport(q)
             \/ WriteDataloaderFails(q)
    BY <2>3 DEF WaitFailure, WaitDeferred, WaitTimeout, RaiseExportError, WriteDataloaderFails, JoinExport
  <2>4. CASE StageAndSubmit(q) \/ LaunchExport(q) \/ WriteDataloader(q)
    BY <2>4 DEF StageAndSubmit, LaunchExport, WriteDataloader
  <2>5. CASE FinalizeDead(q) \/ SendTerminate(q) \/ Join(q) \/ PassBarrier(q)
    BY <2>5 DEF FinalizeDead, SendTerminate, Join, PassBarrier
  <2> QED BY <1>1, <2>1, <2>2, <2>3, <2>4, <2>5 DEF Main
<1>2. ASSUME NEW r \in Rank, r # q, Main(r) PROVE confirmed'[q] = confirmed[q]
  BY <1>2, RankFrame DEF Local
<1>3. ASSUME NEW r \in Rank, Background(r) \/ BgDie(r) PROVE confirmed'[q] = confirmed[q]
  BY <1>3 DEF Background, BgTake, BgTerminate, BgPlan, BgWrite, BgLeave, BgError, BgDie, mainVars
<1>4. CASE Coordinator \/ Exporter \/ Fault \/ Stopped \/ KillAll \/ UNCHANGED vars
  BY <1>4 DEF Coordinator, BgCommit, BgTruncatePointer, BgWritePointer, Exporter,
     ExportDone, ExportFails, Fault, Stopped, KillAll, vars, mainVars
<1>5. CASE GatherWeights
  BY <1>5 DEF GatherWeights
<1>6. CASE Restart
  BY <1>6 DEF Restart
<1> QED BY <1>1, <1>2, <1>3, <1>4, <1>5, <1>6 DEF Next, Environment, Crash, Teardown

(* Every key before the current one of a save is settled, and all of them   *)
(* when it reports success.                                                  *)
LEMMA SettledStays ==
  ASSUME StoreInvariant, [Next]_vars, ~Restart, NEW j, Settled(j)
  PROVE  Settled(j)'
BY KeySettledStays DEF Settled

LEMMA CommitLeaves ==
  ASSUME StoreInvariant, [Next]_vars, ~Restart, BgCommit,
         NEW k \in Key, k <= bgKey[Rank0], NEW j, j = bgJob[Rank0]
  PROVE  KeySettled(j, k)'
<1>1. CASE k = bgKey[Rank0]
  BY <1>1, CommitSettles
<1>2. CASE k # bgKey[Rank0]
  <2>1. k < bgKey[Rank0]
    BY <1>2, RankAssumption DEF Key, StoreInvariant, SlotInvariant, TypeInv, TypeOK
  <2>2. KeySettled(j, k)
    BY <2>1, RankAssumption DEF BgCommit, Busy, StoreInvariant, StoreInv, LeavesSettled
  <2> QED BY <2>2, KeySettledStays
<1> QED BY <1>1, <1>2

LEMMA NextLeaves ==
  ASSUME StoreInvariant, [Next]_vars, ~Restart, NEW q \in Rank
  PROVE  LeavesSettled(q)'
<1> USE RankAssumption
<1>1. /\ LeavesSettled(q) /\ CommittedSettled /\ TypeInv /\ TypeOK /\ SlotInv(q)
      /\ LeavesSettled(Rank0) /\ SlotInvariant
  BY DEF StoreInvariant, StoreInv, SlotInvariant, TypeInv
<1>2. bgKey[q] \in Key /\ bgKey[Rank0] \in Key /\ Key \subseteq Int /\ bgKey'[q] \in Key
  <2>1. TypeOK'
    BY <1>1, NextType DEF TypeInv
  <2> QED BY <1>1, <2>1 DEF TypeOK, Key
<1>3. ASSUME NEW r \in Rank, Busy(r), NEW k \in Key, k < bgKey[r]
      PROVE  KeySettled(bgJob[r], k)
  BY <1>3 DEF StoreInvariant, StoreInv, LeavesSettled
\* Rank q has seen the metadata of the key it is at.
<1>4. ASSUME BgLeave(q), NEW k \in Key, k <= bgKey[q]
      PROVE  KeySettled(bgJob[q], k)
  <2>1. committed[1] = bgJob[q] /\ committed[2] = bgKey[q] /\ bgJob[q] # None
    BY <1>1, <1>4 DEF BgLeave, Committed, TypeInv, JobIsIteration, Busy, Iter, None
  <2> QED BY <1>1, <1>4, <2>1 DEF CommittedSettled
\* Rank 0 has just written it.
<1>5. ASSUME BgCommit, NEW k \in Key, k <= bgKey[Rank0], NEW j, j = bgJob[Rank0]
      PROVE  KeySettled(j, k)'
  BY <1>5, CommitLeaves
<1>6. Busy(q)' => \A k \in Key : k < bgKey'[q] => KeySettled(bgJob[q], k)'
  <2> SUFFICES ASSUME Busy(q)', NEW k \in Key, k < bgKey'[q], NEW j, j = bgJob'[q]
               PROVE  KeySettled(j, k)'
    BY DEF KeySettled, KeyStored, WontSubmit, PastKey
  <2>1. CASE /\ Busy(q) /\ bgJob'[q] = bgJob[q] /\ bgKey'[q] = bgKey[q]
    <3>1. KeySettled(j, k)
      BY <1>3, <2>1
    <3> QED BY <3>1, KeySettledStays
  <2>2. CASE BgTake(q)
    <3>1. bgKey'[q] = 1
      BY <1>1, <2>2 DEF BgTake, TypeOK
    <3>2. k >= 1
      BY ConstantTypes DEF Key
    <3> QED BY <1>2, <3>1, <3>2
  <2>3. CASE BgLeave(q) /\ MoreKeys(q) /\ NextKey(q)
    <3>1. bgKey'[q] = bgKey[q] + 1 /\ bgJob' = bgJob
      BY <1>1, <2>3 DEF NextKey, BgLeave, TypeOK
    <3>2. k <= bgKey[q]
      BY <1>2, <3>1 DEF Key
    <3>3. KeySettled(j, k)
      BY <1>4, <2>3, <3>1, <3>2
    <3> QED BY <3>3, KeySettledStays
  <2>4. CASE q = Rank0 /\ BgCommit
    <3>1. bgKey'[q] = bgKey[q] + 1 \/ bgKey'[q] = bgKey[q]
      BY <1>1, <2>4 DEF BgCommit, NextKey, TypeOK
    <3>2. k <= bgKey[q]
      BY <1>2, <3>1 DEF Key
    <3> QED BY <1>5, <2>4, <3>2 DEF BgCommit
  <2>5. CASE UNCHANGED <<bgPhase[q], bgJob[q], bgKey[q]>>
    BY <2>1, <2>5 DEF Busy
  <2>6. CASE BgPlan(q) \/ BgWrite(q)
    BY <2>1, <2>6 DEF BgPlan, BgWrite, Busy
  <2>7. CASE q = Rank0 /\ BgTruncatePointer
    BY <2>1, <2>7 DEF BgTruncatePointer, Busy
  <2> QED BY <1>1, <2>2, <2>3, <2>4, <2>5, <2>6, <2>7, BackgroundStep
<1>7. ASSUME bgPhase'[q] \in {"pointer", "pointerText"}, NEW j, j = bgJob'[q]
      PROVE  Settled(j)'
  <2>1. CASE UNCHANGED <<bgPhase[q], bgJob[q], bgKey[q]>>
    BY <1>1, <1>7, <2>1, SettledStays DEF LeavesSettled
  <2>2. CASE BgTake(q) \/ BgPlan(q) \/ BgWrite(q) \/ (BgLeave(q) /\ MoreKeys(q) /\ NextKey(q))
    BY <1>1, <1>7, <2>2 DEF BgTake, BgPlan, BgWrite, NextKey, TypeOK
  <2>3. CASE q = Rank0 /\ BgCommit
    <3>1. ~MoreKeys(Rank0) /\ bgJob' = bgJob
      BY <1>1, <1>7, <2>3 DEF BgCommit, NextKey, TypeOK
    <3>2. \A k \in Key : k <= bgKey[Rank0]
      BY <1>2, <3>1, ConstantTypes DEF MoreKeys, Key
    <3>3. \A k \in Key : KeySettled(j, k)'
      BY <1>5, <1>7, <2>3, <3>1, <3>2
    <3> QED BY <3>3 DEF Settled
  <2>4. CASE q = Rank0 /\ BgTruncatePointer
    <3>1. bgPhase[q] = "pointer" /\ bgJob' = bgJob
      BY <2>4 DEF BgTruncatePointer
    <3> QED BY <1>1, <1>7, <3>1, SettledStays DEF LeavesSettled
  <2>5. Busy(q)'
    BY <1>7 DEF Busy
  <2> QED BY <1>1, <2>1, <2>2, <2>3, <2>4, <2>5, BackgroundStep
<1>8. ASSUME Answered(q)', Head(recvQ'[q]).ok, NEW j, j = Head(recvQ'[q]).iter
      PROVE  Settled(j)'
  <2>1. CASE recvQ'[q] = recvQ[q]
    BY <1>1, <1>8, <2>1, SettledStays DEF LeavesSettled, Answered
  <2>2. CASE recvQ'[q] = <<>>
    BY <1>8, <2>2 DEF Answered
  <2>3. CASE Answers(q, FALSE)
    BY <1>1, <1>8, <2>3, AnswerAlone
  <2>4. CASE BgLeave(q) /\ ~MoreKeys(q) /\ Answers(q, TRUE)
    <3>1. j = bgJob[q]
      BY <1>1, <1>8, <2>4, AnswerAlone
    <3>2. \A k \in Key : k <= bgKey[q]
      BY <1>2, <2>4, ConstantTypes DEF MoreKeys, Key
    <3>3. Settled(j)
      BY <1>4, <2>4, <3>1, <3>2 DEF Settled
    <3> QED BY <3>3, SettledStays
  <2>5. CASE q = Rank0 /\ BgWritePointer /\ Answers(q, TRUE)
    <3>1. j = bgJob[q]
      BY <1>1, <1>8, <2>5, AnswerAlone
    <3>2. Settled(j)
      BY <1>1, <2>5, <3>1 DEF BgWritePointer, LeavesSettled
    <3> QED BY <3>2, SettledStays
  <2> QED BY <1>1, <2>1, <2>2, <2>3, <2>4, <2>5, AnswerStep
<1>9. ASSUME NEW n \in 1..Len(confirmed'[q]), NEW j, j = confirmed'[q][n]
      PROVE  Settled(j)'
  <2>1. CASE confirmed'[q] = confirmed[q]
    BY <1>1, <1>9, <2>1, SettledStays DEF LeavesSettled
  <2>2. CASE confirmed'[q] = <<>>
    BY <1>9, <2>2, EmptySeq
  <2>3. CASE /\ Answered(q) /\ Head(recvQ[q]).ok
             /\ confirmed'[q] = Append(confirmed[q], Head(recvQ[q]).iter)
    <3> DEFINE m == Head(recvQ[q]).iter
    <3>1. confirmed[q] \in Seq(Iter) /\ m \in Iter
      BY <1>1, <2>3, AnswerType DEF TypeOK, Answered
    <3>2. /\ Len(confirmed'[q]) = Len(confirmed[q]) + 1
          /\ \A i \in 1..Len(confirmed[q]) : confirmed'[q][i] = confirmed[q][i]
          /\ confirmed'[q][Len(confirmed[q]) + 1] = m
          /\ Len(confirmed[q]) \in Nat
      BY <2>3, <3>1, AppendProperties, LenProperties
    <3>3. CASE n \in 1..Len(confirmed[q])
      BY <1>1, <1>9, <3>2, <3>3, SettledStays DEF LeavesSettled
    <3>4. CASE n = Len(confirmed[q]) + 1
      BY <1>1, <1>9, <2>3, <3>2, <3>4, SettledStays DEF LeavesSettled
    <3> QED BY <3>2, <3>3, <3>4
  <2> QED BY <1>1, <2>1, <2>2, <2>3, ConfirmStep
\* What is left is to read the steps as the conjuncts of LeavesSettled.
<1>10. (Busy(q) => \A k \in Key : k < bgKey[q] => KeySettled(bgJob[q], k))'
  BY <1>6
<1>11. (bgPhase[q] \in {"pointer", "pointerText"} => Settled(bgJob[q]))'
  BY <1>7 DEF Settled, KeySettled, KeyStored, WontSubmit, PastKey
<1>12. (Answered(q) /\ Head(recvQ[q]).ok => Settled(Head(recvQ[q]).iter))'
  BY <1>8 DEF Settled, KeySettled, KeyStored, WontSubmit, PastKey
<1>13. (\A n \in 1..Len(confirmed[q]) : Settled(confirmed[q][n]))'
  BY <1>9 DEF Settled, KeySettled, KeyStored, WontSubmit, PastKey
<1> QED BY <1>10, <1>11, <1>12, <1>13 DEF LeavesSettled

LEMMA NextCommitted ==
  ASSUME StoreInvariant, [Next]_vars, ~Restart
  PROVE  CommittedSettled'
<1> USE DEF bgVars
<1>1. CASE BgCommit
  <2>1. committed'[1] = bgJob[Rank0] /\ committed'[2] = bgKey[Rank0]
    BY <1>1 DEF BgCommit
  <2>2. ASSUME NEW k \in Key, k <= bgKey[Rank0], NEW j, j = bgJob[Rank0]
        PROVE  KeySettled(j, k)'
    BY <1>1, <2>2, CommitLeaves
  <2>3. ASSUME NEW k \in Key, k <= committed'[2]
        PROVE  KeySettled(committed[1], k)'
    BY <2>1, <2>2, <2>3 DEF KeySettled, KeyStored, WontSubmit, PastKey
  <2> QED BY <2>3 DEF CommittedSettled
<1>2. CASE KillAll
  BY <1>2 DEF KillAll, CommittedSettled
<1>3. CASE committed' = committed
  <2>1. ASSUME committed[1] # None, NEW k \in Key, k <= committed[2], NEW j, j = committed[1]
        PROVE  KeySettled(j, k)'
    BY <2>1, KeySettledStays DEF StoreInvariant, StoreInv, CommittedSettled
  <2>2. ASSUME committed[1] # None, NEW k \in Key, k <= committed[2]
        PROVE  KeySettled(committed[1], k)'
    BY <1>3, <2>1, <2>2 DEF KeySettled, KeyStored, WontSubmit, PastKey
  <2> QED BY <1>3, <2>2 DEF CommittedSettled
<1>4. ASSUME NEW r \in Rank, Main(r) PROVE committed' = committed
  BY <1>4, MainBackground
<1>5. ASSUME NEW r \in Rank, Background(r) \/ BgDie(r) PROVE committed' = committed
  BY <1>5 DEF Background, BgTake, BgTerminate, BgPlan, BgWrite, BgLeave, BgError, BgDie
<1>6. CASE GatherWeights \/ Exporter \/ Fault \/ Stopped \/ UNCHANGED vars
  BY <1>3, <1>6 DEF GatherWeights, Exporter, ExportDone, ExportFails, Fault, Stopped, vars
<1>7. CASE BgTruncatePointer \/ BgWritePointer
  BY <1>3, <1>7 DEF BgTruncatePointer, BgWritePointer
<1> QED BY <1>1, <1>2, <1>3, <1>4, <1>5, <1>6, <1>7 DEF Next, Environment, Crash, Teardown, Coordinator

LEMMA InitStoreInvariant == Init => StoreInvariant
BY InitSlot, InitStore DEF StoreInvariant

LEMMA NextStore == StoreInvariant /\ [Next]_vars => StoreInvariant'
<1> SUFFICES ASSUME StoreInvariant, [Next]_vars PROVE StoreInvariant'
  OBVIOUS
<1>1. SlotInvariant'
  BY NextSlot DEF StoreInvariant
<1>2. ASSUME NEW q \in Rank
      PROVE  Submits(q)' /\ DataloaderWritten(q)' /\ Writes(q)'
  BY NextSubmits, NextDataloader, NextWrites
<1>3. CASE Restart
  <2>1. ASSUME NEW q \in Rank PROVE LeavesSettled(q)'
    <3>1. bgPhase'[q] = "idle" /\ recvQ'[q] = <<>> /\ Len(confirmed'[q]) = 0
      BY <1>3, EmptySeq DEF Restart
    <3> QED BY <3>1 DEF LeavesSettled, Busy, Answered
  <2>2. CommittedSettled'
    BY <1>3 DEF Restart, CommittedSettled
  <2> QED BY <1>1, <1>2, <2>1, <2>2 DEF StoreInvariant, StoreInv
<1>4. CASE ~Restart
  BY <1>1, <1>2, <1>4, NextLeaves, NextCommitted DEF StoreInvariant, StoreInv
<1> QED BY <1>3, <1>4

LEMMA StoreCorrect == Spec => []StoreInvariant
BY InitStoreInvariant, NextStore, PTL DEF Spec

LEMMA SettledComplete ==
  ASSUME NEW j, Settled(j)
  PROVE  Complete(j)
BY DEF Settled, KeySettled, KeyStored, Complete

(* Whatever a rank confirmed (on_save_checkpoint_success) is complete on     *)
(* storage and stays so for the rest of the run: no shard is written under   *)
(* metadata that is there already, whoever fails, hangs or is late.          *)
THEOREM ConfirmedCompleteCorrect == Spec => []ConfirmedComplete
<1>1. StoreInvariant => ConfirmedComplete
  BY SettledComplete DEF StoreInvariant, StoreInv, LeavesSettled, ConfirmedComplete
<1> QED BY <1>1, StoreCorrect, PTL

-----------------------------------------------------------------------------
(***************************************************************************)
(* Failures.  A save reported as failed waits for its rank, as an answer or *)
(* put aside, until the rank raises; and the background process is told to  *)
(* stop only by a rank that has nothing in progress.                        *)
(***************************************************************************)
NotConfirmed(r) == \A n \in 1..Len(confirmed[r]) : confirmed[r][n] # staging[r]

Refused(r) == Answered(r) /\ ~Head(recvQ[r]).ok

FailInv(r) ==
  /\ bgPhase[r] = "exited" => pc[r] \in {"join", "barrier", "done"} /\ ~inProgress[r]
  /\ pc[r] = "join" => ~inProgress[r]
  /\ pc[r] \in {"barrier", "done"} => ~BgAlive(r)
  /\ inProgress[r] => NotConfirmed(r)
  /\ failed[r] # None =>
       /\ staging[r] = failed[r] /\ NotConfirmed(r)
       /\ pc[r] = "failed" \/ Deferred(r) \/ Refused(r)

FailInvariant == StoreInvariant /\ \A r \in Rank : FailInv(r)

LEMMA InitFail == Init => FailInvariant
<1> SUFFICES ASSUME Init PROVE FailInvariant
  OBVIOUS
<1>1. \A r \in Rank : FailInv(r)
  BY DEF Init, FailInv
<1> QED BY <1>1, InitStoreInvariant DEF FailInvariant

LEMMA FailStays ==
  ASSUME NEW r \in Rank, FailInv(r), UNCHANGED Local(r)
  PROVE  FailInv(r)'
BY DEF FailInv, NotConfirmed, Refused, Answered, Deferred, BgAlive, Local

(* The main process moves on, before the end of finalize. *)
LEMMA FailMoves ==
  ASSUME NEW r \in Rank, FailInv(r),
         UNCHANGED <<inProgress[r], deferred[r], staging[r], recvQ[r], confirmed[r], failed[r], bgPhase[r]>>,
         pc[r] \notin {"failed", "join", "barrier", "done"}, pc'[r] \notin {"join", "barrier", "done"}
  PROVE  FailInv(r)'
BY DEF FailInv, NotConfirmed, Refused, Answered, Deferred, BgAlive

(* Nothing has failed while nothing is in progress, or a good answer waits. *)
LEMMA NoFailure ==
  ASSUME NEW r \in Rank, SlotInv(r), FailInv(r), pc[r] # "failed",
         ~inProgress[r] \/ (Answered(r) /\ Head(recvQ[r]).ok)
  PROVE  failed[r] = None
BY DEF FailInv, SlotInv, OnePlace, Refused

LEMMA PutAside ==
  ASSUME TypeOK, NEW r \in Rank, PollFailure(r)
  PROVE  deferred'[r] # None
<1>1. Head(recvQ[r]).iter \in Iter
  BY AnswerType DEF PollFailure, MayPoll
<1> QED BY <1>1 DEF PollFailure, TypeOK, Iter, None

LEMMA MainFail ==
  ASSUME StoreInvariant, NEW r \in Rank, FailInv(r), Main(r)
  PROVE  FailInv(r)'
<1> USE DEF StoreInvariant, SlotInvariant, TypeInv, TypeOK, bgVars
<1>1. SlotInv(r) /\ LeavesSettled(r)
  BY DEF StoreInv
<1>2. CASE \/ OptimizerStep(r) \/ EndTraining(r) \/ PollNothing(r) \/ WaitIdle(r)
           \/ LaunchExport(r) \/ JoinExport(r) \/ WriteDataloader(r)
  <2>1. CASE OptimizerStep(r) \/ EndTraining(r) \/ PollNothing(r)
    BY <2>1, FailMoves DEF OptimizerStep, EndTraining, AfterLoop, PollNothing
  <2>2. CASE WaitIdle(r)
    BY <2>2, FailMoves DEF WaitIdle, Waiting, AfterWait, AfterExport
  <2>3. CASE LaunchExport(r) \/ JoinExport(r) \/ WriteDataloader(r)
    BY <2>3, FailMoves DEF LaunchExport, JoinExport, WriteDataloader, AfterExport
  <2> QED BY <1>2, <2>1, <2>2, <2>3
<1>3. CASE PollSuccess(r) \/ WaitSuccess(r)
  <2>1. /\ pc[r] \in {"stepEnd", "save", "finalize"} /\ Answered(r) /\ Head(recvQ[r]).ok
        /\ ~inProgress'[r] /\ UNCHANGED <<bgPhase, failed>>
        /\ pc'[r] \in {"train", "terminate", "export", "dataloader", "stage"}
    BY <1>3 DEF PollSuccess, WaitSuccess, Confirm, MayPoll, Answered, Waiting, AfterWait, AfterExport
  <2>2. failed[r] = None
    BY <1>1, <2>1, NoFailure
  <2> QED BY <2>1, <2>2 DEF FailInv
<1>4. CASE PollFailure(r)
  <2>1. deferred'[r] # None
    BY <1>4, PutAside
  <2>2. /\ pc[r] = "stepEnd" /\ pc'[r] = "train"
        /\ UNCHANGED <<inProgress, staging, confirmed, failed, bgPhase>>
    BY <1>4 DEF PollFailure
  <2> QED BY <2>1, <2>2 DEF FailInv, NotConfirmed, Deferred
<1>5. CASE \/ WaitFailure(r) \/ WaitDeferred(r) \/ WaitTimeout(r)
           \/ RaiseExportError(r) \/ WriteDataloaderFails(r)
  <2>1. /\ pc'[r] = "failed" /\ pc[r] \in {"save", "finalize", "launch", "trainEnd", "dataloader"}
        /\ UNCHANGED <<staging, confirmed, failed, bgPhase>>
        /\ inProgress'[r] => inProgress[r]
    BY <1>5 DEF WaitFailure, WaitDeferred, WaitTimeout, RaiseExportError, WriteDataloaderFails, Waiting
  <2> QED BY <2>1 DEF FailInv, NotConfirmed
<1>6. CASE StageAndSubmit(r)
  <2>1. /\ pc[r] = "stage" /\ pc'[r] \in {"stepEnd", "trainEnd", "finalize"}
        /\ staging'[r] = iteration[r] /\ UNCHANGED <<confirmed, failed, bgPhase>>
    BY <1>6 DEF StageAndSubmit, AfterLoop
  <2>2. failed[r] = None
    BY <1>1, <2>1, NoFailure DEF SlotInv, Quiet
  <2>3. \A n \in 1..Len(confirmed[r]) : confirmed[r][n] # iteration[r]
    <3> SUFFICES ASSUME NEW n \in 1..Len(confirmed[r]) PROVE confirmed[r][n] # iteration[r]
      OBVIOUS
    <3>1. WontSubmit(r, confirmed[r][n])
      BY <1>1, ConstantTypes DEF LeavesSettled, Settled, KeySettled, Key
    <3> QED BY <2>1, <3>1 DEF WontSubmit, Saving
  <2> QED BY <2>1, <2>2, <2>3 DEF FailInv, NotConfirmed
<1>7. CASE FinalizeDead(r)
  BY <1>7 DEF FinalizeDead, FailInv, NotConfirmed, Refused, Answered, Deferred, BgAlive
<1>8. CASE SendTerminate(r)
  <2>1. ~inProgress[r]
    BY <1>1, <1>8 DEF SendTerminate, SlotInv, Quiet
  <2> QED BY <1>8, <2>1 DEF SendTerminate, FailInv, NotConfirmed, Refused, Answered, Deferred
<1>9. CASE Join(r) \/ PassBarrier(r)
  BY <1>9 DEF Join, PassBarrier, FailInv, NotConfirmed, Refused, Answered, Deferred, BgAlive
<1> QED BY <1>2, <1>3, <1>4, <1>5, <1>6, <1>7, <1>8, <1>9 DEF Main

(* A background process that is alive moves on, dies, or answers. *)
LEMMA FailAlive ==
  ASSUME NEW r \in Rank, FailInv(r), SlotInv(r), BgAlive(r), bgPhase'[r] # "exited",
         UNCHANGED <<pc[r], inProgress[r], deferred[r], staging[r], confirmed[r], failed[r]>>,
         recvQ'[r] = recvQ[r] \/ Busy(r)
  PROVE  FailInv(r)'
BY DEF FailInv, NotConfirmed, Refused, Deferred, BgAlive, SlotInv, OnePlace, Answered

LEMMA BackgroundFail ==
  ASSUME StoreInvariant, NEW r \in Rank, FailInv(r),
         Background(r) \/ (r = Rank0 /\ Coordinator) \/ BgDie(r)
  PROVE  FailInv(r)'
<1> USE DEF StoreInvariant, SlotInvariant, TypeInv, TypeOK, mainVars
<1>1. SlotInv(r)
  OBVIOUS
<1>2. CASE BgTake(r) \/ BgPlan(r) \/ BgWrite(r) \/ BgLeave(r) \/ BgDie(r)
  <2>1. /\ BgAlive(r) /\ bgPhase'[r] # "exited" /\ UNCHANGED <<mainVars, failed>>
        /\ recvQ'[r] = recvQ[r] \/ Busy(r)
    BY <1>2 DEF BgTake, BgPlan, BgWrite, BgLeave, BgDie, NextKey, Report, BgAlive, Busy
  <2> QED BY <1>1, <2>1, FailAlive
<1>3. CASE r = Rank0 /\ Coordinator
  <2>1. /\ BgAlive(r) /\ bgPhase'[r] # "exited" /\ UNCHANGED <<mainVars, failed>>
        /\ recvQ'[r] = recvQ[r] \/ Busy(r)
    BY <1>3 DEF Coordinator, BgCommit, BgTruncatePointer, BgWritePointer, NextKey, Report, BgAlive, Busy
  <2> QED BY <1>1, <2>1, FailAlive
<1>4. CASE BgTerminate(r)
  <2>1. /\ BgAlive(r) /\ bgPhase'[r] = "exited" /\ UNCHANGED <<mainVars, recvQ, failed>>
        /\ pc[r] \in {"join", "barrier", "done"}
    BY <1>1, <1>4 DEF BgTerminate, BgAlive, SlotInv, TerminateIsLast
  <2> QED BY <2>1 DEF FailInv, NotConfirmed, Refused, Answered, Deferred, BgAlive
<1>5. CASE BgError(r)
  <2>1. /\ Busy(r) /\ BgAlive(r) /\ bgPhase'[r] = "idle" /\ UNCHANGED mainVars
        /\ failed'[r] = bgJob[r] /\ Answers(r, FALSE)
    BY <1>5 DEF BgError, Report, BgAlive, Busy, Answers
  <2>2. bgJob[r] = staging'[r] /\ ~Head(recvQ'[r]).ok
    BY <2>1, AnswerAlone
  <2>3. inProgress[r] /\ NotConfirmed(r) /\ pc[r] \notin {"barrier", "done"}
    BY <1>1, <2>1 DEF SlotInv, OnePlace, FailInv
  <2>4. Answered(r)'
    <3>1. recvQ[r] = <<>> /\ [iter |-> bgJob[r], ok |-> FALSE] \in SaveDone
      BY <1>1, <2>1 DEF SlotInv, OnePlace, Answered, SaveDone, JobIsIteration
    <3> QED BY <2>1, <3>1, AppendToNone DEF Answers, Answered
  <2> QED BY <2>1, <2>2, <2>3, <2>4 DEF FailInv, NotConfirmed, Refused
<1> QED BY <1>2, <1>3, <1>4, <1>5 DEF Background

LEMMA NextFail == FailInvariant /\ [Next]_vars => FailInvariant'
<1> SUFFICES ASSUME FailInvariant, [Next]_vars PROVE FailInvariant'
  OBVIOUS
<1>1. StoreInvariant'
  BY NextStore DEF FailInvariant
<1>2. ASSUME NEW q \in Rank PROVE FailInv(q)'
  <2> USE DEF FailInvariant
  <2>1. ASSUME NEW r \in Rank,
               Main(r) \/ Background(r) \/ (r = Rank0 /\ Coordinator) \/ BgDie(r)
        PROVE  FailInv(q)'
    <3>1. CASE q = r
      BY <2>1, <3>1, MainFail, BackgroundFail
    <3>2. CASE q # r
      BY <2>1, <3>2, RankFrame, FailStays DEF StoreInvariant, SlotInvariant
    <3> QED BY <3>1, <3>2
  <2>2. CASE Fault \/ Stopped \/ Exporter \/ UNCHANGED vars
    <3>1. UNCHANGED Local(q)
      BY <2>2 DEF Fault, Stopped, Exporter, ExportDone, ExportFails, vars, mainVars, bgVars, Local
    <3> QED BY <3>1, FailStays
  <2>3. CASE GatherWeights
    <3>1. /\ pc[q] = "export" /\ pc'[q] \in {"launch", "dataloader", "stage"}
          /\ UNCHANGED <<inProgress, deferred, staging, recvQ, confirmed, failed, bgPhase>>
      BY <2>3 DEF GatherWeights, AfterExport, bgVars
    <3> QED BY <3>1, FailMoves
  <2>4. CASE KillAll
    BY <2>4 DEF KillAll, FailInv
  <2>5. CASE Restart
    BY <2>5 DEF Restart, FailInv
  <2> QED BY <2>1, <2>2, <2>3, <2>4, <2>5, RankAssumption DEF Next, Environment, Crash, Teardown
<1> QED BY <1>1, <1>2 DEF FailInvariant

(* A save that a background process reported as failed stops its rank: the  *)
(* poll puts the failure aside and the next save or finalize raises it; the  *)
(* rank confirms nothing and stages nothing in between, and ends normally    *)
(* only when its background process has died in the meantime.                *)
THEOREM FailureStopsJobCorrect == Spec => []FailureStopsJob
<1>1. FailInvariant => FailureStopsJob
  <2> SUFFICES ASSUME FailInvariant, NEW r \in Rank
               PROVE  /\ failed[r] # None =>
                           /\ staging[r] = failed[r] /\ NotConfirmed(r)
                           /\ pc[r] \notin {"export", "launch", "dataloader", "stage", "terminate", "join"}
                           /\ pc[r] \in {"barrier", "done"} => bgPhase[r] = "dead"
                      /\ pc[r] = "failed" => \/ iteration[r] = MaxIter
                                             \/ MilestoneDue(iteration[r]) /\ staging[r] # iteration[r]
    BY DEF FailureStopsJob, NotConfirmed
  <2>1. FailInv(r) /\ SlotInv(r) /\ Submits(r)
    BY DEF FailInvariant, StoreInvariant, StoreInv, SlotInvariant
  <2>2. failed[r] # None /\ pc[r] # "failed" => inProgress[r]
    BY <2>1 DEF FailInv, SlotInv, OnePlace, Refused
  <2> QED BY <2>1, <2>2 DEF FailInv, SlotInv, Quiet, Submits, BgAlive
<1> QED BY <1>1, InitFail, NextFail, PTL DEF Spec

-----------------------------------------------------------------------------
(***************************************************************************)
(* The pointer.  A restart from a published milestone never saves that     *)
(* iteration again.                                                        *)
(***************************************************************************)
LEMMA PointerStays ==
  ASSUME StoreInvariant, [Next]_vars, ~BgTruncatePointer, ~BgWritePointer
  PROVE  pointer' = pointer
<1> USE DEF storeVars
<1>1. ASSUME NEW r \in Rank, Main(r) PROVE pointer' = pointer
  BY <1>1, MainBackground
<1>2. ASSUME NEW r \in Rank, Background(r) \/ BgDie(r) PROVE pointer' = pointer
  BY <1>2 DEF Background, BgTake, BgTerminate, BgPlan, BgWrite, BgLeave, BgError, BgDie
<1>3. CASE BgCommit \/ GatherWeights \/ Exporter \/ Fault \/ Stopped \/ UNCHANGED vars
  BY <1>3 DEF BgCommit, GatherWeights, Exporter, ExportDone, ExportFails, Fault, Stopped, vars
<1>4. CASE KillAll \/ Restart
  BY <1>4 DEF KillAll, Restart
<1> QED BY <1>1, <1>2, <1>3, <1>4 DEF Next, Environment, Crash, Teardown, Coordinator

(* A restart resumes from the pointer: its iteration becomes that of all    *)
(* ranks.                                                                   *)
LEMMA RestartIterations ==
  ASSUME TypeInv, Restart, NEW r \in Rank
  PROVE  iteration'[r] = IF pointer = None THEN 0 ELSE pointer
<1>1. CASE iteration' = [q \in Rank |-> 0] /\ pointer = None
  BY <1>1
<1>2. CASE /\ Loadable(pointer)
           /\ iteration' = [q \in Rank |-> shard[pointer][NumKeys][q].iter]
  <2>1. NumKeys \in Key /\ pointer # None
    BY <1>2, ConstantTypes DEF Key, Loadable, Iter, None
  <2>2. shard[pointer][NumKeys][r] = meta[pointer][NumKeys] /\ meta[pointer][NumKeys].iter = pointer
    BY <1>2, <2>1 DEF Loadable, Complete
  <2> QED BY <1>2, <2>1, <2>2
<1> QED BY <1>1, <1>2 DEF Restart

LEMMA NextPointerSettled ==
  ASSUME StoreInvariant, PointerSettled, [Next]_vars
  PROVE  PointerSettled'
<1> USE RankAssumption
<1>1. TypeInv /\ TypeOK /\ SlotInv(Rank0) /\ Submits(Rank0) /\ LeavesSettled(Rank0)
  BY DEF StoreInvariant, StoreInv, SlotInvariant, TypeInv
<1>2. CASE BgTruncatePointer
  BY <1>2 DEF BgTruncatePointer, PointerSettled, Truncated, Iter
<1>3. CASE BgWritePointer
  <2>1. /\ bgPhase[Rank0] \in {"pointer", "pointerText"} /\ Busy(Rank0)
        /\ pointer' = bgJob[Rank0] /\ ~Restart
    BY <1>1, <1>3 DEF BgWritePointer, Busy, Restart, Report, TypeOK
  <2>2. staging[Rank0] = bgJob[Rank0] /\ bgJob[Rank0] \in Iter
    BY <1>1, <2>1 DEF SlotInv, HoldsStaged, TypeInv, JobIsIteration
  <2>3. ASSUME NEW j, j = bgJob[Rank0] PROVE Settled(j)'
    BY <1>1, <2>1, <2>3, SettledStays DEF LeavesSettled
  <2>4. Settled(pointer)'
    BY <2>1, <2>3 DEF Settled, KeySettled, KeyStored, WontSubmit, PastKey
  <2> QED BY <2>4 DEF PointerSettled
<1>4. CASE Restart
  <2> SUFFICES ASSUME pointer' \in Iter, SavedOnce' PROVE Settled(pointer)'
    BY DEF PointerSettled
  <2>1. pointer' = pointer /\ pointer # None /\ UNCHANGED <<shard, meta, dataloader>>
    BY <1>4 DEF Restart, storeVars, Iter, None
  <2>2. run' # 1
    BY <1>1, <1>4, ConstantTypes DEF Restart, TypeOK
  <2>3. Settled(pointer) /\ MilestoneDue(pointer)
    BY <2>1, <2>2 DEF PointerSettled, SavedOnce, MilestoneDue
  <2>4. ASSUME NEW r \in Rank, NEW k \in Key
        PROVE  WontSubmit(r, pointer)' /\ PastKey(r, pointer, k)'
    <3>1. iteration'[r] = pointer /\ pc'[r] = "train" /\ staging'[r] # pointer
      BY <1>1, <1>4, <2>1, RestartIterations DEF Restart
    <3> QED BY <2>1, <2>3, <3>1 DEF WontSubmit, PastKey, Saving, MilestoneDue, Iter
  <2>5. ASSUME NEW k \in Key PROVE KeySettled(pointer, k)'
    <3>1. KeySettled(pointer, k)
      BY <2>3 DEF Settled
    <3> QED BY <2>1, <2>4, <3>1 DEF KeySettled, KeyStored
  <2> QED BY <2>5 DEF Settled
<1>5. CASE ~BgTruncatePointer /\ ~BgWritePointer /\ ~Restart
  <2>1. pointer' = pointer /\ run' = run
    BY <1>5, PointerStays, RunStays
  <2>2. ASSUME NEW j, j = pointer, Settled(j) PROVE Settled(j)'
    BY <1>5, <2>2, SettledStays
  <2>3. Settled(pointer) => Settled(pointer)'
    BY <2>1, <2>2 DEF Settled, KeySettled, KeyStored, WontSubmit, PastKey
  <2> QED BY <2>1, <2>3 DEF PointerSettled, SavedOnce, MilestoneDue
<1> QED BY <1>2, <1>3, <1>4, <1>5

LEMMA InitPointerSettled == Init => PointerSettled
BY DEF Init, PointerSettled, Iter, None

LEMMA PointerSettledCorrect == Spec => [](StoreInvariant /\ PointerSettled)
<1>1. Init => StoreInvariant /\ PointerSettled
  BY InitStoreInvariant, InitPointerSettled
<1>2. StoreInvariant /\ PointerSettled /\ [Next]_vars => (StoreInvariant /\ PointerSettled)'
  BY NextStore, NextPointerSettled
<1> QED BY <1>1, <1>2, PTL DEF Spec

(* Whatever happens, crashes, failures and relaunches included, the           *)
(* checkpoint latest_checkpoint.txt names can be loaded: metadata and shards   *)
(* of one iteration and of one run.  (The exception is a job that was          *)
(* relaunched and whose pointer is at a last iteration that is no milestone:   *)
(* a relaunch saves such an iteration again, in place.)                        *)
THEOREM PublishedLoadableCorrect == Spec => []PublishedLoadable
<1>1. StoreInvariant /\ PointerSettled => PublishedLoadable
  <2> SUFFICES ASSUME StoreInvariant, PointerSettled, pointer \in Iter, SavedOnce
               PROVE  Loadable(pointer)
    BY DEF PublishedLoadable
  <2>1. Complete(pointer)
    BY SettledComplete DEF PointerSettled
  <2>2. meta[pointer][1].iter # 0 /\ 1 \in Key
    BY <2>1, ConstantTypes DEF Complete, Key, Iter
  <2>3. meta[pointer] # [k \in Key |-> Absent]
    BY <2>2 DEF Absent
  <2> QED BY <2>1, <2>3 DEF Loadable
<1> QED BY <1>1, PointerSettledCorrect, PTL

(* And every rank's dataloader file of that checkpoint was written by the    *)
(* same run as the rest of it, with the same exception.                      *)
THEOREM PublishedDataloaderCorrect == Spec => []PublishedDataloader
<1>1. PointerSettled => PublishedDataloader
  BY ConstantTypes DEF PointerSettled, PublishedDataloader, Settled, KeySettled, KeyStored, Key
<1> QED BY <1>1, PointerSettledCorrect, PTL

-----------------------------------------------------------------------------
LEMMA InitPointer == Init => PointerInv
<1> SUFFICES ASSUME Init PROVE PointerInv
  OBVIOUS
<1>1. /\ pc[Rank0] = "train" /\ iteration[Rank0] = 0 /\ staging[Rank0] = None
      /\ recvQ[Rank0] = <<>> /\ Len(confirmed[Rank0]) = 0 /\ bgPhase[Rank0] = "idle"
  BY RankAssumption, EmptySeq DEF Init
<1> QED BY <1>1 DEF PointerInv, PointerKnown, ConfirmedKnown, LastHandedOver, HandedOver, EndQuiet,
       ExitsWhenTold, Answered, Ending

(* Nothing of rank 0 and of the pointer has changed. *)
LEMMA PointerInvStays ==
  ASSUME PointerInv, UNCHANGED <<Local(Rank0), pointer>>
  PROVE  PointerInv'
BY DEF PointerInv, PointerKnown, ConfirmedKnown, LastHandedOver, HandedOver, EndQuiet,
       ExitsWhenTold, Answered, MilestoneDue, Local

(* Rank 0 confirms the save the pointer names. *)
LEMMA ConfirmPointer ==
  ASSUME StoreInvariant, PointerInv, MayPoll(Rank0), Head(recvQ[Rank0]).ok, Confirm(Rank0),
         UNCHANGED <<staging[Rank0], iteration[Rank0], pointer, bgPhase[Rank0]>>,
         \/ pc[Rank0] = "stepEnd" /\ pc'[Rank0] = "train"
         \/ pc[Rank0] = "finalize" /\ pc'[Rank0] = "terminate"
         \/ pc[Rank0] = "save" /\ pc'[Rank0] \in {"export", "dataloader", "stage"}
  PROVE  PointerInv'
<1> USE RankAssumption DEF StoreInvariant, SlotInvariant, TypeInv
<1> DEFINE m == Head(recvQ[Rank0]).iter
<1>1. /\ m \in Iter /\ m = staging[Rank0] /\ pointer = staging[Rank0] /\ Answered(Rank0)
  BY AnswerType DEF StoreInv, Writes, PointerInv, PointerKnown, Answered, MayPoll
<1>2. /\ confirmed[Rank0] \in Seq(Iter)
      /\ confirmed'[Rank0] = Append(confirmed[Rank0], m)
      /\ recvQ'[Rank0] = <<>> /\ ~inProgress'[Rank0]
  BY TailOfOne DEF Confirm, SlotInv, OnePlace, MayPoll, TypeOK
<1>3. \A n \in 1..Len(confirmed'[Rank0]) : confirmed'[Rank0][n] <= staging[Rank0]
  <2>1. /\ Len(confirmed'[Rank0]) = Len(confirmed[Rank0]) + 1
        /\ \A n \in 1..Len(confirmed[Rank0]) : confirmed'[Rank0][n] = confirmed[Rank0][n]
        /\ confirmed'[Rank0][Len(confirmed[Rank0]) + 1] = m
        /\ Len(confirmed[Rank0]) \in Nat
    BY <1>1, <1>2, AppendProperties, LenProperties
  <2>2. \A n \in 1..Len(confirmed[Rank0]) : confirmed[Rank0][n] <= staging[Rank0]
    BY DEF PointerInv, ConfirmedKnown
  <2>3. m <= staging[Rank0]
    BY <1>1 DEF Iter
  <2> SUFFICES ASSUME NEW n \in 1..Len(confirmed'[Rank0])
               PROVE  confirmed'[Rank0][n] <= staging[Rank0]
    OBVIOUS
  <2>4. n \in 1..Len(confirmed[Rank0]) \/ n = Len(confirmed[Rank0]) + 1
    BY <2>1
  <2> QED BY <2>1, <2>2, <2>3, <2>4
<1>4. PointerKnown' /\ ConfirmedKnown'
  BY <1>1, <1>2, <1>3 DEF PointerKnown, ConfirmedKnown, Answered
<1>5. LastHandedOver'
  BY DEF PointerInv, LastHandedOver, HandedOver, MilestoneDue, Ending
<1>6. EndQuiet' /\ ExitsWhenTold'
  BY <1>2 DEF PointerInv, EndQuiet, ExitsWhenTold
<1> QED BY <1>4, <1>5, <1>6 DEF PointerInv

LEMMA MainPointer ==
  ASSUME StoreInvariant, PointerInv, Main(Rank0)
  PROVE  PointerInv'
<1> USE RankAssumption DEF StoreInvariant, SlotInvariant, TypeInv, TypeOK
<1> DEFINE r == Rank0
<1>1. UNCHANGED <<bgPhase, pointer>>
  BY MainBackground
<1>2. ASSUME UNCHANGED <<staging[r], confirmed[r]>>, inProgress'[r] = inProgress[r],
             recvQ'[r] = recvQ[r] \/ recvQ'[r] = <<>>, pc[r] \notin {"failed", "down"}, pc'[r] # "down"
      PROVE  PointerKnown' /\ ConfirmedKnown'
  BY <1>1, <1>2 DEF PointerInv, PointerKnown, ConfirmedKnown, Answered
<1>3. CASE OptimizerStep(r)
  <2>1. /\ pc[r] = "train" /\ pc'[r] \in {"save", "stepEnd"} /\ iteration'[r] = iteration[r] + 1
        /\ pc'[r] = "stepEnd" => ~MilestoneDue(iteration[r] + 1)
        /\ UNCHANGED <<staging, confirmed, inProgress, recvQ>>
    BY <1>3 DEF OptimizerStep
  <2>2. ~HandedOver'
    BY <2>1 DEF HandedOver, Ending, MilestoneDue
  <2> QED BY <1>1, <1>2, <2>1, <2>2 DEF PointerInv, LastHandedOver, EndQuiet, ExitsWhenTold
<1>4. CASE EndTraining(r)
  <2>1. /\ pc[r] = "train" /\ pc'[r] \in {"save", "trainEnd"} /\ iteration'[r] = iteration[r]
        /\ pc'[r] = "trainEnd" => MilestoneDue(iteration[r]) /\ iteration[r] > 0
        /\ UNCHANGED <<staging, confirmed, inProgress, recvQ>>
    BY <1>4, ConstantTypes DEF EndTraining, AfterLoop
  <2>2. LastHandedOver'
    BY <1>1, <2>1 DEF PointerInv, LastHandedOver, HandedOver, Ending
  <2> QED BY <1>1, <1>2, <2>1, <2>2 DEF PointerInv, EndQuiet, ExitsWhenTold
<1>5. CASE PollNothing(r) \/ PollFailure(r)
  <2>1. /\ pc[r] = "stepEnd" /\ pc'[r] = "train" /\ iteration'[r] = iteration[r]
        /\ UNCHANGED <<staging, confirmed, inProgress>>
    BY <1>5 DEF PollNothing, PollFailure
  <2>2. recvQ'[r] = recvQ[r] \/ recvQ'[r] = <<>>
    <3>1. CASE PollFailure(r)
      BY <3>1, TailOfOne DEF PollFailure, MayPoll, SlotInv, OnePlace
    <3> QED BY <1>5, <3>1 DEF PollNothing
  <2>3. LastHandedOver'
    BY <1>1, <2>1 DEF PointerInv, LastHandedOver, HandedOver, Ending, MilestoneDue
  <2> QED BY <1>1, <1>2, <2>1, <2>2, <2>3 DEF PointerInv, EndQuiet, ExitsWhenTold
<1>6. CASE PollSuccess(r)
  BY <1>1, <1>6, ConfirmPointer DEF PollSuccess
<1>7. CASE WaitSuccess(r)
  <2>1. \/ pc[r] = "finalize" /\ pc'[r] = "terminate"
        \/ pc[r] = "save" /\ pc'[r] \in {"export", "dataloader", "stage"}
    BY <1>7 DEF WaitSuccess, Waiting, AfterWait, AfterExport
  <2> QED BY <1>1, <1>7, <2>1, ConfirmPointer DEF WaitSuccess
<1>8. CASE WaitIdle(r)
  <2>1. /\ \/ pc[r] = "finalize" /\ pc'[r] = "terminate"
           \/ pc[r] = "save" /\ pc'[r] \in {"export", "dataloader", "stage"}
        /\ iteration'[r] = iteration[r] /\ UNCHANGED <<staging, confirmed, inProgress, recvQ>>
    BY <1>8 DEF WaitIdle, Waiting, AfterWait, AfterExport
  <2>2. LastHandedOver'
    BY <1>1, <2>1 DEF PointerInv, LastHandedOver, HandedOver, Ending
  <2> QED BY <1>1, <1>2, <2>1, <2>2 DEF PointerInv, EndQuiet, ExitsWhenTold
<1>9. CASE WaitFailure(r) \/ WaitDeferred(r) \/ WaitTimeout(r) \/ RaiseExportError(r) \/ WriteDataloaderFails(r)
  <2>1. /\ pc'[r] = "failed" /\ UNCHANGED <<staging, confirmed>>
        /\ pc[r] \in {"save", "finalize", "launch", "trainEnd", "dataloader"}
    BY <1>9 DEF WaitFailure, WaitDeferred, WaitTimeout, RaiseExportError, WriteDataloaderFails, Waiting
  <2>2. recvQ'[r] = recvQ[r] \/ recvQ'[r] = <<>>
    <3>1. CASE WaitFailure(r)
      BY <3>1, TailOfOne DEF WaitFailure, MayPoll, SlotInv, OnePlace
    <3> QED BY <1>9, <3>1 DEF WaitDeferred, WaitTimeout, RaiseExportError, WriteDataloaderFails
  <2>3. PointerKnown' /\ ConfirmedKnown'
    BY <1>1, <2>1, <2>2 DEF PointerInv, PointerKnown, ConfirmedKnown, Answered
  <2>4. ~HandedOver'
    BY <2>1 DEF HandedOver, Ending
  <2> QED BY <1>1, <2>1, <2>3, <2>4 DEF PointerInv, LastHandedOver, EndQuiet, ExitsWhenTold
<1>10. CASE LaunchExport(r) \/ WriteDataloader(r)
  <2>1. /\ pc[r] \in {"launch", "dataloader"} /\ pc'[r] \in {"dataloader", "stage"}
        /\ iteration'[r] = iteration[r] /\ UNCHANGED <<staging, confirmed, inProgress, recvQ>>
    BY <1>10 DEF LaunchExport, WriteDataloader, AfterExport
  <2>2. ~HandedOver'
    BY <2>1 DEF HandedOver, Ending
  <2> QED BY <1>1, <1>2, <2>1, <2>2 DEF PointerInv, LastHandedOver, EndQuiet, ExitsWhenTold
<1>11. CASE StageAndSubmit(r)
  <2>1. /\ pc[r] = "stage" /\ pc'[r] \in {"stepEnd", "trainEnd"} /\ iteration'[r] = iteration[r]
        /\ staging'[r] = iteration[r] /\ inProgress'[r] /\ UNCHANGED <<confirmed, recvQ>>
    BY <1>11 DEF StageAndSubmit, AfterLoop
  <2>2. recvQ[r] = <<>>
    BY <2>1 DEF SlotInv, Quiet, OnePlace, Answered
  <2>3. staging[r] <= iteration[r] /\ staging[r] \in Int /\ iteration[r] \in Int
    BY ConstantTypes DEF StoreInv, Submits, WontSubmit, None
  <2>4. \A n \in 1..Len(confirmed[r]) : confirmed[r][n] <= iteration[r]
    <3>1. \A n \in 1..Len(confirmed[r]) : confirmed[r][n] <= staging[r]
      BY <2>1 DEF PointerInv, ConfirmedKnown
    <3>2. confirmed[r] \in Seq(Iter)
      OBVIOUS
    <3>3. \A n \in 1..Len(confirmed[r]) : confirmed[r][n] \in Iter
      BY <3>2, ElementOfSeq
    <3> QED BY <2>3, <3>1, <3>3 DEF Iter
  <2>5. PointerKnown'
    BY <2>1, <2>2 DEF PointerKnown, Answered
  <2>6. ConfirmedKnown'
    BY <1>1, <2>1, <2>4 DEF PointerInv, ConfirmedKnown
  <2> QED BY <1>1, <2>1, <2>5, <2>6 DEF PointerInv, LastHandedOver, EndQuiet, ExitsWhenTold
<1>12. CASE JoinExport(r) \/ FinalizeDead(r) \/ SendTerminate(r) \/ Join(r) \/ PassBarrier(r)
  <2>1. /\ iteration'[r] = iteration[r] /\ UNCHANGED <<staging, confirmed, inProgress, recvQ>>
        /\ pc[r] \in Ending \ {"failed", "down"} /\ pc'[r] \in Ending \ {"failed", "down"}
    BY <1>12 DEF JoinExport, FinalizeDead, SendTerminate, Join, PassBarrier, Ending
  <2>2. LastHandedOver'
    BY <1>1, <2>1 DEF PointerInv, LastHandedOver, HandedOver
  <2>3. EndQuiet' /\ ExitsWhenTold'
    <3>1. CASE JoinExport(r) \/ FinalizeDead(r)
      BY <1>1, <2>1, <3>1 DEF JoinExport, FinalizeDead, PointerInv, EndQuiet, ExitsWhenTold, BgAlive
    <3>2. CASE SendTerminate(r)
      BY <1>1, <2>1, <3>2 DEF SendTerminate, PointerInv, EndQuiet, ExitsWhenTold, SlotInv, Quiet
    <3>3. CASE Join(r) \/ PassBarrier(r)
      BY <1>1, <2>1, <3>3 DEF Join, PassBarrier, PointerInv, EndQuiet, ExitsWhenTold
    <3> QED BY <1>12, <3>1, <3>2, <3>3
  <2> QED BY <1>2, <2>1, <2>2, <2>3 DEF PointerInv, Ending
<1> QED BY <1>3, <1>4, <1>5, <1>6, <1>7, <1>8, <1>9, <1>10, <1>11, <1>12 DEF Main

LEMMA BackgroundPointer ==
  ASSUME StoreInvariant, PointerInv, Background(Rank0) \/ Coordinator \/ BgDie(Rank0)
  PROVE  PointerInv'
<1> USE RankAssumption DEF StoreInvariant, SlotInvariant, TypeInv, TypeOK, mainVars
<1> DEFINE r == Rank0
<1>1. UNCHANGED mainVars
  BY DEF Background, BgTake, BgTerminate, BgPlan, BgWrite, BgLeave, BgError, Coordinator, BgCommit,
     BgTruncatePointer, BgWritePointer, BgDie
<1>2. bgPhase[r] \notin {"exited", "dead"}
  BY DEF Background, BgTake, BgTerminate, BgPlan, BgWrite, BgLeave, BgError, Coordinator, BgCommit,
     BgTruncatePointer, BgWritePointer, BgDie, BgAlive
<1>3. EndQuiet'
  BY <1>1, <1>2 DEF PointerInv, EndQuiet
<1>4. ASSUME pointer' = pointer PROVE LastHandedOver'
  BY <1>1, <1>4 DEF PointerInv, LastHandedOver, HandedOver, MilestoneDue
<1>5. ASSUME recvQ'[r] = recvQ[r], pointer' = pointer PROVE PointerKnown' /\ ConfirmedKnown'
  BY <1>1, <1>5 DEF PointerInv, PointerKnown, ConfirmedKnown, Answered
<1>6. ASSUME bgPhase'[r] # "exited" PROVE ExitsWhenTold'
  BY <1>1, <1>6 DEF PointerInv, ExitsWhenTold
<1>7. Busy(r) => /\ ~Answered(r) /\ inProgress[r] /\ staging[r] = bgJob[r] /\ staging[r] # None
                 /\ pc[r] # "down"
  BY DEF SlotInv, OnePlace, HoldsStaged, JobIsIteration, Iter, None, PointerInv, ExitsWhenTold
<1>8. CASE BgTake(r) \/ BgPlan(r) \/ BgWrite(r) \/ BgDie(r) \/ BgCommit
  <2>1. /\ UNCHANGED <<recvQ, pointer>> /\ bgPhase'[r] # "exited"
    BY <1>8 DEF BgTake, BgPlan, BgWrite, BgDie, BgCommit, NextKey, storeVars
  <2> QED BY <1>3, <1>4, <1>5, <1>6, <2>1 DEF PointerInv
<1>9. CASE BgTerminate(r)
  <2>1. UNCHANGED <<recvQ, pointer>>
    BY <1>9 DEF BgTerminate, storeVars
  <2>2. ExitsWhenTold'
    BY <1>1, <1>9 DEF BgTerminate, SlotInv, TerminateIsLast, PointerInv, ExitsWhenTold
  <2> QED BY <1>3, <1>4, <1>5, <2>1, <2>2 DEF PointerInv
<1>10. CASE BgError(r)
  <2>1. Busy(r) /\ pointer' = pointer /\ bgPhase'[r] = "idle" /\ Answers(r, FALSE)
    BY <1>1, <1>10 DEF BgError, Report, Busy, storeVars, Answers
  <2>2. ~Head(recvQ'[r]).ok
    BY <2>1, AnswerAlone
  <2>3. PointerKnown' /\ ConfirmedKnown'
    BY <1>1, <1>7, <2>1, <2>2 DEF PointerInv, PointerKnown, ConfirmedKnown
  <2> QED BY <1>3, <1>4, <1>6, <2>1, <2>3 DEF PointerInv
<1>11. CASE BgTruncatePointer
  <2>1. Busy(r) /\ pointer' = Truncated /\ bgPhase'[r] # "exited" /\ recvQ' = recvQ
    BY <1>11 DEF BgTruncatePointer, Busy
  <2>2. PointerKnown' /\ ConfirmedKnown'
    BY <1>1, <1>7, <2>1 DEF PointerInv, PointerKnown, ConfirmedKnown, Answered
  <2>3. LastHandedOver'
    BY <1>1, <1>7, <2>1 DEF PointerInv, LastHandedOver, HandedOver, MilestoneDue
  <2> QED BY <1>3, <1>6, <2>1, <2>2, <2>3 DEF PointerInv
<1>12. CASE BgWritePointer
  <2>1. Busy(r) /\ pointer' = staging[r] /\ bgPhase'[r] = "idle"
    BY <1>7, <1>12 DEF BgWritePointer, Report, Busy
  <2>2. PointerKnown' /\ ConfirmedKnown'
    BY <1>1, <1>7, <2>1 DEF PointerInv, PointerKnown, ConfirmedKnown
  <2>3. LastHandedOver'
    BY <1>1, <1>7, <2>1 DEF PointerInv, LastHandedOver, HandedOver, MilestoneDue
  <2> QED BY <1>3, <1>6, <2>1, <2>2, <2>3 DEF PointerInv
<1>13. ~BgLeave(r)
  BY DEF BgLeave
<1> QED BY <1>8, <1>9, <1>10, <1>11, <1>12, <1>13 DEF Background, Coordinator

LEMMA NextPointer == PointerInvariant /\ [Next]_vars => PointerInvariant'
<1> SUFFICES ASSUME PointerInvariant, [Next]_vars PROVE PointerInvariant'
  OBVIOUS
<1>1. StoreInvariant'
  BY NextStore DEF PointerInvariant
<1>2. PointerInv'
  <2> USE RankAssumption DEF PointerInvariant
  <2>1. TypeInv
    BY DEF StoreInvariant, SlotInvariant
  <2>2. CASE Main(Rank0)
    BY <2>2, MainPointer
  <2>3. CASE Background(Rank0) \/ Coordinator \/ BgDie(Rank0)
    BY <2>3, BackgroundPointer
  <2>4. ASSUME NEW q \in Rank, q # Rank0, Main(q) \/ Background(q) \/ BgDie(q)
        PROVE  PointerInv'
    <3>1. UNCHANGED Local(Rank0)
      BY <2>1, <2>4, RankFrame
    <3>2. pointer' = pointer
      <4>1. CASE Main(q)
        BY <4>1, MainBackground
      <4> QED BY <2>4, <4>1 DEF Background, BgTake, BgTerminate, BgPlan, BgWrite, BgLeave, BgError,
                 BgDie, storeVars
    <3> QED BY <3>1, <3>2, PointerInvStays
  <2>5. CASE Exporter \/ Fault \/ Stopped \/ UNCHANGED vars
    <3>1. UNCHANGED <<Local(Rank0), pointer>>
      BY <2>5 DEF Exporter, ExportDone, ExportFails, Fault, Stopped, vars, mainVars, bgVars, storeVars,
         Local
    <3> QED BY <3>1, PointerInvStays
  <2>6. CASE GatherWeights
    <3>1. /\ pc[Rank0] = "export" /\ pc'[Rank0] = "launch"
          /\ UNCHANGED <<iteration, staging, inProgress, confirmed, recvQ, bgPhase, pointer>>
      BY <2>6 DEF GatherWeights, bgVars, storeVars
    <3> QED BY <3>1 DEF PointerInv, PointerKnown, ConfirmedKnown, LastHandedOver, HandedOver, EndQuiet,
               ExitsWhenTold, Answered, Ending
  <2>7. CASE KillAll
    <3>1. /\ pc'[Rank0] = "down" /\ recvQ'[Rank0] = <<>> /\ ~inProgress'[Rank0]
          /\ bgPhase'[Rank0] = "dead" /\ UNCHANGED <<pointer, confirmed>>
      BY <2>7 DEF KillAll, storeVars
    <3> QED BY <3>1 DEF PointerInv, PointerKnown, ConfirmedKnown, LastHandedOver, HandedOver, EndQuiet,
               ExitsWhenTold, Answered, Ending
  <2>8. CASE Restart
    <3>1. /\ pc'[Rank0] = "train" /\ recvQ'[Rank0] = <<>> /\ Len(confirmed'[Rank0]) = 0
          /\ staging'[Rank0] = None /\ bgPhase'[Rank0] = "idle" /\ pointer' = pointer
      BY <2>8, EmptySeq DEF Restart, storeVars
    <3>2. iteration'[Rank0] = IF pointer = None THEN 0 ELSE pointer
      BY <2>1, <2>8, RestartIterations
    <3> QED BY <3>1, <3>2 DEF PointerInv, PointerKnown, ConfirmedKnown, LastHandedOver, HandedOver,
               EndQuiet, ExitsWhenTold, Answered, Ending, None
  <2> QED BY <2>2, <2>3, <2>4, <2>5, <2>6, <2>7, <2>8 DEF Next, Environment, Crash, Teardown
<1> QED BY <1>1, <1>2 DEF PointerInvariant

LEMMA PointerCorrect == Spec => []PointerInvariant
<1>1. Init => PointerInvariant
  BY InitStoreInvariant, InitPointer DEF PointerInvariant
<1> QED BY <1>1, NextPointer, PTL DEF Spec

(* A relaunched job resumes every rank from one iteration, and never from    *)
(* before a save whose success rank 0 reported, wherever it was killed.      *)
THEOREM RestartKeepsConfirmedCorrect == Spec => RestartKeepsConfirmed
<1> DEFINE Kept == \A r \in Rank :
             /\ \A n \in 1..Len(confirmed[Rank0]) : confirmed[Rank0][n] <= iteration'[r]
             /\ iteration'[r] = iteration'[Rank0]
<1>1. PointerInvariant /\ [Next]_vars => [run' # run => Kept]_vars
  <2> SUFFICES ASSUME PointerInvariant, [Next]_vars, run' # run PROVE Kept
    OBVIOUS
  <2>1. Restart
    BY RunStays
  <2>2. TypeInv
    BY DEF PointerInvariant, StoreInvariant, SlotInvariant
  <2>3. pointer # Truncated
    BY <2>1 DEF Restart, Loadable, Iter, Truncated, None
  <2>4. \A r \in Rank : iteration'[r] = pointer
    BY <2>1, <2>2, RestartIterations DEF None
  <2> QED BY <2>3, <2>4, RankAssumption DEF PointerInvariant, PointerInv, ConfirmedKnown
<1> QED BY <1>1, PointerCorrect, PTL DEF Spec, RestartKeepsConfirmed

(* A job that ran to its end, with its background processes told to stop,    *)
(* has published its last iteration.                                         *)
THEOREM DoneMeansPublishedCorrect == Spec => []DoneMeansPublished
<1>1. PointerInvariant => DoneMeansPublished
  <2> SUFFICES ASSUME PointerInvariant, pc[Rank0] = "done", bgPhase[Rank0] = "exited"
               PROVE  pointer = MaxIter
    BY RankAssumption DEF DoneMeansPublished
  <2>1. iteration[Rank0] = MaxIter /\ MaxIter # None
    BY RankAssumption, ConstantTypes DEF PointerInvariant, StoreInvariant, StoreInv, Submits, Ending, None
  <2>2. ~inProgress[Rank0]
    BY DEF PointerInvariant, PointerInv, EndQuiet
  <2>3. staging[Rank0] = MaxIter \/ pointer = MaxIter
    BY <2>1 DEF PointerInvariant, PointerInv, LastHandedOver, HandedOver, Ending
  <2> QED BY <2>1, <2>2, <2>3 DEF PointerInvariant, PointerInv, PointerKnown
<1> QED BY <1>1, PointerCorrect, PTL

-----------------------------------------------------------------------------
(***************************************************************************)
(* The refinement.  Rank 0's main process and the pointer behave as         *)
(* DurableProgress says: on an object store the pointer changes in one step, *)
(* on a filesystem it is torn in between.                                    *)
(***************************************************************************)
LEMMA NextTorn ==
  ASSUME PointerInvariant, TornWhileSaving, [Next]_vars
  PROVE  TornWhileSaving'
<1> USE RankAssumption DEF TornWhileSaving
<1>1. TypeInv /\ TypeOK /\ SlotInv(Rank0) /\ StoreInvariant
  BY DEF PointerInvariant, StoreInvariant, SlotInvariant, TypeInv
<1>2. CASE BgTruncatePointer
  BY <1>1, <1>2 DEF BgTruncatePointer, mainVars, SlotInv, OnePlace, Busy
<1>3. CASE BgWritePointer
  <2>1. pointer' \in Iter
    BY <1>1, <1>3 DEF BgWritePointer, TypeInv, JobIsIteration, Busy
  <2> QED BY <2>1 DEF Iter, Truncated
<1>4. CASE ~BgTruncatePointer /\ ~BgWritePointer
  <2>1. pointer' = pointer
    BY <1>1, <1>4, PointerStays
  <2>2. ASSUME UNCHANGED <<pc[Rank0], inProgress[Rank0]>> PROVE TornWhileSaving'
    BY <2>1, <2>2
  <2>3. CASE Main(Rank0)
    <3>1. CASE PollSuccess(Rank0) \/ WaitSuccess(Rank0)
      <4>1. pointer = staging[Rank0]
        BY <3>1 DEF PollSuccess, WaitSuccess, MayPoll, Answered, PointerInvariant, PointerInv, PointerKnown
      <4>2. pointer # Truncated
        BY <1>1, <4>1, ConstantTypes DEF TypeOK, Truncated
      <4> QED BY <2>1, <4>2
    <3>2. CASE WaitFailure(Rank0) \/ WaitDeferred(Rank0) \/ WaitTimeout(Rank0)
               \/ RaiseExportError(Rank0) \/ WriteDataloaderFails(Rank0)
      BY <1>1, <3>2 DEF WaitFailure, WaitDeferred, WaitTimeout, RaiseExportError, WriteDataloaderFails,
         TypeOK
    <3>3. CASE StageAndSubmit(Rank0)
      BY <1>1, <3>3 DEF StageAndSubmit, TypeOK
    <3>4. CASE OptimizerStep(Rank0) \/ EndTraining(Rank0) \/ PollNothing(Rank0) \/ PollFailure(Rank0)
      BY <2>1, <3>4 DEF OptimizerStep, EndTraining, PollNothing, PollFailure
    <3>5. CASE WaitIdle(Rank0) \/ LaunchExport(Rank0) \/ JoinExport(Rank0) \/ WriteDataloader(Rank0)
      BY <2>1, <3>5 DEF WaitIdle, Waiting, LaunchExport, JoinExport, WriteDataloader
    <3>6. CASE FinalizeDead(Rank0) \/ SendTerminate(Rank0) \/ Join(Rank0) \/ PassBarrier(Rank0)
      BY <2>1, <3>6 DEF FinalizeDead, SendTerminate, Join, PassBarrier
    <3> QED BY <2>3, <3>1, <3>2, <3>3, <3>4, <3>5, <3>6 DEF Main
  <2>4. ASSUME NEW q \in Rank, q # Rank0, Main(q) PROVE TornWhileSaving'
    BY <1>1, <2>2, <2>4, RankFrame DEF Local
  <2>5. ASSUME NEW q \in Rank, Background(q) \/ BgDie(q) PROVE TornWhileSaving'
    BY <2>2, <2>5 DEF Background, BgTake, BgTerminate, BgPlan, BgWrite, BgLeave, BgError, BgDie, mainVars
  <2>6. CASE BgCommit \/ Exporter \/ Fault \/ Stopped \/ UNCHANGED vars
    BY <2>2, <2>6 DEF BgCommit, Exporter, ExportDone, ExportFails, Fault, Stopped, vars, mainVars
  <2>7. CASE GatherWeights
    BY <2>1, <2>7 DEF GatherWeights
  <2>8. CASE KillAll
    BY <2>8 DEF KillAll
  <2>9. CASE Restart
    BY <2>1, <2>9 DEF Restart, Loadable, Iter, Truncated, None
  <2> QED BY <1>4, <2>3, <2>4, <2>5, <2>6, <2>7, <2>8, <2>9
          DEF Next, Environment, Crash, Teardown, Coordinator
<1> QED BY <1>2, <1>3, <1>4

TornInvariant == PointerInvariant /\ TornWhileSaving

InFlight == IF inProgress[Rank0] THEN staging[Rank0] ELSE pointer
Halted == pc[Rank0] \in {"failed", "down"}

\* The abstract actions, read through the mapping.
AbstractTrain ==
  /\ ~Halted /\ iteration[Rank0] < MaxIter
  /\ iteration'[Rank0] = iteration[Rank0] + 1
  /\ InFlight' = InFlight /\ pointer' = pointer /\ Halted' = Halted

AbstractSubmit ==
  /\ ~Halted /\ InFlight = pointer /\ pointer # Truncated
  /\ InFlight' = iteration[Rank0]
  /\ iteration'[Rank0] = iteration[Rank0] /\ pointer' = pointer /\ Halted' = Halted

AbstractTear ==
  /\ InFlight # Truncated /\ pointer' = Truncated
  /\ iteration'[Rank0] = iteration[Rank0] /\ InFlight' = InFlight /\ Halted' = Halted

AbstractPublish ==
  /\ pointer' = InFlight
  /\ iteration'[Rank0] = iteration[Rank0] /\ InFlight' = InFlight /\ Halted' = Halted

AbstractHalt ==
  /\ Halted' /\ InFlight' \in {InFlight, pointer}
  /\ iteration'[Rank0] = iteration[Rank0] /\ pointer' = pointer

AbstractRestart ==
  /\ pointer # Truncated
  /\ iteration'[Rank0] = pointer /\ InFlight' = pointer /\ ~Halted' /\ pointer' = pointer

AbstractStutter ==
  iteration'[Rank0] = iteration[Rank0] /\ InFlight' = InFlight /\ pointer' = pointer /\ Halted' = Halted

AbstractStep ==
  \/ AbstractTrain \/ AbstractSubmit \/ AbstractTear \/ AbstractPublish
  \/ AbstractHalt \/ AbstractRestart \/ AbstractStutter

(* Rank 0's main process trains, hands over, or stops; the rest is invisible. *)
LEMMA MainRefines ==
  ASSUME TornInvariant, Main(Rank0)
  PROVE  AbstractStep
<1> USE RankAssumption
    DEF TornInvariant, PointerInvariant, StoreInvariant, SlotInvariant, TypeInv, TypeOK, InFlight, Halted
<1> DEFINE r == Rank0
<1>1. pointer' = pointer
  BY MainBackground
<1>2. CASE OptimizerStep(r)
  <2>1. /\ pc[r] = "train" /\ pc'[r] \in {"save", "stepEnd"} /\ iteration[r] < MaxIter
        /\ iteration'[r] = iteration[r] + 1 /\ UNCHANGED <<staging, inProgress>>
    BY <1>2 DEF OptimizerStep
  <2> QED BY <1>1, <2>1 DEF AbstractStep, AbstractTrain
<1>3. CASE EndTraining(r) \/ PollNothing(r) \/ PollFailure(r) \/ WaitIdle(r)
  <2>1. /\ pc[r] \notin {"failed", "down"} /\ pc'[r] \notin {"failed", "down"}
        /\ UNCHANGED <<staging, inProgress, iteration>>
    BY <1>3 DEF EndTraining, PollNothing, PollFailure, WaitIdle, Waiting, AfterLoop, AfterWait,
       AfterExport
  <2> QED BY <1>1, <2>1 DEF AbstractStep, AbstractStutter
<1>4. CASE PollSuccess(r) \/ WaitSuccess(r)
  <2>1. /\ pc[r] \notin {"failed", "down"} /\ pc'[r] \notin {"failed", "down"}
        /\ UNCHANGED <<staging, iteration>> /\ inProgress[r] /\ ~inProgress'[r]
        /\ Answered(r) /\ Head(recvQ[r]).ok
    BY <1>4 DEF PollSuccess, WaitSuccess, Confirm, MayPoll, Waiting, AfterWait, AfterExport, Answered
  <2>2. pointer = staging[r]
    BY <2>1 DEF PointerInv, PointerKnown
  <2> QED BY <1>1, <2>1, <2>2 DEF AbstractStep, AbstractStutter
<1>5. CASE WaitFailure(r) \/ WaitDeferred(r) \/ WaitTimeout(r) \/ RaiseExportError(r) \/ WriteDataloaderFails(r)
  <2>1. /\ pc'[r] = "failed" /\ UNCHANGED <<staging, iteration>>
        /\ inProgress'[r] = inProgress[r] \/ ~inProgress'[r]
    BY <1>5 DEF WaitFailure, WaitDeferred, WaitTimeout, RaiseExportError, WriteDataloaderFails
  <2> QED BY <1>1, <2>1 DEF AbstractStep, AbstractHalt
<1>6. CASE LaunchExport(r) \/ WriteDataloader(r) \/ JoinExport(r)
  <2>1. /\ pc[r] \notin {"failed", "down"} /\ pc'[r] \notin {"failed", "down"}
        /\ UNCHANGED <<staging, inProgress, iteration>>
    BY <1>6 DEF LaunchExport, WriteDataloader, JoinExport, AfterExport
  <2> QED BY <1>1, <2>1 DEF AbstractStep, AbstractStutter
<1>7. CASE StageAndSubmit(r)
  <2>1. /\ pc[r] = "stage" /\ pc'[r] \notin {"failed", "down"} /\ iteration' = iteration
        /\ staging'[r] = iteration[r] /\ inProgress'[r]
    BY <1>7 DEF StageAndSubmit, AfterLoop
  <2>2. ~inProgress[r] /\ pointer # Truncated
    BY <2>1 DEF SlotInv, Quiet, TornWhileSaving
  <2> QED BY <1>1, <2>1, <2>2 DEF AbstractStep, AbstractSubmit
<1>8. CASE FinalizeDead(r) \/ SendTerminate(r) \/ Join(r) \/ PassBarrier(r)
  <2>1. /\ pc[r] \notin {"failed", "down"} /\ pc'[r] \notin {"failed", "down"}
        /\ UNCHANGED <<staging, inProgress, iteration>>
    BY <1>8 DEF FinalizeDead, SendTerminate, Join, PassBarrier
  <2> QED BY <1>1, <2>1 DEF AbstractStep, AbstractStutter
<1> QED BY <1>2, <1>3, <1>4, <1>5, <1>6, <1>7, <1>8 DEF Main

LEMMA StepRefines ==
  ASSUME TornInvariant, [Next]_vars
  PROVE  AbstractStep
<1> USE RankAssumption
<1>1. TypeInv /\ TypeOK /\ SlotInv(Rank0) /\ PointerInvariant
  BY DEF TornInvariant, PointerInvariant, TypeInv, StoreInvariant, SlotInvariant
<1>2. ASSUME UNCHANGED <<pc[Rank0], iteration[Rank0], inProgress[Rank0], staging[Rank0], pointer>>
      PROVE  AbstractStep
  BY <1>2 DEF AbstractStep, AbstractStutter, InFlight, Halted
<1>3. CASE Main(Rank0)
  BY <1>3, MainRefines
<1>4. ASSUME NEW q \in Rank, q # Rank0, Main(q) PROVE AbstractStep
  BY <1>1, <1>2, <1>4, RankFrame, MainBackground DEF Local
<1>5. ASSUME NEW q \in Rank, Background(q) \/ BgDie(q) PROVE AbstractStep
  BY <1>2, <1>5 DEF Background, BgTake, BgTerminate, BgPlan, BgWrite, BgLeave, BgError, BgDie,
     mainVars, storeVars
<1>6. CASE Coordinator
  <2>1. CASE BgWritePointer
    <3>1. Busy(Rank0) /\ pointer' = bgJob[Rank0] /\ UNCHANGED mainVars
      BY <2>1 DEF BgWritePointer, Busy
    <3>2. inProgress[Rank0] /\ staging[Rank0] = bgJob[Rank0]
      BY <1>1, <3>1 DEF SlotInv, OnePlace, HoldsStaged
    <3> QED BY <3>1, <3>2 DEF AbstractStep, AbstractPublish, InFlight, Halted, mainVars
  <2>2. CASE BgCommit
    BY <1>2, <2>2 DEF BgCommit, mainVars
  <2>3. CASE BgTruncatePointer
    <3>1. Busy(Rank0) /\ pointer' = Truncated /\ UNCHANGED mainVars
      BY <2>3 DEF BgTruncatePointer, Busy
    <3>2. inProgress[Rank0] /\ staging[Rank0] # Truncated
      BY <1>1, <3>1, ConstantTypes DEF SlotInv, OnePlace, TypeOK, Truncated
    <3> QED BY <3>1, <3>2 DEF AbstractStep, AbstractTear, InFlight, Halted, mainVars
  <2> QED BY <1>6, <2>1, <2>2, <2>3 DEF Coordinator
<1>7. CASE Exporter \/ Fault \/ Stopped \/ UNCHANGED vars
  BY <1>2, <1>7 DEF Exporter, ExportDone, ExportFails, Fault, Stopped, vars, mainVars, storeVars
<1>8. CASE GatherWeights
  <2>1. /\ pc[Rank0] = "export" /\ pc'[Rank0] = "launch"
        /\ UNCHANGED <<iteration, inProgress, staging, pointer>>
    BY <1>8 DEF GatherWeights, storeVars
  <2> QED BY <2>1 DEF AbstractStep, AbstractStutter, InFlight, Halted
<1>9. CASE KillAll
  BY <1>9 DEF KillAll, storeVars, AbstractStep, AbstractHalt, InFlight, Halted
<1>10. CASE Restart
  <2>1. iteration'[Rank0] = pointer
    BY <1>1, <1>10, RestartIterations DEF None
  <2>2. pointer # Truncated
    BY <1>10 DEF Restart, Loadable, Iter, Truncated, None
  <2> QED BY <1>10, <2>1, <2>2 DEF Restart, storeVars, AbstractStep, AbstractRestart, InFlight, Halted
<1> QED BY <1>3, <1>4, <1>5, <1>6, <1>7, <1>8, <1>9, <1>10 DEF Next, Environment, Crash, Teardown

(* Asynchronous checkpointing implements DurableProgress, on an object store  *)
(* and on a filesystem: one checkpoint is on its way at a time, the pointer    *)
(* names it after all of it is stored, a failed one stops training before the  *)
(* next is taken, a relaunch gives up exactly what came after the last         *)
(* published one, and no relaunch and no save starts from a torn pointer.      *)
THEOREM ImplementsDurableProgressCorrect == Spec => ImplementsDurableProgress
<1>1. Init => Abstract!Init /\ TornWhileSaving
  BY RankAssumption DEF Init, Abstract!Init, None, TornWhileSaving, Truncated
<1>2. AbstractStep => [Abstract!Next]_(Abstract!vars)
  BY DEF AbstractStep, AbstractTrain, AbstractSubmit, AbstractTear, AbstractPublish, AbstractHalt,
     AbstractRestart, AbstractStutter, InFlight, Halted, Truncated, Abstract!Unreadable,
     Abstract!Next, Abstract!Train, Abstract!Submit, Abstract!Tear, Abstract!Publish,
     Abstract!Halt, Abstract!Restart, Abstract!vars
<1>3. TornInvariant /\ [Next]_vars => [Abstract!Next]_(Abstract!vars)
  BY <1>2, StepRefines
<1>4. PointerInvariant /\ TornWhileSaving <=> TornInvariant
  BY DEF TornInvariant
<1>5. PointerInvariant /\ TornWhileSaving /\ [Next]_vars => TornWhileSaving'
  BY NextTorn
<1> QED BY <1>1, <1>3, <1>4, <1>5, PointerCorrect, PTL DEF Spec, ImplementsDurableProgress, Abstract!Spec
=============================================================================
