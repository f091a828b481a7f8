---------------------- MODULE TerminationSignalProofs -----------------------
(***************************************************************************)
(* Proofs about TerminationSignal: what the success sentinel and a skipped *)
(* save mean, for any number of ranks, failures and deaths.                *)
(***************************************************************************)
EXTENDS TerminationSignal, TLAPS

Emergency == [iter |-> iter, kind |-> "emergency"]

(* Where a rank can be once it has submitted its emergency save. *)
Committed == {"finalize", "drain", "touch", "saved", "unmarked", "raised"}

Types ==
    /\ iter \in 0..MaxIter
    /\ pc \in [Ranks -> Pc \cup Exited]
    /\ last \in [Ranks -> Nat]
    /\ saving \in [Ranks -> Job \cup {None}]
    /\ job \in [Ranks -> Job \cup {None}]
    /\ result \in [Ranks -> {"none", "ok", "failed"}]
    /\ written \subseteq Job
    /\ pointer \in Nat
    /\ dead \subseteq Ranks

(* A writer works on, or has answered, the save its rank waits for, and     *)
(* never both.                                                              *)
Submitted ==
    \A r \in Ranks :
        /\ job[r] # None => job[r] = saving[r] /\ result[r] = "none"
        /\ result[r] # "none" => saving[r] # None

(* Success is reported for a complete write, by rank 0 after the pointer.  *)
OkMeansWritten ==
    /\ \A r \in Ranks : result[r] = "ok" => saving[r] \in written
    /\ result[0] = "ok" => pointer = saving[0].iter

(* From its submission on, a rank's emergency save is of the present       *)
(* iteration, which no rank can leave any more.                            *)
EmergencyNow ==
    \A r \in Ranks :
        /\ pc[r] \in {"finalize", "drain"} => saving[r] = Emergency
        /\ saving[r] # None /\ saving[r].kind = "emergency" => pc[r] \in Committed
        /\ pc[r] \in {"touch", "saved", "unmarked"} /\ r \notin dead => saving[r] = None

(* The collective write needs all ranks, so all have submitted it. *)
AllCommitted ==
    (\E j \in written : j.kind = "emergency") => \A r \in Ranks : pc[r] \in Committed

LastWritten ==
    \A r \in Ranks : last[r] \in {StartIter} \cup {j.iter : j \in written}

(* A save is newer than what its rank knows of, and the pointer is never    *)
(* behind what rank 0 knows of.                                             *)
PointerFollows ==
    /\ \A r \in Ranks :
         /\ last[r] <= iter
         /\ saving[r] # None => last[r] <= saving[r].iter /\ saving[r].iter <= iter
    /\ last[0] <= pointer

SignalInvariant ==
    /\ Types /\ Submitted /\ OkMeansWritten /\ EmergencyNow /\ AllCommitted /\ LastWritten
    /\ PointerFollows
    /\ SavedMeansWritten /\ SkipLosesLittle

USE SignalAssumption

LEMMA RankZero == 0 \in Ranks
BY DEF Ranks

LEMMA InitSignal == Init => SignalInvariant
BY RankZero DEF Init, SignalInvariant, Types, Submitted, OkMeansWritten, EmergencyNow, AllCommitted,
       LastWritten, PointerFollows, SavedMeansWritten, SkipLosesLittle, Pc, Exited, Committed, None, Job

USE DEF SignalInvariant, Types, Submitted, OkMeansWritten, EmergencyNow, AllCommitted,
        LastWritten, PointerFollows, SavedMeansWritten, SkipLosesLittle, Pc, Exited, Committed, Emergency,
        Goto, AllTraining, Alive, mainVars, writerVars

LEMMA SignalKeeps == ASSUME SignalInvariant, SignalArrives PROVE SignalInvariant'
BY DEF SignalArrives

LEMMA TrainKeeps == ASSUME SignalInvariant, TrainStep PROVE SignalInvariant'
<1>1. PointerFollows'
  <2>1. \A r \in Ranks : last[r] \in Nat /\ (saving[r] # None => saving[r].iter \in Nat)
    BY DEF Job
  <2> QED BY <2>1 DEF TrainStep
<1>2. iter' \in 0..MaxIter /\ (pc \in [Ranks -> Pc \cup Exited])'
  BY DEF TrainStep
<1> QED BY RankZero, <1>1, <1>2 DEF TrainStep

LEMMA EndKeeps == ASSUME SignalInvariant, EndTraining PROVE SignalInvariant'
BY RankZero DEF EndTraining

LEMMA WaitKeeps == ASSUME SignalInvariant, NEW r \in Ranks, WaitPrevious(r) PROVE SignalInvariant'
<1>1. Types'
  <2>1. saving[r].iter \in Nat
    BY DEF Job, None
  <2> QED BY <2>1 DEF WaitPrevious, TakeResult
<1>2. Submitted'
  BY RankZero DEF WaitPrevious, TakeResult, None, Job
<1>3. OkMeansWritten'
  BY RankZero DEF WaitPrevious, TakeResult, None, Job
<1>4. EmergencyNow'
  BY RankZero DEF WaitPrevious, TakeResult, None, Job
<1>5. AllCommitted'
  BY RankZero DEF WaitPrevious, TakeResult, None, Job
<1>6. LastWritten'
  BY RankZero DEF WaitPrevious, TakeResult, None, Job
<1>7. SavedMeansWritten'
  BY RankZero DEF WaitPrevious, TakeResult, None, Job
<1>8. PointerFollows'
  BY RankZero DEF WaitPrevious, TakeResult, None, Job
<1>9. SkipLosesLittle'
  BY RankZero, <1>8 DEF WaitPrevious, TakeResult, None, Job
<1> QED BY <1>1, <1>2, <1>3, <1>4, <1>5, <1>6, <1>7, <1>8, <1>9

LEMMA SubmitKeeps == ASSUME SignalInvariant, NEW r \in Ranks, Submit(r) PROVE SignalInvariant'
<1>1. Types'
  BY RankZero DEF Submit, None, Job
<1>2. Submitted'
  BY RankZero DEF Submit, None, Job
<1>3. OkMeansWritten'
  BY RankZero DEF Submit, None, Job
<1>4. EmergencyNow'
  BY RankZero DEF Submit, None, Job
<1>5. AllCommitted'
  BY RankZero DEF Submit, None, Job
<1>6. LastWritten'
  BY RankZero DEF Submit, None, Job
<1>7. SavedMeansWritten'
  BY RankZero DEF Submit, None, Job
<1>8. PointerFollows'
  BY RankZero DEF Submit, None, Job
<1>9. SkipLosesLittle'
  BY RankZero, <1>8 DEF Submit, None, Job
<1> QED BY <1>1, <1>2, <1>3, <1>4, <1>5, <1>6, <1>7, <1>8, <1>9

LEMMA ConfirmKeeps ==
  ASSUME SignalInvariant, NEW r \in Ranks, ConfirmSuccess(r) \/ ConfirmNothing(r)
  PROVE  SignalInvariant'
<1>1. Types'
  <2>1. saving[r].iter \in Nat
    BY DEF Job, None
  <2> QED BY <2>1 DEF ConfirmSuccess, ConfirmNothing, TakeResult
<1>2. Submitted'
  BY RankZero DEF ConfirmSuccess, ConfirmNothing, TakeResult, None, Job
<1>3. OkMeansWritten'
  BY RankZero DEF ConfirmSuccess, ConfirmNothing, TakeResult, None, Job
<1>4. EmergencyNow'
  BY RankZero DEF ConfirmSuccess, ConfirmNothing, TakeResult, None, Job
<1>5. AllCommitted'
  BY RankZero DEF ConfirmSuccess, ConfirmNothing, TakeResult, None, Job
<1>6. LastWritten'
  BY RankZero DEF ConfirmSuccess, ConfirmNothing, TakeResult, None, Job
<1>7. SavedMeansWritten'
  BY RankZero DEF ConfirmSuccess, ConfirmNothing, TakeResult, None, Job
<1>8. PointerFollows'
  BY RankZero DEF ConfirmSuccess, ConfirmNothing, TakeResult, None, Job
<1>9. SkipLosesLittle'
  BY RankZero, <1>8 DEF ConfirmSuccess, ConfirmNothing, TakeResult, None, Job
<1> QED BY <1>1, <1>2, <1>3, <1>4, <1>5, <1>6, <1>7, <1>8, <1>9

LEMMA FinalizeKeeps == ASSUME SignalInvariant, NEW r \in Ranks, Finalize(r) PROVE SignalInvariant'
BY RankZero DEF Finalize, None, Job

LEMMA DrainKeeps == ASSUME SignalInvariant, NEW r \in Ranks, Drain(r) PROVE SignalInvariant'
<1>1. Types'
  <2>1. saving[r].iter \in Nat
    BY DEF Job, None
  <2> QED BY <2>1 DEF Drain, TakeResult
<1>2. Submitted'
  BY RankZero DEF Drain, TakeResult, None, Job
<1>3. OkMeansWritten'
  BY RankZero DEF Drain, TakeResult, None, Job
<1>4. EmergencyNow'
  BY RankZero DEF Drain, TakeResult, None, Job
<1>5. AllCommitted'
  BY RankZero DEF Drain, TakeResult, None, Job
<1>6. LastWritten'
  BY RankZero DEF Drain, TakeResult, None, Job
<1>7. SavedMeansWritten'
  BY RankZero DEF Drain, TakeResult, None, Job
<1>8. PointerFollows'
  BY RankZero DEF Drain, TakeResult, None, Job
<1>9. SkipLosesLittle'
  BY RankZero, <1>8 DEF Drain, TakeResult, None, Job
<1> QED BY <1>1, <1>2, <1>3, <1>4, <1>5, <1>6, <1>7, <1>8, <1>9

LEMMA TimeoutKeeps == ASSUME SignalInvariant, NEW r \in Ranks, WaitTimeout(r) PROVE SignalInvariant'
BY RankZero DEF WaitTimeout

LEMMA CheckKeeps ==
  ASSUME SignalInvariant, NEW r \in Ranks, CheckNoSignal(r) \/ CheckSkip(r) \/ CheckSave(r)
  PROVE  SignalInvariant'
BY RankZero DEF CheckNoSignal, CheckSkip, CheckSave, TooClose

LEMMA TouchKeeps == ASSUME SignalInvariant, NEW r \in Ranks, Touch(r) PROVE SignalInvariant'
BY RankZero DEF Touch

LEMMA WriteKeeps == ASSUME SignalInvariant, CollectiveWrite PROVE SignalInvariant'
BY RankZero DEF CollectiveWrite, Joined, None, Job

LEMMA ReportKeeps == ASSUME SignalInvariant, NEW r \in Ranks, Report(r) PROVE SignalInvariant'
BY RankZero DEF Report, None, Job

LEMMA FailKeeps == ASSUME SignalInvariant, NEW r \in Ranks, WriteFails(r) PROVE SignalInvariant'
BY RankZero DEF WriteFails, None, Job

LEMMA DieKeeps == ASSUME SignalInvariant, NEW r \in Ranks, WriterDies(r) PROVE SignalInvariant'
BY RankZero DEF WriterDies

LEMMA NextKeeps == SignalInvariant /\ [Next]_vars => SignalInvariant'
<1> SUFFICES ASSUME SignalInvariant, [Next]_vars PROVE SignalInvariant'
  OBVIOUS
<1>1. CASE UNCHANGED vars
  BY <1>1 DEF vars
<1>2. ASSUME NEW r \in Ranks, MainStep(r) PROVE SignalInvariant'
  BY <1>2, WaitKeeps, SubmitKeeps, ConfirmKeeps, FinalizeKeeps, DrainKeeps, TimeoutKeeps,
     CheckKeeps, TouchKeeps DEF MainStep
<1> QED
  BY <1>1, <1>2, SignalKeeps, TrainKeeps, EndKeeps, WriteKeeps, ReportKeeps,
     FailKeeps, DieKeeps DEF Next

LEMMA SignalSuffices == SignalInvariant => SavedMeansWritten /\ SkipLosesLittle
OBVIOUS

HIDE DEF SignalInvariant, SavedMeansWritten, SkipLosesLittle

(* A rank whose background process is alive creates the success sentinel    *)
(* only for a checkpoint that is complete on all ranks, and rank 0 only for *)
(* the one the next segment resumes from.                                   *)
THEOREM SavedMeansWrittenCorrect == Spec => []SavedMeansWritten
<1> QED BY InitSignal, NextKeeps, SignalSuffices, PTL DEF Spec

(* A rank that exits without a save is less than MinProgress iterations     *)
(* past a complete checkpoint, or past the start.                           *)
THEOREM SkipLosesLittleCorrect == Spec => []SkipLosesLittle
<1> QED BY InitSignal, NextKeeps, SignalSuffices, PTL DEF Spec

=============================================================================
