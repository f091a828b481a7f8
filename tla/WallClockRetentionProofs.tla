---------------------- MODULE WallClockRetentionProofs ----------------------
(***************************************************************************)
(* Proofs about WallClockRetention, for any number of iterations, any       *)
(* window, any save_iter per start, and any number of failing operations.   *)
(***************************************************************************)
EXTENDS WallClockRetention, FiniteSetTheorems, WellFoundedInduction, SequenceTheorems, TLAPS

(* worker is a record with these fields, whatever they hold. *)
WorkerRecord ==
  worker = [phase |-> worker.phase, iter |-> worker.iter, by |-> worker.by, todo |-> worker.todo]

FilesType == files \in [Iter -> SUBSET File]

(* No process, no work: what a killed process had queued is gone. *)
DownIsIdle == pc = "down" => worker = Idle /\ deleteQ = <<>> /\ success = NoSuccess

(* Past _safe_to_delete the deletion thread has no milestone in hand. *)
Past == {"markers", "verify", "mark", "list", "objects", "sweep", "unmark", "husk"}
NoMilestoneInHand == worker.phase \in Past => ~IsMilestone(worker.iter)

DeleteInvariant == WorkerRecord /\ FilesType /\ DownIsIdle /\ NoMilestoneInHand

LEMMA InitDelete == Init => DeleteInvariant
BY DEF Init, DeleteInvariant, WorkerRecord, FilesType, DownIsIdle, NoMilestoneInHand, Past,
       Idle, NoSuccess

(* The main thread and the writer only add objects, and leave the deletion  *)
(* thread where it is.                                                      *)
LEMMA SavingAdds ==
  ASSUME DeleteInvariant, Trainer \/ Writer \/ Callback
  PROVE  /\ FilesType'
         /\ \A i \in Iter : files[i] \subseteq files'[i]
         /\ UNCHANGED <<worker, run>>
         /\ pc = "down" => UNCHANGED <<pc, deleteQ, success>>
<1> USE DEF DeleteInvariant, FilesType, DownIsIdle, Payload, File, storeVars, mainVars, NoSuccess
<1>1. CASE TrainStep \/ TriggerSave \/ EndTraining \/ StartSave
  BY <1>1 DEF TrainStep, TriggerSave, EndTraining, StartSave, Training
<1>2. CASE WriteShards
  BY <1>2 DEF WriteShards
<1>3. CASE WriteMetadata
  BY <1>3 DEF WriteMetadata
<1>4. CASE DispatchSuccess
  BY <1>4 DEF DispatchSuccess
<1>5. CASE MarkSaved
  BY <1>5 DEF MarkSaved
<1>6. CASE PruneAfterSave
  BY <1>6 DEF PruneAfterSave
<1> QED BY <1>1, <1>2, <1>3, <1>4, <1>5, <1>6 DEF Trainer, Writer, Callback

(* The deletion thread removes objects of the checkpoint in hand only, and   *)
(* only past _safe_to_delete.                                                *)
LEMMA EraseInHand ==
  ASSUME FilesType, worker.phase \in Past, NoMilestoneInHand, NEW f, UNCHANGED run,
         Erase(f) \/ UNCHANGED files \/ files' = [files EXCEPT ![worker.iter] = {}]
  PROVE  /\ FilesType'
         /\ \A i \in Iter : IsMilestone(i) => files[i] \subseteq files'[i]
<1>1. \A i \in Iter : IsMilestone(i) => i # worker.iter
  BY DEF NoMilestoneInHand
<1>2. FilesType'
  BY DEF FilesType, Erase
<1>3. \A i \in Iter : i # worker.iter => files'[i] = files[i]
  BY DEF FilesType, Erase
<1> QED BY <1>1, <1>2, <1>3

LEMMA DeleterRemoves ==
  ASSUME DeleteInvariant, Deleter
  PROVE  /\ DeleteInvariant'
         /\ \A i \in Iter : IsMilestone(i) => files[i] \subseteq files'[i]
<1> USE DEF DeleteInvariant, WorkerRecord, FilesType, DownIsIdle, NoMilestoneInHand, Past,
            IsMilestone, SaveIter, AllButWorker, mainVars, storeVars, Idle, Go
<1>1. CASE Take
  BY <1>1 DEF Take
<1>2. CASE GiveUp
  BY <1>2 DEF GiveUp
<1>3. CASE CheckProtected
  <2>1. CASE Protected(worker.iter)
    BY <1>3, <2>1 DEF CheckProtected
  <2>2. CASE ~Protected(worker.iter)
    <3>1. ~IsMilestone(worker.iter)
      BY <2>2 DEF Protected
    <3>2. worker' = [worker EXCEPT !.phase = "markers"]
      BY <1>3, <2>2 DEF CheckProtected
    <3> QED BY <1>3, <3>1, <3>2 DEF CheckProtected
  <2> QED BY <2>1, <2>2
<1>4. CASE CheckMarkers
  <2>1. CASE worker' = Idle
    <3>1. worker'.phase = "idle" /\ UNCHANGED <<files, pc, deleteQ, success, run>>
      BY <1>4, <2>1 DEF CheckMarkers
    <3> QED BY <2>1, <3>1
  <2>2. CASE worker' = [worker EXCEPT !.phase = "verify"]
    BY <1>4, <2>2 DEF CheckMarkers
  <2> QED BY <1>4, <2>1, <2>2 DEF CheckMarkers
<1>5. CASE Verify
  BY <1>5 DEF Verify
<1>6. CASE Defer
  BY <1>6 DEF Defer
<1>7. CASE MarkDeleting
  <2>1. FilesType' /\ \A i \in Iter : files[i] \subseteq files'[i]
    BY <1>7 DEF MarkDeleting, File
  <2> QED BY <1>7, <2>1 DEF MarkDeleting
<1>8. CASE List
  <2>1. PICK listed : worker' = [worker EXCEPT !.phase = "objects", !.todo = listed]
    BY <1>8 DEF List
  <2>2. /\ worker'.phase = "objects" /\ worker'.iter = worker.iter
        /\ worker' = [phase |-> "objects", iter |-> worker.iter, by |-> worker.by, todo |-> listed]
    BY <2>1
  <2>3. worker.phase = "list" /\ UNCHANGED <<files, pc, deleteQ, success, run>>
    BY <1>8 DEF List
  <2> QED BY <2>2, <2>3
<1>9. CASE ObjectsDone \/ SweepDone
  BY <1>9 DEF ObjectsDone, SweepDone
<1>10. CASE Unmark
  <2>1. /\ FilesType'
        /\ \A i \in Iter : IsMilestone(i) => files[i] \subseteq files'[i]
    BY <1>10, EraseInHand DEF Unmark
  <2> QED BY <1>10, <2>1 DEF Unmark
<1>11. CASE RemoveHusk
  <2>1. /\ FilesType'
        /\ \A i \in Iter : IsMilestone(i) => files[i] \subseteq files'[i]
    BY <1>11, EraseInHand DEF RemoveHusk
  <2> QED BY <1>11, <2>1 DEF RemoveHusk
<1>12. ASSUME NEW f \in File, DeleteObject(f)
       PROVE  /\ DeleteInvariant'
              /\ \A i \in Iter : IsMilestone(i) => files[i] \subseteq files'[i]
  <2>1. /\ FilesType'
        /\ \A i \in Iter : IsMilestone(i) => files[i] \subseteq files'[i]
    BY <1>12, EraseInHand DEF DeleteObject
  <2>2. PICK left : worker' = [worker EXCEPT !.todo = left]
    BY <1>12 DEF DeleteObject
  <2>3. /\ worker'.phase = worker.phase /\ worker'.iter = worker.iter
        /\ worker' = [phase |-> worker.phase, iter |-> worker.iter, by |-> worker.by, todo |-> left]
    BY <2>2
  <2>4. worker.phase = "objects" /\ UNCHANGED <<pc, deleteQ, success, run>>
    BY <1>12 DEF DeleteObject
  <2> QED BY <2>1, <2>3, <2>4
<1>13. ASSUME NEW f \in File, SweepObject(f)
       PROVE  /\ DeleteInvariant'
              /\ \A i \in Iter : IsMilestone(i) => files[i] \subseteq files'[i]
  <2>1. /\ FilesType'
        /\ \A i \in Iter : IsMilestone(i) => files[i] \subseteq files'[i]
    BY <1>13, EraseInHand DEF SweepObject
  <2> QED BY <1>13, <2>1 DEF SweepObject
<1> QED
  BY <1>1, <1>2, <1>3, <1>4, <1>5, <1>6, <1>7, <1>8, <1>9, <1>10, <1>11, <1>12, <1>13
  DEF Deleter

LEMMA LifecycleKeeps ==
  ASSUME DeleteInvariant, Lifecycle
  PROVE  DeleteInvariant' /\ UNCHANGED files
<1> USE DEF DeleteInvariant, WorkerRecord, FilesType, DownIsIdle, NoMilestoneInHand, Past,
            mainVars, storeVars, Idle, NoSuccess
<1>1. CASE Kill \/ Exit
  BY <1>1 DEF Kill, Exit, Stop
<1>2. CASE Restart
  BY <1>2 DEF Restart
<1>3. CASE Finished
  BY <1>3 DEF Finished, vars, IsMilestone, SaveIter
<1> QED BY <1>1, <1>2, <1>3 DEF Lifecycle

LEMMA NextDelete ==
  ASSUME DeleteInvariant, [Next]_vars
  PROVE  /\ DeleteInvariant'
         /\ \A i \in Iter : IsMilestone(i) => files[i] \cap Payload \subseteq files'[i]
<1>1. CASE Trainer \/ Writer \/ Callback
  <2>1. DeleteInvariant'
    BY <1>1, SavingAdds DEF DeleteInvariant, WorkerRecord, DownIsIdle, NoMilestoneInHand,
       IsMilestone, SaveIter, Trainer, Writer, Callback, TrainStep, TriggerSave, EndTraining,
       StartSave, Training, WriteShards, WriteMetadata, DispatchSuccess, MarkSaved,
       PruneAfterSave, mainVars
  <2> QED BY <1>1, <2>1, SavingAdds
<1>2. CASE Deleter
  BY <1>2, DeleterRemoves
<1>3. CASE Lifecycle
  BY <1>3, LifecycleKeeps
<1>4. CASE UNCHANGED vars
  BY <1>4 DEF vars, mainVars, storeVars, DeleteInvariant, WorkerRecord, FilesType, DownIsIdle,
     NoMilestoneInHand, IsMilestone, SaveIter
<1> QED BY <1>1, <1>2, <1>3, <1>4 DEF Next

(* Whatever fails and whenever the job is killed, no object of a save_iter   *)
(* milestone is removed: _safe_to_delete stands before every removal and     *)
(* save_iter does not change while the deletion thread has one in hand.      *)
THEOREM MilestonesKeptCorrect == Spec => MilestonesKept
<1>1. DeleteInvariant /\ [Next]_vars => DeleteInvariant'
  BY NextDelete
<1>2. DeleteInvariant /\ [Next]_vars =>
        [\A i \in Iter : IsMilestone(i) => files[i] \cap Payload \subseteq files'[i]]_vars
  BY NextDelete
<1> QED BY InitDelete, <1>1, <1>2, PTL DEF Spec, MilestonesKept

-----------------------------------------------------------------------------
(* Sorted and Ascending: the sequence they return. *)

(* Every nonempty set of natural numbers has a least element: induction over *)
(* the length of a sequence is done with it.                                 *)
LEMMA Least ==
  ASSUME NEW T \in SUBSET Nat, T # {}
  PROVE  \E m \in T : \A n \in T : m <= n
<1> DEFINE R == OpToRel(<, Nat)
<1>1. IsWellFoundedOn(R, Nat)
  BY NatLessThanWellFounded
<1> HIDE DEF R
<1>2. PICK m \in T : \A n \in T : <<n, m>> \notin R
  BY <1>1, WFMin
<1>3. \A n \in T : ~(n < m)
  BY <1>2 DEF R, OpToRel
<1> QED BY <1>3

(* A finite sequence of numbers has a greatest element. *)
HasGreatest(n) == \A f \in [1..n -> Int] : \E q \in 1..n : \A i \in 1..n : f[i] <= f[q]

LEMMA Greatest == \A n \in Nat \ {0} : HasGreatest(n)
<1> DEFINE T == {n \in Nat \ {0} : ~HasGreatest(n)}
<1>1. SUFFICES ASSUME T # {} PROVE FALSE
  OBVIOUS
<1>2. PICK n \in T : \A k \in T : n <= k
  BY <1>1, Least
<1>3. PICK f \in [1..n -> Int] : ~ \E q \in 1..n : \A i \in 1..n : f[i] <= f[q]
  BY <1>2 DEF HasGreatest
<1>4. n # 1
  <2>1. SUFFICES ASSUME n = 1 PROVE FALSE
    OBVIOUS
  <2>2. 1 \in 1..n /\ \A i \in 1..n : i = 1
    BY <2>1
  <2>3. f[1] \in Int
    BY <2>2
  <2>4. \A i \in 1..n : f[i] <= f[1]
    BY <2>2, <2>3
  <2> QED BY <1>3, <2>2, <2>4
<1>5. n \in Nat /\ n - 1 \in Nat \ {0} /\ n - 1 \notin T
  BY <1>2, <1>4
<1> DEFINE g == [i \in 1..(n - 1) |-> f[i]]
<1>6. HasGreatest(n - 1) /\ g \in [1..(n - 1) -> Int]
  BY <1>5
<1>7. PICK q \in 1..(n - 1) : \A i \in 1..(n - 1) : g[i] <= g[q]
  BY <1>6 DEF HasGreatest
<1>8. \A i \in 1..(n - 1) : f[i] <= f[q]
  BY <1>7
<1>9. CASE f[n] <= f[q]
  <2>1. q \in 1..n /\ \A i \in 1..n : i \in 1..(n - 1) \/ i = n
    BY <1>5, <1>7
  <2> QED BY <2>1, <1>3, <1>8, <1>9
<1>10. CASE ~(f[n] <= f[q])
  <2>1. /\ n \in 1..n /\ q \in 1..n /\ f[n] \in Int /\ f[q] \in Int
        /\ \A i \in 1..n : i \in 1..(n - 1) \/ i = n
        /\ \A i \in 1..n : f[i] \in Int
    BY <1>5, <1>7
  <2>2. \A i \in 1..n : f[i] <= f[n]
    <3> SUFFICES ASSUME NEW i \in 1..n PROVE f[i] <= f[n]
      OBVIOUS
    <3>1. CASE i = n
      BY <2>1, <3>1
    <3>2. CASE i \in 1..(n - 1)
      <4>1. f[i] <= f[q] /\ f[q] < f[n]
        BY <1>8, <3>2, <1>10, <2>1
      <4>2. f[i] \in Int
        BY <2>1
      <4> QED BY <4>1, <4>2, <2>1
    <3> QED BY <2>1, <3>1, <3>2
  <2> QED BY <2>1, <2>2, <1>3
<1> QED BY <1>9, <1>10

(* Every sequence of numbers has an ascending order. *)
CanBeSorted(n) == \A s \in [1..n -> Int] : SortingOrders(s) # {}

(* The greatest element goes last; the rest is sorted without it. *)
LEMMA SortingExists == \A n \in Nat : CanBeSorted(n)
<1> DEFINE T == {n \in Nat : ~CanBeSorted(n)}
<1>1. SUFFICES ASSUME T # {} PROVE FALSE
  OBVIOUS
<1>2. PICK n \in T : \A k \in T : n <= k
  BY <1>1, Least
<1>3. PICK s \in [1..n -> Int] : SortingOrders(s) = {}
  BY <1>2 DEF CanBeSorted
<1>4. n # 0
  <2>1. SUFFICES ASSUME n = 0 PROVE FALSE
    OBVIOUS
  <2>2. DOMAIN s = {}
    BY <2>1
  <2>3. [i \in {} |-> i] \in SortingOrders(s)
    BY <2>2 DEF SortingOrders, IsInjective
  <2> QED BY <2>3, <1>3
<1>5. n \in Nat \ {0} /\ n - 1 \in Nat /\ n - 1 \notin T
  BY <1>2, <1>4
<1>6. PICK q \in 1..n : \A i \in 1..n : s[i] <= s[q]
  BY <1>5, <1>3, Greatest DEF HasGreatest
<1> DEFINE skip == [i \in 1..(n - 1) |-> IF i < q THEN i ELSE i + 1]
           rest == [i \in 1..(n - 1) |-> s[skip[i]]]
<1>7. /\ \A i \in 1..(n - 1) : skip[i] \in 1..n /\ skip[i] # q
      /\ \A i, j \in 1..(n - 1) : skip[i] = skip[j] => i = j
  BY <1>5, <1>6
<1> HIDE DEF skip
<1>8. rest \in [1..(n - 1) -> Int] /\ DOMAIN rest = 1..(n - 1)
  BY <1>7, <1>3
<1>9. PICK r \in SortingOrders(rest) : TRUE
  BY <1>5, <1>8 DEF CanBeSorted
<1>10. /\ r \in [1..(n - 1) -> 1..(n - 1)]
       /\ \A i, j \in 1..(n - 1) : i < j => rest[r[i]] <= rest[r[j]]
       /\ \A i, j \in 1..(n - 1) : r[i] = r[j] => i = j
  BY <1>8, <1>9 DEF SortingOrders, IsInjective
<1> DEFINE p == [i \in 1..n |-> IF i = n THEN q ELSE skip[r[i]]]
<1>11. \A i \in 1..n : i # n => i \in 1..(n - 1)
  BY <1>5
<1>12. p \in [1..n -> 1..n] /\ DOMAIN s = 1..n
  BY <1>3, <1>6, <1>7, <1>10, <1>11
<1>13. \A i, j \in 1..n : p[i] = p[j] => i = j
  <2> SUFFICES ASSUME NEW i \in 1..n, NEW j \in 1..n, p[i] = p[j] PROVE i = j
    OBVIOUS
  <2>1. CASE i = n /\ j # n
    <3>1. r[j] \in 1..(n - 1) /\ p[j] = skip[r[j]] /\ p[i] = q
      BY <2>1, <1>10, <1>11
    <3> QED BY <3>1, <1>7
  <2>2. CASE i # n /\ j = n
    <3>1. r[i] \in 1..(n - 1) /\ p[i] = skip[r[i]] /\ p[j] = q
      BY <2>2, <1>10, <1>11
    <3> QED BY <3>1, <1>7
  <2>3. CASE i # n /\ j # n
    <3>1. /\ r[i] \in 1..(n - 1) /\ p[i] = skip[r[i]] /\ r[j] \in 1..(n - 1) /\ p[j] = skip[r[j]]
          /\ i \in 1..(n - 1) /\ j \in 1..(n - 1)
      BY <2>3, <1>10, <1>11
    <3>2. r[i] = r[j]
      BY <3>1, <1>7
    <3> QED BY <3>1, <3>2, <1>10
  <2> QED BY <2>1, <2>2, <2>3
<1>14. \A i, j \in 1..n : i < j => s[p[i]] <= s[p[j]]
  <2> SUFFICES ASSUME NEW i \in 1..n, NEW j \in 1..n, i < j PROVE s[p[i]] <= s[p[j]]
    OBVIOUS
  <2>1. i # n
    BY <1>5
  <2>2. i \in 1..(n - 1) /\ p[i] \in 1..n
    BY <2>1, <1>11, <1>12
  <2>3. CASE j = n
    <3>1. p[j] = q
      BY <2>3
    <3> QED BY <2>2, <3>1, <1>6
  <2>4. CASE j # n
    <3>1. j \in 1..(n - 1) /\ p[j] = skip[r[j]] /\ p[i] = skip[r[i]]
      BY <2>1, <2>4, <1>11
    <3>2. rest[r[i]] <= rest[r[j]] /\ r[i] \in 1..(n - 1) /\ r[j] \in 1..(n - 1)
      BY <2>2, <3>1, <1>10
    <3> QED BY <3>1, <3>2
  <2> QED BY <2>3, <2>4
<1> HIDE DEF p
<1>15. p \in SortingOrders(s)
  BY <1>12, <1>13, <1>14 DEF SortingOrders, IsInjective
<1> QED BY <1>15, <1>3

(* What bisect.insort and sorted() return: the same elements, in order. *)
LEMMA SortedProperties ==
  ASSUME NEW s \in Seq(Int)
  PROVE  /\ Sorted(s) \in [1..Len(s) -> Int]
         /\ Sorted(s) \in Seq(Int)
         /\ Len(Sorted(s)) = Len(s)
         /\ \A m, n \in 1..Len(s) : m < n => Sorted(s)[m] <= Sorted(s)[n]
         /\ \E p \in [1..Len(s) -> 1..Len(s)] :
              /\ \A m \in 1..Len(s) : Sorted(s)[m] = s[p[m]]
              /\ \A m, n \in 1..Len(s) : p[m] = p[n] => m = n
<1>1. /\ s \in [1..Len(s) -> Int] /\ Len(s) \in Nat /\ DOMAIN s = 1..Len(s)
  OBVIOUS
<1>2. SortingOrders(s) # {}
  BY <1>1, SortingExists DEF CanBeSorted
<1> DEFINE p == CHOOSE p \in SortingOrders(s) : TRUE
<1>3. p \in SortingOrders(s) /\ Sorted(s) = [n \in DOMAIN s |-> s[p[n]]]
  BY <1>2 DEF Sorted
<1> HIDE DEF p
<1>4. /\ p \in [1..Len(s) -> 1..Len(s)]
      /\ \A m, n \in 1..Len(s) : m < n => s[p[m]] <= s[p[n]]
      /\ \A m, n \in 1..Len(s) : p[m] = p[n] => m = n
  BY <1>1, <1>3 DEF SortingOrders, IsInjective
<1>5. /\ Sorted(s) \in [1..Len(s) -> Int]
      /\ \A m \in 1..Len(s) : Sorted(s)[m] = s[p[m]]
  BY <1>1, <1>3, <1>4
<1>6. Sorted(s) \in Seq(Int) /\ Len(Sorted(s)) = Len(s)
  <2> DEFINE a == Sorted(s)
             n == Len(s)
  <2>1. a \in [1..n -> Int] /\ n \in Nat
    BY <1>1, <1>5
  <2> HIDE DEF a, n
  <2>2. a \in Seq(Int) /\ Len(a) = n
    BY <2>1
  <2> QED BY <2>2 DEF a, n
<1> QED BY <1>4, <1>5, <1>6

(* SetToSeq lists every element of a finite set once. *)
LEMMA SetToSeqInjective ==
  ASSUME NEW S, IsFiniteSet(S)
  PROVE  /\ SetToSeq(S) \in [1..Cardinality(S) -> S]
         /\ \A i, j \in 1..Cardinality(S) : SetToSeq(S)[i] = SetToSeq(S)[j] => i = j
         /\ Cardinality(S) \in Nat
<1>1. Cardinality(S) \in Nat /\ ExistsBijection(1..Cardinality(S), S)
  BY FS_CardinalityType
<1>2. \E f \in [1..Cardinality(S) -> S] : IsInjective(f)
  BY <1>1, FS_CountingElements  DEF ExistsBijection, Bijection, Injection, IsInjective
<1>3. SetToSeq(S) \in [1..Cardinality(S) -> S] /\ IsInjective(SetToSeq(S))
  BY <1>2 DEF SetToSeq
<1> QED BY <1>1, <1>3 DEF IsInjective

(* Merging d into the ascending t, all of which is larger, puts d before t. *)
LEMMA SortedAppended ==
  ASSUME NEW t \in Seq(Int), NEW d \in Seq(Int),
         \A m, n \in 1..Len(t) : m < n => t[m] < t[n],
         \A k \in 1..Len(d), m \in 1..Len(t) : d[k] < t[m]
  PROVE  /\ Sorted(t \o d) \in Seq(Int)
         /\ Len(Sorted(t \o d)) = Len(t) + Len(d)
         /\ \A m \in 1..Len(d) : \E k \in 1..Len(d) : Sorted(t \o d)[m] = d[k]
         /\ \A m \in (Len(d) + 1)..(Len(t) + Len(d)) : \E k \in 1..Len(t) : Sorted(t \o d)[m] = t[k]
         /\ \A m \in 1..(Len(t) + Len(d)), n \in (Len(d) + 1)..(Len(t) + Len(d)) :
              m < n => Sorted(t \o d)[m] < Sorted(t \o d)[n]
<1> DEFINE N == Len(t)
           D == Len(d)
           s == t \o d
           all == Sorted(s)
<1>1. /\ N \in Nat /\ D \in Nat /\ s \in Seq(Int) /\ Len(s) = N + D
      /\ \A i \in 1..(N + D) : s[i] = IF i <= N THEN t[i] ELSE d[i - N]
      /\ \A i \in 1..N : t[i] \in Int
      /\ \A i \in 1..D : d[i] \in Int
  BY ConcatProperties, LenProperties, ElementOfSeq
<1>2. t \in Seq(Int) /\ d \in Seq(Int)
  OBVIOUS
<1>a. /\ \A m, n \in 1..N : m < n => t[m] < t[n]
      /\ \A k \in 1..D, m \in 1..N : d[k] < t[m]
  OBVIOUS
<1> HIDE DEF s, N, D
<1>3. /\ all \in Seq(Int)
      /\ Len(all) = N + D
      /\ all \in [1..(N + D) -> Int]
      /\ \A m, n \in 1..(N + D) : m < n => all[m] <= all[n]
      /\ \E p \in [1..(N + D) -> 1..(N + D)] :
              /\ \A m \in 1..(N + D) : all[m] = s[p[m]]
              /\ \A m, n \in 1..(N + D) : p[m] = p[n] => m = n
  <2>1. /\ all \in [1..Len(s) -> Int]
        /\ all \in Seq(Int)
        /\ Len(all) = Len(s)
        /\ \A m, n \in 1..Len(s) : m < n => all[m] <= all[n]
        /\ \E p \in [1..Len(s) -> 1..Len(s)] :
             /\ \A m \in 1..Len(s) : all[m] = s[p[m]]
             /\ \A m, n \in 1..Len(s) : p[m] = p[n] => m = n
    BY <1>1, SortedProperties
  <2> HIDE DEF all
  <2>2. Len(s) = N + D
    BY <1>1
  <2> QED BY <2>1, <2>2
<1> HIDE DEF all
<1>4. PICK p \in [1..(N + D) -> 1..(N + D)] :
              /\ \A m \in 1..(N + D) : all[m] = s[p[m]]
              /\ \A m, n \in 1..(N + D) : p[m] = p[n] => m = n
  BY <1>3
(* The elements of d come before those of t. *)
<1>5. ASSUME NEW a \in 1..(N + D), NEW b \in 1..(N + D), p[a] <= N, p[b] > N
      PROVE  b < a
  <2>1. /\ p[a] \in 1..N /\ p[b] - N \in 1..D /\ p[a] \in 1..(N + D) /\ p[b] \in 1..(N + D)
        /\ ~(p[b] <= N)
    <3>1. p[a] \in 1..(N + D) /\ p[b] \in 1..(N + D)
      BY <1>4
    <3> DEFINE x == p[a]
               y == p[b]
    <3>2. x \in 1..(N + D) /\ y \in 1..(N + D) /\ x <= N /\ y > N
      BY <3>1, <1>5
    <3> HIDE DEF x, y
    <3>3. x \in 1..N /\ y - N \in 1..D /\ ~(y <= N)
      BY <3>2, <1>1
    <3> QED BY <3>1, <3>3 DEF x, y
  <2>2. all[a] = t[p[a]] /\ all[b] = d[p[b] - N]
    BY <1>1, <1>4, <1>5, <2>1
  <2>3. all[b] < all[a]
    BY <1>a, <2>1, <2>2
  <2>4. a # b
    BY <1>5, <2>1
  <2>5. ~(a < b)
    <3>1. all[a] \in Int /\ all[b] \in Int
      BY <1>3
    <3> QED BY <1>3, <2>3, <3>1
  <2> QED BY <1>1, <2>4, <2>5
<1>6. \A m \in 1..D : p[m] > N
  <2> SUFFICES ASSUME NEW m \in 1..D, ~(p[m] > N) PROVE FALSE
    OBVIOUS
  <2>1. m \in 1..(N + D) /\ p[m] \in 1..(N + D) /\ p[m] <= N
    BY <1>1, <1>4
  <2>2. ASSUME NEW x \in m..(N + D) PROVE x \in 1..(N + D) /\ p[x] \in 1..N
    <3>0. x \in 1..(N + D) /\ ~(x < m)
      BY <1>1, <2>1, <2>2
    <3>1. x \in 1..(N + D) /\ p[x] \in 1..(N + D) /\ ~(x < m)
      BY <3>0, <1>4
    <3>2. ~(p[x] > N)
      BY <1>5, <2>1, <3>1
    <3> QED BY <1>1, <3>1, <3>2
  <2> DEFINE f == [x \in m..(N + D) |-> p[x]]
  <2>3. f \in [m..(N + D) -> 1..N]
    BY <2>2
  <2>4. /\ IsFiniteSet(m..(N + D)) /\ Cardinality(m..(N + D)) = (N + D) - m + 1
        /\ IsFiniteSet(1..N) /\ Cardinality(1..N) = N
    <3>1. m \in Int /\ N + D \in Int /\ 1 \in Int /\ N \in Int /\ ~(m > N + D)
      BY <1>1, <2>1
    <3>2. IsFiniteSet(m..(N + D)) /\ Cardinality(m..(N + D)) = (N + D) - m + 1
      BY <3>1, FS_Interval
    <3>3. IsFiniteSet(1..N) /\ Cardinality(1..N) = IF 1 > N THEN 0 ELSE N - 1 + 1
      BY <3>1, FS_Interval
    <3>4. Cardinality(1..N) = N
      BY <3>3, <1>1
    <3> QED BY <3>2, <3>3, <3>4
  <2>5. Cardinality(1..N) < Cardinality(m..(N + D))
    <3>1. m <= D /\ m \in Int
      OBVIOUS
    <3>2. N < (N + D) - m + 1
      BY <3>1, <1>1
    <3> QED BY <3>2, <2>4
  <2> HIDE DEF f
  <2>6. \E x, y \in m..(N + D) : x # y /\ f[x] = f[y]
    BY <2>3, <2>4, <2>5, FS_PigeonHole
  <2> QED BY <2>2, <2>6, <1>4 DEF f
<1>7. \A m \in (D + 1)..(N + D) : p[m] <= N
  <2> SUFFICES ASSUME NEW m \in (D + 1)..(N + D), ~(p[m] <= N) PROVE FALSE
    OBVIOUS
  <2>1. m \in 1..(N + D) /\ p[m] \in 1..(N + D) /\ p[m] > N
    BY <1>1, <1>4
  <2>2. ASSUME NEW x \in 1..m PROVE x \in 1..(N + D) /\ p[x] \in (N + 1)..(N + D)
    <3>0. x \in 1..(N + D) /\ ~(m < x)
      BY <1>1, <2>1, <2>2
    <3>1. x \in 1..(N + D) /\ p[x] \in 1..(N + D) /\ ~(m < x)
      BY <3>0, <1>4
    <3>2. ~(p[x] <= N)
      BY <1>5, <2>1, <3>1
    <3> QED BY <1>1, <3>1, <3>2
  <2> DEFINE f == [x \in 1..m |-> p[x]]
  <2>3. f \in [1..m -> (N + 1)..(N + D)]
    BY <2>2
  <2>4. /\ IsFiniteSet(1..m) /\ Cardinality(1..m) = m
        /\ IsFiniteSet((N + 1)..(N + D)) /\ Cardinality((N + 1)..(N + D)) = D
    <3>1. m \in Int /\ N + D \in Int /\ 1 \in Int /\ N + 1 \in Int /\ ~(1 > m)
      BY <1>1, <2>1
    <3>2. IsFiniteSet(1..m) /\ Cardinality(1..m) = m - 1 + 1
      BY <3>1, FS_Interval
    <3>3. /\ IsFiniteSet((N + 1)..(N + D))
          /\ Cardinality((N + 1)..(N + D)) = IF N + 1 > N + D THEN 0 ELSE (N + D) - (N + 1) + 1
      BY <3>1, FS_Interval
    <3>4. Cardinality((N + 1)..(N + D)) = D
      BY <3>3, <1>1
    <3> QED BY <3>1, <3>2, <3>3, <3>4
  <2>5. Cardinality((N + 1)..(N + D)) < Cardinality(1..m)
    BY <1>1, <2>4
  <2> HIDE DEF f
  <2>6. \E x, y \in 1..m : x # y /\ f[x] = f[y]
    BY <2>3, <2>4, <2>5, FS_PigeonHole
  <2> QED BY <2>2, <2>6, <1>4 DEF f
<1>8. \A m \in 1..D : \E k \in 1..D : all[m] = d[k]
  <2> TAKE m \in 1..D
  <2>0. m \in 1..(N + D) /\ p[m] > N
    BY <1>1, <1>6
  <2>1. m \in 1..(N + D) /\ p[m] \in 1..(N + D) /\ p[m] > N
    BY <2>0, <1>4
  <2>2. p[m] - N \in 1..D /\ ~(p[m] <= N)
    <3> DEFINE x == p[m]
    <3>1. x \in 1..(N + D) /\ x > N
      BY <2>1
    <3> HIDE DEF x
    <3>2. x - N \in 1..D /\ ~(x <= N)
      BY <3>1, <1>1
    <3> QED BY <3>2 DEF x
  <2>3. all[m] = d[p[m] - N]
    BY <1>1, <1>4, <2>1, <2>2
  <2> QED BY <2>2, <2>3
<1>9. \A m \in (D + 1)..(N + D) : m \in 1..(N + D) /\ p[m] \in 1..N /\ all[m] = t[p[m]]
  <2> TAKE m \in (D + 1)..(N + D)
  <2>0. m \in 1..(N + D) /\ p[m] <= N
    BY <1>1, <1>7
  <2>1. m \in 1..(N + D) /\ p[m] \in 1..(N + D) /\ p[m] <= N
    BY <2>0, <1>4
  <2>2. p[m] \in 1..N
    <3> DEFINE x == p[m]
    <3>1. x \in 1..(N + D) /\ x <= N
      BY <2>1
    <3> HIDE DEF x
    <3>2. x \in 1..N
      BY <3>1, <1>1
    <3> QED BY <3>2 DEF x
  <2> QED BY <1>1, <1>4, <2>1, <2>2
<1>10. ASSUME NEW m \in 1..(N + D), NEW n \in (D + 1)..(N + D), m < n
       PROVE  all[m] < all[n]
  <2>1. n \in 1..(N + D) /\ p[n] \in 1..N /\ all[n] = t[p[n]]
    BY <1>9
  <2>2. CASE m \in 1..D
    <3>1. PICK k \in 1..D : all[m] = d[k]
      BY <1>8, <2>2
    <3> QED BY <3>1, <2>1, <1>a
  <2>3. CASE m \in (D + 1)..(N + D)
    <3>1. p[m] \in 1..N /\ all[m] = t[p[m]]
      BY <1>9, <2>3
    <3>2. p[m] # p[n]
      <4>1. m # n
        BY <1>1, <1>10
      <4> QED BY <4>1, <2>1, <1>4
    <3>3. all[m] <= all[n] /\ all[m] \in Int /\ all[n] \in Int
      BY <1>3, <1>10, <2>1
    <3>4. p[m] < p[n] \/ p[n] < p[m]
      BY <3>1, <3>2, <2>1, <1>1
    <3>5. all[m] # all[n]
      <4>1. CASE p[m] < p[n]
        <5>1. t[p[m]] < t[p[n]]
          BY <4>1, <3>1, <2>1, <1>a
        <5> QED BY <5>1, <3>1, <2>1, <3>3
      <4>2. CASE p[n] < p[m]
        <5>1. t[p[n]] < t[p[m]]
          BY <4>2, <3>1, <2>1, <1>a
        <5> QED BY <5>1, <3>1, <2>1, <3>3
      <4> QED BY <3>4, <4>1, <4>2
    <3> QED BY <3>3, <3>5
  <2> QED BY <1>1, <2>2, <2>3
<1> QED BY <1>3, <1>8, <1>9, <1>10 DEF all, s, N, D

(* Ascending(S): the elements of the finite set S, ascending and without repetition. *)
LEMMA AscendingProperties ==
  ASSUME NEW S \in SUBSET Int, IsFiniteSet(S)
  PROVE  /\ Ascending(S) \in Seq(S)
         /\ \A m, n \in 1..Len(Ascending(S)) : m < n => Ascending(S)[m] < Ascending(S)[n]
<1> DEFINE N == Cardinality(S)
           q == SetToSeq(S)
           a == Sorted(q)
<1>1. /\ q \in [1..N -> S] /\ N \in Nat
      /\ \A i, j \in 1..N : q[i] = q[j] => i = j
  BY SetToSeqInjective
<1> HIDE DEF q, N
<1>2. q \in Seq(Int) /\ Len(q) = N
  <2>1. q \in [1..N -> Int]
    BY <1>1
  <2> QED BY <2>1, <1>1
<1>3. /\ a \in [1..N -> Int]
      /\ a \in Seq(Int)
      /\ Len(a) = N
      /\ \A m, n \in 1..N : m < n => a[m] <= a[n]
      /\ \E p \in [1..N -> 1..N] :
              /\ \A m \in 1..N : a[m] = q[p[m]]
              /\ \A m, n \in 1..N : p[m] = p[n] => m = n
  <2>1. /\ Sorted(q) \in [1..Len(q) -> Int] /\ Sorted(q) \in Seq(Int) /\ Len(Sorted(q)) = Len(q)
        /\ \A m, n \in 1..Len(q) : m < n => Sorted(q)[m] <= Sorted(q)[n]
        /\ \E p \in [1..Len(q) -> 1..Len(q)] :
              /\ \A m \in 1..Len(q) : Sorted(q)[m] = q[p[m]]
              /\ \A m, n \in 1..Len(q) : p[m] = p[n] => m = n
    BY <1>2, SortedProperties
  <2> QED BY <1>2, <2>1
<1> HIDE DEF a
<1>4. PICK p \in [1..N -> 1..N] : /\ \A m \in 1..N : a[m] = q[p[m]]
                                  /\ \A m, n \in 1..N : p[m] = p[n] => m = n
  BY <1>3
<1>5. a \in [1..N -> S]
  BY <1>1, <1>3, <1>4
<1>6. a \in Seq(S)
  BY <1>1, <1>5
<1>7. \A m, n \in 1..N : m < n => a[m] < a[n]
  <2> SUFFICES ASSUME NEW m \in 1..N, NEW n \in 1..N, m < n PROVE a[m] < a[n]
    OBVIOUS
  <2>1. a[m] <= a[n] /\ a[m] \in Int /\ a[n] \in Int
    BY <1>3
  <2>2. p[m] # p[n]
    BY <1>4, <1>1
  <2>3. a[m] # a[n]
    BY <2>2, <1>1, <1>4
  <2> QED BY <2>1, <2>3
<1> QED BY <1>3, <1>6, <1>7 DEF Ascending, a, q

(* An injection of 1..n into 1..n reaches every number. *)
LEMMA InjectionOnto ==
  ASSUME NEW n \in Nat, NEW S, IsFiniteSet(S), Cardinality(S) = n, NEW p \in [1..n -> S],
         \A i, j \in 1..n : p[i] = p[j] => i = j
  PROVE  \A x \in S : \E i \in 1..n : p[i] = x
<1>1. p \in Injection(1..n, S)
  BY DEF Injection, IsInjective
<1>2. IsFiniteSet(1..n) /\ Cardinality(1..n) = n
  <2>1. 1 \in Int /\ n \in Int
    OBVIOUS
  <2>2. IsFiniteSet(1..n) /\ Cardinality(1..n) = IF 1 > n THEN 0 ELSE n - 1 + 1
    BY <2>1, FS_Interval
  <2> QED BY <2>2
<1>3. p \in Surjection(1..n, S)
  BY <1>1, <1>2, FS_Injection
<1> QED BY <1>3 DEF Surjection

(* Sorting loses no element. *)
LEMMA SortedContains ==
  ASSUME NEW s \in Seq(Int)
  PROVE  \A m \in 1..Len(s) : \E n \in 1..Len(s) : Sorted(s)[n] = s[m]
<1> DEFINE N == Len(s)
<1>1. \E p : /\ p \in [1..N -> 1..N]
             /\ \A m \in 1..N : Sorted(s)[m] = s[p[m]]
             /\ \A m, n \in 1..N : p[m] = p[n] => m = n
  BY SortedProperties
<1>2. N \in Nat /\ IsFiniteSet(1..N) /\ Cardinality(1..N) = N
  <2>1. 1 \in Int /\ N \in Int /\ N \in Nat
    BY LenProperties
  <2>2. IsFiniteSet(1..N) /\ Cardinality(1..N) = IF 1 > N THEN 0 ELSE N - 1 + 1
    BY <2>1, FS_Interval
  <2> QED BY <2>1, <2>2
<1> HIDE DEF N
<1>3. PICK p : /\ p \in [1..N -> 1..N]
               /\ \A m \in 1..N : Sorted(s)[m] = s[p[m]]
               /\ \A m, n \in 1..N : p[m] = p[n] => m = n
  BY <1>1
<1>4. \A m \in 1..N : \E n \in 1..N : p[n] = m
  <2>1. p \in Injection(1..N, 1..N)
    BY <1>3 DEF Injection, IsInjective
  <2>2. p \in Surjection(1..N, 1..N)
    BY <2>1, <1>2, FS_Injection
  <2> QED BY <2>2 DEF Surjection
<1>5. ASSUME NEW m \in 1..N PROVE \E n \in 1..N : Sorted(s)[n] = s[m]
  <2>1. PICK n \in 1..N : p[n] = m
    BY <1>4
  <2>2. Sorted(s)[n] = s[p[n]]
    BY <1>3
  <2> QED BY <2>1, <2>2
<1> QED BY <1>5 DEF N

-----------------------------------------------------------------------------
(* The history. *)

(* A queued deletion: the checkpoint and the one that displaced it. *)
Queued == [iter : Iter, by : 0..MaxIter]
Phases == {"idle", "check"} \cup Past
(* Types. *)
RetentionTypes ==
  /\ pc \in {"train", "save", "lastSave", "finalize", "down"}
  /\ iteration \in 0..MaxIter
  /\ lastCheckpoint \in 0..iteration
  /\ pointer \in 0..MaxIter
  /\ writer \in [phase : {"none", "shards", "metadata", "landed"}, iter : 0..MaxIter]
  /\ success \in [phase : {"none", "mark", "prune"}, iter : 0..MaxIter]
  /\ tracked \in Seq(Iter)
  /\ deferred \in Seq(Iter)
  /\ deleteQ \in Seq(Queued)
  /\ worker \in [phase : Phases, iter : 0..MaxIter, by : 0..MaxIter, todo : SUBSET File]
  /\ worker.phase # "idle" => worker.iter \in Iter
  /\ run \in 1..MaxRuns
  /\ FilesType

(* A save is always of an iteration past the checkpoint to resume from, except *)
(* the last one, and only what has landed is marked as saved.                  *)
SavesAdvance ==
  /\ pc # "down" => pointer <= lastCheckpoint
  /\ pc = "save" => lastCheckpoint < iteration
  /\ pc = "lastSave" => iteration = MaxIter
  /\ pc = "down" => deferred = <<>>
  /\ writer.phase # "none" => pc # "down" /\ writer.iter = lastCheckpoint /\ writer.iter \in Iter
  /\ writer.phase = "landed" => pointer = writer.iter
  /\ success.phase # "none" => /\ pc # "down" /\ writer.phase = "none"
                               /\ success.iter \in Iter /\ success.iter <= pointer
  /\ \A i \in Iter : "saved" \in files[i] => i <= pointer
  /\ \A t \in triggered : \/ pc = "save" /\ t = iteration
                          \/ writer.phase # "none" /\ t = writer.iter

(* What fell out of the window and is not yet erased or put back. *)
InHand == IF worker.phase # "idle" /\ worker.by # None THEN {worker.iter} ELSE {}
Displacing == Popped \cup InHand
(* Every wall-clock checkpoint the callback knows of. *)
Known == {tracked[k] : k \in DOMAIN tracked} \cup Displacing

(* The checkpoint whose save is being confirmed is newer than all that is known. *)
FreshSave ==
  /\ \A i \in Known : i <= pointer
  /\ success.phase = "mark" => \A i \in Known : i < success.iter
  /\ writer.phase # "none" /\ writer.iter \in triggered => \A i \in Known : i < writer.iter

(* Something is out of the window only while the window is full. *)
WindowFull ==
  Displacing # {} => /\ KeepLast > 0
                     /\ Len(tracked) >= KeepLast
                     /\ success.phase = "prune" => Len(tracked) > KeepLast

(* The history is ascending and newer than what fell out of it. *)
HistoryOrder ==
  /\ \A m, n \in DOMAIN tracked : m < n => tracked[m] < tracked[n]
  /\ \A i \in Displacing, m \in DOMAIN tracked : i < tracked[m]

(* The inductive invariant behind HistoryIsNewest. *)
HistoryInvariant == RetentionTypes /\ SavesAdvance /\ FreshSave /\ WindowFull /\ HistoryOrder

(* What _prune leaves of the sequence a, and what it queues, when e exceed the window. *)
LEMMA WindowProperties ==
  ASSUME NEW S, NEW a \in Seq(S), NEW e \in 0..Len(a)
  PROVE  /\ SubSeq(a, e + 1, Len(a)) \in Seq(S)
         /\ Len(SubSeq(a, e + 1, Len(a))) = Len(a) - e
         /\ DOMAIN SubSeq(a, e + 1, Len(a)) = 1..(Len(a) - e)
         /\ \A k \in 1..(Len(a) - e) : /\ e + k \in (e + 1)..Len(a)
                                       /\ SubSeq(a, e + 1, Len(a))[k] = a[e + k]
<1> DEFINE b == e + 1
           L == Len(a)
<1>1. b \in Int /\ L \in Nat /\ e \in 0..L /\ e \in Int
  OBVIOUS
<1>2. \A i \in b..L : a[i] \in S
  <2>1. \A i \in b..L : i \in 1..Len(a)
    BY <1>1
  <2> QED BY <2>1, ElementOfSeq
<1>b. b = e + 1
  OBVIOUS
<1> HIDE DEF b, L
<1>3. /\ SubSeq(a, b, L) \in Seq(S)
      /\ Len(SubSeq(a, b, L)) = IF b <= L THEN L - b + 1 ELSE 0
      /\ \A i \in 1 .. L - b + 1 : SubSeq(a, b, L)[i] = a[b + i - 1]
  BY <1>1, <1>2, SubSeqProperties
<1>4. Len(SubSeq(a, b, L)) = L - e
  BY <1>1, <1>3, <1>b
<1>5. ASSUME NEW k \in 1..(L - e)
      PROVE  e + k \in b..L /\ SubSeq(a, b, L)[k] = a[e + k]
  <2>1. k \in 1 .. L - b + 1 /\ b + k - 1 = e + k /\ e + k \in b..L
    BY <1>1, <1>b
  <2>2. SubSeq(a, b, L)[k] = a[b + k - 1]
    BY <1>3, <2>1
  <2> QED BY <2>1, <2>2
<1>6. DOMAIN SubSeq(a, b, L) = 1..(L - e)
  BY <1>3, <1>4, LenProperties
<1> QED BY <1>3, <1>4, <1>5, <1>6 DEF b, L

(* The deletions _prune queues for the first e of a. *)
DisplacedBy(a, e) == [k \in 1..e |-> [iter |-> a[k], by |-> Last(a)]]

(* Each of them pairs an element of a with the last one. *)
LEMMA DisplacedProperties ==
  ASSUME NEW a \in Seq(Iter), NEW e \in 0..Len(a)
  PROVE  /\ DisplacedBy(a, e) \in Seq(Queued)
         /\ Len(DisplacedBy(a, e)) = e
         /\ \A k \in 1..e : /\ k \in 1..Len(a) /\ Len(a) \in 1..Len(a)
                            /\ DisplacedBy(a, e)[k].iter = a[k]
                            /\ DisplacedBy(a, e)[k].by = a[Len(a)]
<1>1. Len(a) \in Nat /\ e \in Nat /\ \A k \in 1..e : k \in 1..Len(a) /\ Len(a) \in 1..Len(a)
  BY LenProperties
<1>2. \A k \in 1..e : a[k] \in Iter /\ Last(a) = a[Len(a)] /\ a[Len(a)] \in Iter
  BY <1>1, ElementOfSeq DEF Last
<1>3. Iter \subseteq 0..MaxIter
  BY DEF Iter
<1>4. \A k \in 1..e : a[k] \in Iter /\ Last(a) = a[Len(a)] /\ a[Len(a)] \in 0..MaxIter
  BY <1>2, <1>3
<1>5. DisplacedBy(a, e) \in [1..e -> Queued]
  BY <1>4 DEF DisplacedBy, Queued
<1>6. DisplacedBy(a, e) \in Seq(Queued) /\ Len(DisplacedBy(a, e)) = e
  BY <1>1, <1>5
<1> QED BY <1>1, <1>4, <1>6 DEF DisplacedBy

(* HistoryInvariant, step by step. *)
LEMMA InitHistory == Init => HistoryInvariant
<1> SUFFICES ASSUME Init PROVE HistoryInvariant
  OBVIOUS
<1> USE DEF Init
<1>1. RetentionTypes
  BY ConstantAssumption, EmptySeq DEF RetentionTypes, NoSuccess, NoSave, Idle, FilesType, Phases, None
<1>2. Displacing = {} /\ Known = {} /\ DOMAIN tracked = {}
  BY DEF Displacing, Known, Popped, InHand, Idle
<1>3. SavesAdvance
  BY DEF SavesAdvance, NoSuccess, NoSave, None
<1> QED BY <1>1, <1>2, <1>3 DEF HistoryInvariant, FreshSave, WindowFull, HistoryOrder

(* What is known are iterations. *)
LEMMA KnownTypes ==
  ASSUME RetentionTypes
  PROVE  Displacing \subseteq Iter /\ Known \subseteq Iter
<1>1. \A k \in DOMAIN deleteQ : deleteQ[k] \in Queued
  BY ElementOfSeq, LenProperties DEF RetentionTypes
<1>2. \A k \in DOMAIN deferred : deferred[k] \in Iter
  BY ElementOfSeq, LenProperties DEF RetentionTypes
<1>3. \A k \in DOMAIN tracked : tracked[k] \in Iter
  BY ElementOfSeq, LenProperties DEF RetentionTypes
<1>4. Displacing \subseteq Iter
  BY <1>1, <1>2 DEF Displacing, Popped, InHand, Queued, RetentionTypes
<1> QED BY <1>3, <1>4 DEF Known

(* A step that leaves the four holders of checkpoints alone. *)
LEMMA KnownUnchanged ==
  ASSUME UNCHANGED <<tracked, deleteQ, deferred, worker>>
  PROVE  Known' = Known /\ Displacing' = Displacing
BY DEF Known, Displacing, Popped, InHand

(* A step that leaves the history and what was taken from it alone. *)
LEMMA HistoryUnchanged ==
  ASSUME HistoryInvariant, UNCHANGED <<tracked, deleteQ, deferred, worker, success>>
  PROVE  WindowFull' /\ HistoryOrder'
BY KnownUnchanged DEF HistoryInvariant, WindowFull, HistoryOrder

LEMMA TrainerHistory ==
  ASSUME HistoryInvariant, Trainer
  PROVE  HistoryInvariant'
<1>0. UNCHANGED <<tracked, deleteQ, deferred, worker, success, files, pointer, run>>
  BY DEF Trainer, TrainStep, TriggerSave, EndTraining, StartSave, storeVars
<1>1. WindowFull' /\ HistoryOrder'
  BY <1>0, HistoryUnchanged
<1>2. Known' = Known
  BY <1>0, KnownUnchanged
<1>k. Known \subseteq Iter
  BY KnownTypes DEF HistoryInvariant
<1> USE DEF HistoryInvariant
<1>3. CASE TrainStep
  <2>1. RetentionTypes'
    BY <1>3, ConstantAssumption DEF RetentionTypes, TrainStep, MoreSteps, storeVars, FilesType
  <2>2. SavesAdvance'
    BY <1>3, ConstantAssumption DEF SavesAdvance, RetentionTypes, TrainStep, Training, storeVars
  <2>3. FreshSave'
    BY <1>3, <1>2 DEF FreshSave, TrainStep, storeVars
  <2> QED BY <1>1, <2>1, <2>2, <2>3
<1>4. CASE TriggerSave
  <2>1. RetentionTypes'
    BY <1>4 DEF RetentionTypes, TriggerSave, storeVars, FilesType
  <2>2. SavesAdvance'
    BY <1>4 DEF SavesAdvance, RetentionTypes, TriggerSave, Training, storeVars
  <2>3. FreshSave'
    <3>1. writer.phase # "none" => writer.iter # iteration
      BY <1>4, ConstantAssumption DEF SavesAdvance, TriggerSave, RetentionTypes
    <3> QED BY <1>4, <1>2, <3>1 DEF FreshSave, TriggerSave, storeVars, Training
  <2> QED BY <1>1, <2>1, <2>2, <2>3
<1>5. CASE EndTraining
  <2>1. RetentionTypes'
    BY <1>5 DEF RetentionTypes, EndTraining, storeVars, FilesType
  <2>2. SavesAdvance'
    BY <1>5 DEF SavesAdvance, RetentionTypes, EndTraining, Training, storeVars
  <2>3. FreshSave'
    BY <1>5, <1>2 DEF FreshSave, EndTraining, storeVars
  <2> QED BY <1>1, <2>1, <2>2, <2>3
<1>6. CASE StartSave
  <2>1. RetentionTypes'
    BY <1>6 DEF RetentionTypes, StartSave, FilesType
  <2>2. iteration \in Iter /\ pointer <= iteration
    BY <1>6, ConstantAssumption DEF SavesAdvance, RetentionTypes, StartSave, Iter
  <2>3. /\ writer'.phase = "shards" /\ writer'.iter = iteration /\ lastCheckpoint' = iteration
        /\ writer.phase = "none" /\ success.phase = "none" /\ success'.phase = "none"
        /\ pc' # "down" /\ pc' # "save" /\ pc' # "lastSave"
        /\ UNCHANGED <<iteration, triggered, files, pointer>>
    BY <1>6 DEF StartSave
  <2>4. SavesAdvance'
    BY <2>2, <2>3 DEF SavesAdvance
  <2>5. FreshSave'
    <3>1. ASSUME iteration \in triggered PROVE \A i \in Known : i < iteration
      <4>1. pc = "save"
        BY <3>1, <2>3 DEF SavesAdvance
      <4>2. pointer < iteration
        BY <4>1 DEF SavesAdvance, RetentionTypes
      <4>3. \A i \in Known : i <= pointer /\ i \in Iter
        BY <1>k DEF FreshSave
      <4> QED BY <4>2, <4>3, <1>0, ConstantAssumption DEF RetentionTypes, Iter
    <3> QED BY <2>3, <3>1, <1>2 DEF FreshSave
  <2> QED BY <1>1, <2>1, <2>4, <2>5
<1> QED BY <1>3, <1>4, <1>5, <1>6 DEF Trainer

LEMMA WriterHistory ==
  ASSUME HistoryInvariant, Writer
  PROVE  HistoryInvariant'
<1>0. UNCHANGED <<tracked, deleteQ, deferred, worker, success, pc, iteration, lastCheckpoint,
                  triggered, run>>
  BY DEF Writer, WriteShards, WriteMetadata, mainVars
<1>1. WindowFull' /\ HistoryOrder'
  BY <1>0, HistoryUnchanged
<1>2. Known' = Known
  BY <1>0, KnownUnchanged
<1>k. Known \subseteq Iter
  BY KnownTypes DEF HistoryInvariant
<1> USE DEF HistoryInvariant
<1>3. writer.iter \in Iter /\ writer.iter = lastCheckpoint /\ pc # "down" /\ pointer <= writer.iter
  BY DEF Writer, WriteShards, WriteMetadata, SavesAdvance
<1>4. /\ files' \in [Iter -> SUBSET File]
      /\ \A i \in Iter : "saved" \in files'[i] => "saved" \in files[i]
  <2>1. PICK f \in Payload : files' = [files EXCEPT ![writer.iter] = @ \cup {f}]
    BY DEF Writer, WriteShards, WriteMetadata, Payload
  <2>2. f \in File /\ f # "saved"
    BY DEF File, Payload
  <2> QED BY <2>1, <2>2, <1>3 DEF RetentionTypes, FilesType
<1>5. /\ writer' \in [phase : {"none", "shards", "metadata", "landed"}, iter : 0..MaxIter]
      /\ writer'.iter = writer.iter
      /\ writer.phase # "none" /\ writer'.phase # "none"
      /\ pointer' \in {pointer, writer.iter}
      /\ writer'.phase = "landed" => pointer' = writer.iter
  BY DEF Writer, WriteShards, WriteMetadata, RetentionTypes
<1>6. pointer' \in 0..MaxIter /\ pointer <= pointer' /\ pointer' <= writer.iter
  BY <1>3, <1>5, ConstantAssumption DEF RetentionTypes, Iter
<1>7. RetentionTypes'
  BY <1>0, <1>4, <1>5, <1>6 DEF RetentionTypes, FilesType
<1>8. SavesAdvance'
  <2>1. \A i \in Iter : "saved" \in files'[i] => i <= pointer'
    <3>1. \A i \in Iter : i <= pointer => i <= pointer'
      BY <1>6, ConstantAssumption DEF RetentionTypes, Iter
    <3> QED BY <3>1, <1>4 DEF SavesAdvance
  <2>2. success'.phase = "none"
    BY <1>0, <1>5 DEF SavesAdvance, RetentionTypes
  <2> QED BY <2>1, <2>2, <1>0, <1>3, <1>5, <1>6 DEF SavesAdvance
<1>9. FreshSave'
  <2>1. success'.phase = "none"
    BY <1>0, <1>5 DEF SavesAdvance, RetentionTypes
  <2>2. \A i \in Known : i <= pointer'
    <3>1. \A i \in Iter : i <= pointer => i <= pointer'
      BY <1>6, ConstantAssumption DEF RetentionTypes, Iter
    <3> QED BY <3>1, <1>k DEF FreshSave
  <2> QED BY <2>1, <2>2, <1>0, <1>2, <1>5 DEF FreshSave
<1> QED BY <1>1, <1>7, <1>8, <1>9

LEMMA DispatchHistory ==
  ASSUME HistoryInvariant, DispatchSuccess
  PROVE  HistoryInvariant'
<1> USE DEF HistoryInvariant
<1>1. /\ UNCHANGED <<tracked, deleteQ, deferred, worker, pc, iteration, lastCheckpoint, files,
                     pointer, run>>
      /\ writer' = NoSave /\ writer.phase = "landed" /\ success.phase = "none"
      /\ triggered' = triggered \ {writer.iter} /\ pc # "down"
      /\ success' = IF writer.iter \in triggered THEN [phase |-> "mark", iter |-> writer.iter]
                    ELSE NoSuccess
  BY DEF DispatchSuccess, storeVars
<1>2. Known' = Known /\ Displacing' = Displacing
  BY <1>1, KnownUnchanged
<1>3. writer.iter \in Iter /\ pointer = writer.iter
  BY <1>1 DEF SavesAdvance
<1>4. success'.phase \in {"none", "mark"} /\ (success'.phase = "mark" =>
           success'.iter = writer.iter /\ writer.iter \in triggered)
      /\ success' \in [phase : {"none", "mark", "prune"}, iter : 0..MaxIter]
      /\ writer' \in [phase : {"none", "shards", "metadata", "landed"}, iter : 0..MaxIter]
      /\ writer'.phase = "none"
  BY <1>1, <1>3, ConstantAssumption DEF NoSuccess, NoSave, Iter, None
<1>5. RetentionTypes'
  BY <1>1, <1>4 DEF RetentionTypes, FilesType
<1>6. SavesAdvance'
  <2>1. writer.iter <= pointer
    BY <1>3 DEF Iter
  <2> QED BY <1>1, <1>3, <1>4, <2>1 DEF SavesAdvance
<1>7. FreshSave'
  BY <1>1, <1>2, <1>4 DEF FreshSave
<1>8. WindowFull' /\ HistoryOrder'
  BY <1>1, <1>2, <1>4 DEF WindowFull, HistoryOrder
<1> QED BY <1>5, <1>6, <1>7, <1>8

LEMMA MarkSavedHistory ==
  ASSUME HistoryInvariant, MarkSaved
  PROVE  /\ HistoryInvariant'
         /\ Known' \subseteq Known \cup {success.iter}
         /\ \A i \in Iter : "saved" \in files'[i] => "saved" \in files[i] \/ i = success.iter
<1> USE DEF HistoryInvariant
<1>1. /\ UNCHANGED <<deleteQ, deferred, worker, pc, iteration, lastCheckpoint, triggered, writer,
                     pointer, run>>
      /\ success.phase = "mark"
  BY DEF MarkSaved
<1>2. /\ Displacing' = Displacing /\ writer.phase = "none" /\ pc # "down"
      /\ success.iter \in Iter /\ success.iter <= pointer
  BY <1>1 DEF Displacing, Popped, InHand, SavesAdvance
<1>3. CASE success' = NoSuccess /\ UNCHANGED <<files, tracked>>
  <2>1. success' \in [phase : {"none", "mark", "prune"}, iter : 0..MaxIter] /\ success'.phase = "none"
    BY <1>3, ConstantAssumption DEF NoSuccess, None
  <2>2. RetentionTypes'
    BY <1>1, <1>3, <2>1 DEF RetentionTypes, FilesType
  <2>3. Known' = Known
    BY <1>1, <1>3, KnownUnchanged
  <2> QED BY <1>1, <1>2, <1>3, <2>1, <2>2, <2>3 DEF SavesAdvance, FreshSave, WindowFull, HistoryOrder
<1>4. CASE /\ files' = [files EXCEPT ![success.iter] = @ \cup {"saved"}]
           /\ tracked' = Append(tracked, success.iter)
           /\ success' = [success EXCEPT !.phase = "prune"]
  <2>1. /\ success' \in [phase : {"none", "mark", "prune"}, iter : 0..MaxIter]
        /\ success'.phase = "prune" /\ success'.iter = success.iter
    BY <1>4 DEF RetentionTypes
  <2>2. /\ files' \in [Iter -> SUBSET File]
        /\ \A i \in Iter : "saved" \in files'[i] => "saved" \in files[i] \/ i = success.iter
    BY <1>4, <1>2 DEF RetentionTypes, FilesType, File
  <2>3. /\ tracked' \in Seq(Iter) /\ Len(tracked') = Len(tracked) + 1
        /\ \A k \in 1..Len(tracked) : tracked'[k] = tracked[k]
        /\ tracked'[Len(tracked) + 1] = success.iter
        /\ Len(tracked) \in Nat
        /\ DOMAIN tracked = 1..Len(tracked)
    BY <1>4, <1>2, AppendProperties, LenProperties DEF RetentionTypes
  <2>4. DOMAIN tracked' = 1..(Len(tracked) + 1)
    BY <2>3, LenProperties
  <2>5. \A k \in DOMAIN tracked' : \/ k \in DOMAIN tracked /\ tracked'[k] = tracked[k]
                                   \/ k = Len(tracked) + 1 /\ tracked'[k] = success.iter
    BY <2>3, <2>4
  <2>6. Known' \subseteq Known \cup {success.iter}
    BY <2>5, <1>2 DEF Known
  <2>7. RetentionTypes'
    BY <1>1, <2>1, <2>2, <2>3 DEF RetentionTypes, FilesType
  <2>8. SavesAdvance'
    BY <1>1, <1>2, <2>1, <2>2 DEF SavesAdvance
  <2>9. FreshSave'
    BY <1>1, <1>2, <2>1, <2>6 DEF FreshSave
  <2>10. WindowFull'
    BY <1>2, <2>1, <2>3, ConstantAssumption DEF WindowFull
  <2>11. \A i \in Known : i < success.iter
    BY <1>1 DEF FreshSave
  <2>12. HistoryOrder'
    <3>1. ASSUME NEW m \in DOMAIN tracked', NEW n \in DOMAIN tracked', m < n
          PROVE  tracked'[m] < tracked'[n]
      <4>1. m \in DOMAIN tracked /\ tracked'[m] = tracked[m]
        BY <3>1, <2>3, <2>4
      <4>2. tracked[m] \in Known
        BY <4>1 DEF Known
      <4>3. CASE n \in DOMAIN tracked /\ tracked'[n] = tracked[n]
        BY <4>1, <4>3, <3>1 DEF HistoryOrder
      <4>4. CASE tracked'[n] = success.iter
        BY <4>1, <4>2, <4>4, <2>11
      <4> QED BY <4>3, <4>4, <2>5
    <3>2. ASSUME NEW i \in Displacing, NEW m \in DOMAIN tracked' PROVE i < tracked'[m]
      <4>1. i \in Known
        BY DEF Known
      <4> QED BY <4>1, <2>5, <2>11 DEF HistoryOrder
    <3> QED BY <3>1, <3>2, <1>2 DEF HistoryOrder
  <2> QED BY <2>2, <2>6, <2>7, <2>8, <2>9, <2>10, <2>12
<1> QED BY <1>3, <1>4 DEF MarkSaved

(* Pruning pops the oldest; what was declined before goes with them. *)
LEMMA PruneHistory ==
  ASSUME HistoryInvariant, PruneAfterSave
  PROVE  /\ HistoryInvariant'
         /\ Known' \subseteq Known
         /\ \A n \in DOMAIN deleteQ' :
              \/ \E k \in DOMAIN deleteQ : deleteQ'[n] = deleteQ[k]
              \/ deleteQ'[n].by \in Known /\ deleteQ'[n].iter < deleteQ'[n].by
<1> USE DEF HistoryInvariant
<1>1. /\ UNCHANGED <<worker, pc, iteration, lastCheckpoint, triggered, writer, files, pointer, run>>
      /\ success.phase = "prune" /\ success' = NoSuccess
      /\ Prune(tracked)
  BY DEF PruneAfterSave, storeVars
<1>2. /\ success' \in [phase : {"none", "mark", "prune"}, iter : 0..MaxIter] /\ success'.phase = "none"
      /\ writer.phase = "none" /\ InHand' = InHand
  BY <1>1, ConstantAssumption DEF NoSuccess, None, SavesAdvance, InHand
<1>3. SavesAdvance'
  BY <1>1, <1>2 DEF SavesAdvance
<1>4. CASE KeepLast <= 0
  <2>1. UNCHANGED <<tracked, deleteQ, deferred>>
    BY <1>1, <1>4 DEF Prune
  <2>2. Known' = Known /\ Displacing' = Displacing
    BY <2>1, <1>1, KnownUnchanged
  <2>3. RetentionTypes'
    BY <1>1, <1>2, <2>1 DEF RetentionTypes, FilesType
  <2> QED BY <1>1, <1>2, <1>3, <2>1, <2>2, <2>3 DEF FreshSave, WindowFull, HistoryOrder
<1>5. CASE ~(KeepLast <= 0)
  <2> DEFINE all == Readmitted(tracked)
             N == Len(tracked)
             D == Len(deferred)
             excess == IF Len(all) > KeepLast THEN Len(all) - KeepLast ELSE 0
             popped == [k \in 1..excess |-> [iter |-> all[k], by |-> Last(all)]]
  <2>1. /\ tracked' = SubSeq(all, excess + 1, Len(all))
        /\ deleteQ' = deleteQ \o popped
        /\ deferred' = <<>>
    BY <1>1, <1>5 DEF Prune
  <2>2. /\ N \in Nat /\ D \in Nat /\ DOMAIN tracked = 1..N /\ DOMAIN deferred = 1..D
        /\ tracked \in Seq(Iter) /\ deferred \in Seq(Iter)
        /\ \A k \in 1..N : tracked[k] \in Iter
        /\ \A k \in 1..D : deferred[k] \in Iter
    BY LenProperties, ElementOfSeq DEF RetentionTypes
  <2>3. tracked \in Seq(Int) /\ deferred \in Seq(Int)
    <3>1. Iter \subseteq Int
      BY DEF Iter
    <3> QED BY <3>1, <2>2, SeqMonotonic
  <2>4. \A k \in 1..D : deferred[k] \in Displacing
    BY <2>2 DEF Displacing, Popped
  <2>5. /\ \A m, n \in 1..N : m < n => tracked[m] < tracked[n]
        /\ \A k \in 1..D, m \in 1..N : deferred[k] < tracked[m]
    BY <2>2, <2>4 DEF HistoryOrder
  <2> HIDE DEF N, D
  <2>6. /\ all \in Seq(Int) /\ Len(all) = N + D
        /\ \A m \in 1..D : \E k \in 1..D : all[m] = deferred[k]
        /\ \A m \in (D + 1)..(N + D) : \E k \in 1..N : all[m] = tracked[k]
        /\ \A m \in 1..(N + D), n \in (D + 1)..(N + D) : m < n => all[m] < all[n]
    BY <2>3, <2>5, SortedAppended DEF Readmitted, N, D
  <2> HIDE DEF all
  <2>7. ASSUME NEW m \in 1..(N + D) PROVE all[m] \in Iter /\ all[m] \in Known
    <3>1. CASE m \in 1..D
      BY <3>1, <2>2, <2>4, <2>6 DEF Known
    <3>2. CASE m \in (D + 1)..(N + D)
      <4>1. PICK k \in 1..N : all[m] = tracked[k]
        BY <3>2, <2>6
      <4> QED BY <4>1, <2>2 DEF Known
    <3> QED BY <3>1, <3>2, <2>2
  <2>8. KeepLast \in Nat /\ KeepLast > 0
    BY <1>5, ConstantAssumption
  <2>9. D > 0 => N > KeepLast
    <3>1. D > 0 => 1 \in 1..D
      BY <2>2
    <3>2. D > 0 => Displacing # {}
      BY <3>1, <2>4
    <3> QED BY <3>2, <1>1 DEF WindowFull, N
  <2>10. /\ excess \in Nat /\ excess <= N + D /\ D <= excess
         /\ (N + D) - excess <= KeepLast
         /\ excess > 0 => (N + D) - excess = KeepLast
    <3>1. N + D \in Nat /\ Len(all) = N + D
      BY <2>2, <2>6
    <3> QED BY <3>1, <2>2, <2>8, <2>9
  <2> HIDE DEF excess
  <2>11. ASSUME NEW m \in (excess + 1)..(N + D)
         PROVE  m \in (D + 1)..(N + D) /\ m \in 1..(N + D) /\ \E k \in 1..N : all[m] = tracked[k]
    <3>1. m \in (D + 1)..(N + D) /\ m \in 1..(N + D)
      BY <2>2, <2>10, <2>11
    <3> QED BY <3>1, <2>6
  <2>12. all \in Seq(Iter) /\ excess \in 0..Len(all) /\ tracked' = SubSeq(all, excess + 1, Len(all))
    <3>1. DOMAIN all = 1..(N + D) /\ all \in [1..(N + D) -> Iter] /\ N + D \in Nat
      BY <2>6, <2>7, <2>2, LenProperties
    <3>2. all \in Seq(Iter)
      BY <3>1
    <3> QED BY <3>2, <2>1, <2>2, <2>6, <2>10
  <2>13. /\ tracked' \in Seq(Iter)
         /\ Len(tracked') = (N + D) - excess
         /\ \A k \in DOMAIN tracked' : /\ excess + k \in (excess + 1)..(N + D)
                                       /\ tracked'[k] = all[excess + k]
         /\ DOMAIN tracked' = 1..((N + D) - excess)
    <3>1. /\ tracked' \in Seq(Iter)
          /\ Len(tracked') = Len(all) - excess
          /\ DOMAIN tracked' = 1..(Len(all) - excess)
          /\ \A k \in 1..(Len(all) - excess) : /\ excess + k \in (excess + 1)..Len(all)
                                               /\ tracked'[k] = all[excess + k]
      BY <2>12, WindowProperties
    <3>2. Len(all) = N + D
      BY <2>6
    <3> QED BY <3>1, <3>2
  <2>14. /\ popped \in Seq(Queued) /\ Len(popped) = excess
         /\ \A k \in 1..excess : /\ k \in 1..(N + D) /\ popped[k].iter = all[k]
                                 /\ popped[k].by = all[N + D] /\ N + D \in 1..(N + D)
    BY <2>6, <2>12, DisplacedProperties DEF DisplacedBy
  <2>15. /\ deleteQ' \in Seq(Queued)
         /\ Len(deleteQ') = Len(deleteQ) + excess /\ Len(deleteQ) \in Nat
         /\ \A i \in 1 .. Len(deleteQ) + excess : deleteQ'[i] =
               IF i <= Len(deleteQ) THEN deleteQ[i] ELSE popped[i - Len(deleteQ)]
    <3>1. deleteQ \in Seq(Queued)
      BY DEF RetentionTypes
    <3> HIDE DEF popped
    <3> QED BY <3>1, <2>1, <2>14, ConcatProperties, LenProperties
  <2>16. /\ DOMAIN deleteQ = 1..Len(deleteQ) /\ DOMAIN deleteQ' = 1..(Len(deleteQ) + excess)
    <3>1. deleteQ \in Seq(Queued) /\ deleteQ' \in Seq(Queued)
      BY <2>15 DEF RetentionTypes
    <3> QED BY <3>1, <2>15, LenProperties
  <2>17. \A i \in Displacing' : i \in Displacing \/ \E k \in 1..excess : i = all[k]
    <3> SUFFICES ASSUME NEW i \in Displacing' PROVE i \in Displacing \/ \E k \in 1..excess : i = all[k]
      OBVIOUS
    <3>1. CASE i \in InHand'
      BY <3>1, <1>2 DEF Displacing
    <3>2. CASE \E k \in DOMAIN deferred' : i = deferred'[k]
      BY <3>2, <2>1
    <3>3. CASE \E n \in DOMAIN deleteQ' : deleteQ'[n].by # None /\ i = deleteQ'[n].iter
      <4>1. PICK n \in DOMAIN deleteQ' : deleteQ'[n].by # None /\ i = deleteQ'[n].iter
        BY <3>3
      <4>2. CASE n <= Len(deleteQ)
        <5>0. n \in 1..(Len(deleteQ) + excess) /\ n \in DOMAIN deleteQ
          BY <4>2, <2>10, <2>15, <2>16
        <5>1. n \in DOMAIN deleteQ /\ deleteQ'[n] = deleteQ[n]
          BY <5>0, <4>2, <2>15
        <5> QED BY <5>1, <4>1 DEF Displacing, Popped
      <4>3. CASE ~(n <= Len(deleteQ))
        <5>1. n - Len(deleteQ) \in 1..excess
          BY <4>3, <2>10, <2>15, <2>16
        <5>2. deleteQ'[n] = popped[n - Len(deleteQ)]
          BY <4>3, <2>15, <2>16
        <5> HIDE DEF popped
        <5>3. deleteQ'[n].iter = all[n - Len(deleteQ)]
          BY <5>1, <5>2, <2>14
        <5> QED BY <5>1, <5>3, <4>1
      <4> QED BY <4>2, <4>3
    <3> QED BY <3>1, <3>2, <3>3 DEF Displacing, Popped
  <2>18. Known' \subseteq Known
    <3>1. \A k \in DOMAIN tracked' : tracked'[k] \in Known
      <4> TAKE k \in DOMAIN tracked'
      <4>1. excess + k \in 1..(N + D) /\ tracked'[k] = all[excess + k]
        BY <2>11, <2>13
      <4> QED BY <4>1, <2>7
    <3>2. Displacing' \subseteq Known
      BY <2>17, <2>14, <2>7 DEF Known
    <3> QED BY <3>1, <3>2 DEF Known
  <2>19. RetentionTypes'
    <3>1. deferred' \in Seq(Iter)
      BY <2>1, EmptySeq
    <3> QED BY <1>1, <1>2, <2>13, <2>15, <3>1 DEF RetentionTypes, FilesType
  <2>20. FreshSave'
    BY <1>1, <1>2, <2>18 DEF FreshSave
  <2>21. WindowFull'
    <3>1. CASE excess > 0
      <4>1. Len(tracked') = KeepLast
        BY <3>1, <2>2, <2>10, <2>13
      <4> QED BY <4>1, <1>2, <2>8 DEF WindowFull
    <3>2. CASE ~(excess > 0)
      <4>1. ~(N > KeepLast)
        BY <3>2, <2>2, <2>8, <2>10
      <4>2. Displacing = {}
        BY <4>1, <1>1 DEF WindowFull, N
      <4>3. ~ \E k \in 1..excess : TRUE
        BY <3>2, <2>10
      <4>4. Displacing' = {}
        BY <2>17, <4>2, <4>3
      <4> QED BY <4>4 DEF WindowFull
    <3> QED BY <3>1, <3>2
  <2>22. HistoryOrder'
    <3>1. ASSUME NEW m \in DOMAIN tracked', NEW n \in DOMAIN tracked', m < n
          PROVE  tracked'[m] < tracked'[n]
      <4>1. /\ excess + m \in 1..(N + D) /\ excess + n \in (D + 1)..(N + D)
            /\ tracked'[m] = all[excess + m] /\ tracked'[n] = all[excess + n]
        BY <2>11, <2>13
      <4>2. excess + m < excess + n
        BY <3>1, <2>2, <2>10, <2>13
      <4> QED BY <4>1, <4>2, <2>6
    <3>2. ASSUME NEW i \in Displacing', NEW n \in DOMAIN tracked' PROVE i < tracked'[n]
      <4>1. /\ excess + n \in (D + 1)..(N + D) /\ excess + n \in (excess + 1)..(N + D)
            /\ tracked'[n] = all[excess + n]
        BY <2>11, <2>13
      <4>2. CASE i \in Displacing
        <5>1. PICK k \in 1..N : all[excess + n] = tracked[k]
          BY <4>1, <2>6
        <5> QED BY <4>1, <4>2, <5>1, <2>2 DEF HistoryOrder
      <4>3. CASE \E k \in 1..excess : i = all[k]
        <5>1. PICK k \in 1..excess : i = all[k]
          BY <4>3
        <5>2. k \in 1..(N + D) /\ k < excess + n
          BY <5>1, <4>1, <2>10, <2>2
        <5> QED BY <5>1, <5>2, <4>1, <2>6
      <4> QED BY <4>2, <4>3, <2>17
    <3> QED BY <3>1, <3>2 DEF HistoryOrder
  <2>23. ASSUME NEW n \in DOMAIN deleteQ'
         PROVE  \/ \E k \in DOMAIN deleteQ : deleteQ'[n] = deleteQ[k]
                \/ deleteQ'[n].by \in Known /\ deleteQ'[n].iter < deleteQ'[n].by
    <3>1. CASE n <= Len(deleteQ)
      <4>1. n \in 1..(Len(deleteQ) + excess) /\ n \in DOMAIN deleteQ
        BY <3>1, <2>10, <2>15, <2>16
      <4> QED BY <4>1, <3>1, <2>15
    <3>2. CASE ~(n <= Len(deleteQ))
      <4> DEFINE k == n - Len(deleteQ)
      <4>1. k \in 1..excess
        BY <3>2, <2>10, <2>15, <2>16
      <4>2. deleteQ'[n] = popped[k]
        BY <3>2, <2>15, <2>16
      <4> HIDE DEF popped, k
      <4>3. deleteQ'[n].iter = all[k] /\ deleteQ'[n].by = all[N + D] /\ N + D \in 1..(N + D)
        BY <4>1, <4>2, <2>14
      <4>4. k < N + D /\ N + D \in (D + 1)..(N + D) /\ k \in 1..(N + D)
        BY <4>1, <2>2, <2>8, <2>10
      <4>5. all[k] < all[N + D]
        BY <4>4, <2>6
      <4> QED BY <4>3, <4>5, <2>7
    <3> QED BY <3>1, <3>2
  <2> QED BY <1>3, <2>18, <2>19, <2>20, <2>21, <2>22, <2>23
<1> QED BY <1>4, <1>5

(* A step of a deletion under way takes nothing new in hand. *)
LEMMA InHandLeaves ==
  ASSUME UNCHANGED <<deleteQ, deferred>>,
         worker'.phase # "idle" =>
           worker.phase # "idle" /\ worker'.iter = worker.iter /\ worker'.by = worker.by
  PROVE  Displacing' \subseteq Displacing
BY DEF Displacing, Popped, InHand

(* The phases of a deletion that has passed every check. *)
Erasing == {"mark", "list", "objects", "sweep", "unmark", "husk"}

(* Objects go only from the checkpoint being erased, and only a marker comes. *)
FilesInHand ==
  /\ \A i \in Iter : files'[i] \subseteq files[i] \cup
       (IF worker.phase = "mark" /\ i = worker.iter THEN {"deleting"} ELSE {})
  /\ \A i \in Iter : (worker.phase \notin Erasing \/ i # worker.iter) => files[i] \subseteq files'[i]

(* The deletion goes on; it gets to erasing only past _verify_complete. *)
DeletionGoesOn ==
  worker'.phase # "idle" =>
    /\ worker.phase # "idle" /\ worker'.iter = worker.iter /\ worker'.by = worker.by
    /\ worker'.phase \in Erasing => \/ worker.phase \in Erasing
                                    \/ (Displaced /\ worker.phase = "verify" /\ UNCHANGED files)

(* The next deletion is taken from the queue. *)
DeletionTaken ==
  /\ worker.phase = "idle" /\ worker'.phase = "check" /\ UNCHANGED files
  /\ \E k \in DOMAIN deleteQ : worker'.iter = deleteQ[k].iter /\ worker'.by = deleteQ[k].by

(* How the deletion thread's own state moves while a deletion is under way. *)
PhaseMove == \E ph \in Phases : /\ worker' = [worker EXCEPT !.phase = ph]
                                /\ ph \in Erasing => \/ worker.phase \in Erasing
                                                     \/ (Displaced /\ worker.phase = "verify" /\ UNCHANGED files)
(* The listing of the objects to delete. *)
TodoMove == \E td \in SUBSET File : /\ worker' = [worker EXCEPT !.phase = "objects", !.todo = td]
                                    /\ worker.phase \in Erasing

(* What a step of the deletion thread does to the rest of the state. *)
DeleterFrame ==
  /\ UNCHANGED <<mainVars, writer, intact, pointer, landed, wallClock, run>>
  /\ deleteQ' \in Seq(Queued)
  /\ deferred' \in Seq(Iter)
  /\ worker' \in [phase : Phases, iter : 0..MaxIter, by : 0..MaxIter, todo : SUBSET File]
  /\ worker'.phase # "idle" => worker'.iter \in Iter
  /\ FilesInHand
  /\ DeletionGoesOn \/ DeletionTaken
  /\ \A n \in DOMAIN deleteQ' : \E k \in DOMAIN deleteQ : deleteQ'[n] = deleteQ[k]
  /\ Displacing' \subseteq Displacing
  /\ pc # "down"

(* Every step of the deletion thread is of that form. *)
LEMMA DeleterFrames ==
  ASSUME RetentionTypes, DeleteInvariant, Deleter
  PROVE  DeleterFrame
<1> USE DEF DeleterFrame, AllButWorker, mainVars, storeVars
<1>w. /\ worker \in [phase : Phases, iter : 0..MaxIter, by : 0..MaxIter, todo : SUBSET File]
      /\ worker.phase # "idle" => worker.iter \in Iter
      /\ deleteQ \in Seq(Queued) /\ deferred \in Seq(Iter)
      /\ files \in [Iter -> SUBSET File]
  BY DEF RetentionTypes, FilesType
<1>d. pc = "down" => worker.phase = "idle" /\ deleteQ = <<>>
  BY DEF DeleteInvariant, DownIsIdle, Idle
<1>i. /\ Idle \in [phase : Phases, iter : 0..MaxIter, by : 0..MaxIter, todo : SUBSET File]
      /\ Idle.phase = "idle"
  BY ConstantAssumption DEF Idle, Phases, None
<1>1. CASE Take
  <2>1. /\ Head(deleteQ) \in Queued /\ deleteQ # <<>>
        /\ Tail(deleteQ) \in Seq(Queued) /\ Len(Tail(deleteQ)) = Len(deleteQ) - 1
        /\ \A i \in 1..Len(Tail(deleteQ)) : Tail(deleteQ)[i] = deleteQ[i + 1]
    BY <1>1, <1>w, HeadTailProperties DEF Take
  <2>2. /\ DOMAIN deleteQ = 1..Len(deleteQ) /\ Len(deleteQ) \in Nat /\ Len(deleteQ) > 0
        /\ DOMAIN Tail(deleteQ) = 1..Len(Tail(deleteQ)) /\ Head(deleteQ) = deleteQ[1]
    BY <1>w, <2>1, LenProperties, EmptySeq
  <2>3. /\ worker' = [phase |-> "check", iter |-> Head(deleteQ).iter, by |-> Head(deleteQ).by, todo |-> {}]
        /\ deleteQ' = Tail(deleteQ) /\ UNCHANGED <<deferred, files>> /\ worker.phase = "idle"
    BY <1>1 DEF Take
  <2>4. /\ worker' \in [phase : Phases, iter : 0..MaxIter, by : 0..MaxIter, todo : SUBSET File]
        /\ worker'.iter \in Iter
    BY <2>1, <2>3 DEF Queued, Phases, Iter
  <2>5. Displacing' \subseteq Displacing
    <3>1. \A n \in DOMAIN deleteQ' : n + 1 \in DOMAIN deleteQ /\ deleteQ'[n] = deleteQ[n + 1]
      BY <2>1, <2>2, <2>3
    <3>2. 1 \in DOMAIN deleteQ
      BY <2>2
    <3>3. InHand' \subseteq IF deleteQ[1].by # None THEN {deleteQ[1].iter} ELSE {}
      BY <2>2, <2>3 DEF InHand
    <3> QED BY <2>3, <3>1, <3>2, <3>3 DEF Displacing, Popped
  <2>6. DeletionTaken
    BY <2>2, <2>3 DEF DeletionTaken
  <2>7. FilesInHand
    BY <2>3 DEF FilesInHand
  <2>8. \A n \in DOMAIN deleteQ' : \E k \in DOMAIN deleteQ : deleteQ'[n] = deleteQ[k]
    <3>1. \A n \in DOMAIN deleteQ' : n + 1 \in DOMAIN deleteQ /\ deleteQ'[n] = deleteQ[n + 1]
      BY <2>1, <2>2, <2>3
    <3> QED BY <3>1
  <2> QED BY <1>1, <1>d, <2>1, <2>3, <2>4, <2>5, <2>6, <2>7, <2>8, <1>w DEF Take
<1>2. CASE Defer
  <2>1. /\ worker.phase = "verify" /\ worker.by # None /\ worker' = Idle
        /\ deferred' = Append(deferred, worker.iter) /\ UNCHANGED <<deleteQ, files>>
    <3>1. ~Displaced => worker.by # None
      BY ConstantAssumption DEF Displaced, Iter, None
    <3> QED BY <1>2, <3>1 DEF Defer
  <2>2. /\ deferred' \in Seq(Iter) /\ Len(deferred') = Len(deferred) + 1
        /\ \A k \in 1..Len(deferred) : deferred'[k] = deferred[k]
        /\ deferred'[Len(deferred) + 1] = worker.iter /\ Len(deferred) \in Nat
        /\ DOMAIN deferred = 1..Len(deferred)
    BY <1>w, <2>1, AppendProperties, LenProperties
  <2>3. DOMAIN deferred' = 1..(Len(deferred) + 1)
    BY <2>2, LenProperties
  <2>4. \A k \in DOMAIN deferred' : \/ k \in DOMAIN deferred /\ deferred'[k] = deferred[k]
                                    \/ deferred'[k] = worker.iter
    BY <2>2, <2>3
  <2>5. Displacing' \subseteq Displacing
    <3>1. worker.iter \in Displacing
      BY <2>1 DEF Displacing, InHand
    <3>2. InHand' = {}
      BY <2>1, <1>i DEF InHand
    <3> QED BY <2>1, <2>4, <3>1, <3>2 DEF Displacing, Popped
  <2>6. FilesInHand /\ DeletionGoesOn
    BY <2>1, <1>i DEF FilesInHand, DeletionGoesOn
  <2> QED BY <1>2, <1>d, <1>i, <1>w, <2>1, <2>2, <2>5, <2>6 DEF Defer
<1>3. ASSUME UNCHANGED <<deleteQ, deferred, mainVars, writer, intact, pointer, landed, wallClock, run>>,
             worker.phase # "idle",
             worker' = Idle \/ PhaseMove \/ TodoMove, FilesInHand
      PROVE  DeleterFrame
  <2>1. /\ worker' \in [phase : Phases, iter : 0..MaxIter, by : 0..MaxIter, todo : SUBSET File]
        /\ worker'.phase # "idle" => /\ worker.phase # "idle" /\ worker'.iter = worker.iter
                                     /\ worker'.by = worker.by
        /\ DeletionGoesOn
    <3>1. CASE worker' = Idle
      BY <3>1, <1>i DEF DeletionGoesOn
    <3>2. CASE PhaseMove
      <4>1. PICK ph \in Phases :
               /\ worker' = [worker EXCEPT !.phase = ph]
               /\ ph \in Erasing => \/ worker.phase \in Erasing
                                    \/ (Displaced /\ worker.phase = "verify" /\ UNCHANGED files)
        BY <3>2 DEF PhaseMove
      <4>2. worker' = [worker EXCEPT !.phase = ph] /\ ph \in Phases
        BY <4>1
      <4>3. /\ worker' \in [phase : Phases, iter : 0..MaxIter, by : 0..MaxIter, todo : SUBSET File]
            /\ worker'.phase = ph /\ worker'.iter = worker.iter /\ worker'.by = worker.by
        BY <4>2, <1>w
      <4>4. DeletionGoesOn
        BY <4>1, <4>3, <1>3 DEF DeletionGoesOn
      <4> QED BY <4>3, <4>4, <1>3
    <3>3. CASE TodoMove
      <4>1. "objects" \in Phases
        BY DEF Phases, Past
      <4>2. PICK td \in SUBSET File : /\ worker' = [worker EXCEPT !.phase = "objects", !.todo = td]
                                      /\ worker.phase \in Erasing
        BY <3>3 DEF TodoMove
      <4>3. /\ worker' \in [phase : Phases, iter : 0..MaxIter, by : 0..MaxIter, todo : SUBSET File]
            /\ worker'.iter = worker.iter /\ worker'.by = worker.by
        BY <4>1, <4>2, <1>w
      <4> QED BY <4>2, <4>3, <1>3 DEF DeletionGoesOn
    <3> QED BY <1>3, <3>1, <3>2, <3>3
  <2>2. Displacing' \subseteq Displacing
    BY <1>3, <2>1, InHandLeaves
  <2> QED BY <1>3, <1>d, <1>w, <2>1, <2>2
<1> USE DEF Phases, Past, Erasing, PhaseMove, TodoMove
<1>4. CASE GiveUp
  BY <1>4, <1>3 DEF GiveUp, FilesInHand
<1>5. CASE CheckProtected
  BY <1>5, <1>3 DEF CheckProtected, FilesInHand
<1>6. CASE CheckMarkers
  <2>1. worker' = Idle \/ PhaseMove
    <3>1. worker' = Idle \/ worker' = [worker EXCEPT !.phase = "verify"]
      BY <1>6 DEF CheckMarkers
    <3> QED BY <3>1
  <2>2. FilesInHand
    BY <1>6 DEF CheckMarkers, FilesInHand
  <2> QED BY <1>6, <1>3, <2>1, <2>2 DEF CheckMarkers
<1>7. CASE Verify
  BY <1>7, <1>3 DEF Verify, Go, FilesInHand
<1>8. CASE MarkDeleting
  <2>1. FilesInHand
    BY <1>8, <1>w DEF MarkDeleting, FilesInHand
  <2> QED BY <1>8, <1>3, <2>1 DEF MarkDeleting, Go
<1>9. CASE List
  <2>1. PICK td \in SUBSET File : worker' = [worker EXCEPT !.phase = "objects", !.todo = td]
    BY <1>9, <1>w DEF List
  <2> QED BY <1>9, <1>3, <2>1 DEF List, FilesInHand
<1>10. CASE ObjectsDone \/ SweepDone
  BY <1>10, <1>3 DEF ObjectsDone, SweepDone, Go, FilesInHand
<1>11. CASE Unmark
  <2>1. FilesInHand
    BY <1>11, <1>w DEF Unmark, Erase, FilesInHand
  <2> QED BY <1>11, <1>3, <2>1 DEF Unmark, Go
<1>12. CASE RemoveHusk
  <2>1. FilesInHand
    BY <1>12, <1>w DEF RemoveHusk, FilesInHand
  <2> QED BY <1>12, <1>3, <2>1 DEF RemoveHusk
<1>13. ASSUME NEW f \in File, DeleteObject(f) PROVE DeleterFrame
  <2>1. FilesInHand
    BY <1>13, <1>w DEF DeleteObject, Erase, FilesInHand
  <2>2. /\ worker.todo \ {f} \in SUBSET File /\ worker.phase = "objects"
        /\ worker' = [worker EXCEPT !.todo = @ \ {f}]
        /\ UNCHANGED <<deleteQ, deferred, mainVars, writer, intact, pointer, landed, wallClock, run>>
    BY <1>13, <1>w DEF DeleteObject
  <2>3. worker' = [worker EXCEPT !.phase = "objects", !.todo = worker.todo \ {f}]
    BY <2>2, <1>w
  <2> QED BY <1>3, <2>1, <2>2, <2>3
<1>14. ASSUME NEW f \in File, SweepObject(f) PROVE DeleterFrame
  <2>1. FilesInHand
    BY <1>14, <1>w DEF SweepObject, Erase, FilesInHand
  <2>2. \E ph \in Phases : worker' = [worker EXCEPT !.phase = ph]
    <3>1. CASE UNCHANGED worker
      <4>1. worker = [worker EXCEPT !.phase = worker.phase] /\ worker.phase \in Phases
        BY <1>w
      <4> QED BY <3>1, <4>1
    <3>2. CASE Go("unmark")
      BY <3>2 DEF Go
    <3> QED BY <3>1, <3>2, <1>14 DEF SweepObject
  <2>3. worker.phase \in Erasing
    BY <1>14 DEF SweepObject
  <2> QED BY <1>14, <1>3, <2>1, <2>2, <2>3 DEF SweepObject
<1> QED BY <1>1, <1>2, <1>4, <1>5, <1>6, <1>7, <1>8, <1>9, <1>10, <1>11, <1>12, <1>13, <1>14
  DEF Deleter

LEMMA DeleterHistory ==
  ASSUME HistoryInvariant, DeleteInvariant, Deleter
  PROVE  HistoryInvariant'
<1> USE DEF HistoryInvariant
<1>1. DeleterFrame
  BY DeleterFrames
<1>2. FilesType'
  BY DeleterRemoves DEF DeleteInvariant
<1>3. RetentionTypes'
  BY <1>1, <1>2 DEF RetentionTypes, DeleterFrame, mainVars
<1>4. UNCHANGED <<tracked, success, pc, iteration, lastCheckpoint, triggered, writer, pointer>>
      /\ Displacing' \subseteq Displacing /\ pc # "down"
      /\ \A i \in Iter : "saved" \in files'[i] => "saved" \in files[i]
  BY <1>1 DEF DeleterFrame, FilesInHand, mainVars
<1>5. Known' \subseteq Known
  BY <1>4 DEF Known
<1>6. SavesAdvance'
  BY <1>4 DEF SavesAdvance
<1>7. FreshSave' /\ WindowFull' /\ HistoryOrder'
  BY <1>4, <1>5 DEF FreshSave, WindowFull, HistoryOrder
<1> QED BY <1>3, <1>6, <1>7

LEMMA StopHistory ==
  ASSUME HistoryInvariant, Stop
  PROVE  HistoryInvariant'
<1> USE DEF HistoryInvariant
<1>1. /\ pc' = "down" /\ triggered' = {} /\ success' = NoSuccess /\ tracked' = <<>>
      /\ writer' = NoSave /\ deleteQ' = <<>> /\ deferred' = <<>> /\ worker' = Idle
      /\ UNCHANGED <<iteration, lastCheckpoint, files, pointer, run>>
  BY DEF Stop, storeVars
<1>2. RetentionTypes'
  BY <1>1, ConstantAssumption, EmptySeq DEF RetentionTypes, NoSuccess, NoSave, Idle, FilesType,
     Phases, None
<1>3. Known' = {} /\ Displacing' = {} /\ DOMAIN tracked' = {}
  BY <1>1 DEF Known, Displacing, Popped, InHand, Idle
<1>4. SavesAdvance'
  BY <1>1 DEF SavesAdvance, NoSuccess, NoSave
<1> QED BY <1>2, <1>3, <1>4 DEF FreshSave, WindowFull, HistoryOrder

(* Ascending keeps every iteration of the set. *)
LEMMA AscendingContains ==
  ASSUME NEW S \in SUBSET Iter
  PROVE  \A x \in S : \E n \in 1..Len(Ascending(S)) : Ascending(S)[n] = x
<1>1. IsFiniteSet(S) /\ S \in SUBSET Int
  <2>1. 1 \in Int /\ MaxIter \in Int
    BY ConstantAssumption
  <2>2. IsFiniteSet(Iter)
    BY <2>1, FS_Interval DEF Iter
  <2>3. IsFiniteSet(S)
    BY <2>2, FS_Subset
  <2> QED BY <2>3 DEF Iter
<1> DEFINE N == Cardinality(S)
           q == SetToSeq(S)
<1>2. /\ q \in [1..N -> S] /\ N \in Nat
      /\ \A i, j \in 1..N : q[i] = q[j] => i = j
  BY <1>1, SetToSeqInjective
<1>3. \A x \in S : \E i \in 1..N : q[i] = x
  BY <1>1, <1>2, InjectionOnto
<1> HIDE DEF q, N
<1>4. q \in Seq(Int) /\ Len(q) = N
  <2>1. q \in [1..N -> Int]
    BY <1>1, <1>2
  <2> QED BY <2>1, <1>2
<1>5. /\ \A m \in 1..Len(q) : \E n \in 1..Len(q) : Sorted(q)[n] = q[m]
      /\ Len(Sorted(q)) = Len(q)
  BY <1>4, SortedContains, SortedProperties
<1> QED BY <1>3, <1>4, <1>5 DEF Ascending, q

(* Ascending lists iterations in ascending order. *)
LEMMA AscendingIters ==
  ASSUME NEW S \in SUBSET Iter
  PROVE  /\ Ascending(S) \in Seq(S) /\ Ascending(S) \in Seq(Iter)
         /\ \A m, n \in 1..Len(Ascending(S)) : m < n => Ascending(S)[m] < Ascending(S)[n]
<1>1. IsFiniteSet(S) /\ S \in SUBSET Int
  <2>1. 1 \in Int /\ MaxIter \in Int
    BY ConstantAssumption
  <2>2. IsFiniteSet(Iter)
    BY <2>1, FS_Interval DEF Iter
  <2>3. IsFiniteSet(S)
    BY <2>2, FS_Subset
  <2> QED BY <2>3 DEF Iter
<1>2. /\ Ascending(S) \in Seq(S)
      /\ \A m, n \in 1..Len(Ascending(S)) : m < n => Ascending(S)[m] < Ascending(S)[n]
  BY <1>1, AscendingProperties
<1> HIDE DEF Ascending
<1>3. Ascending(S) \in Seq(Iter)
  BY <1>2, SeqMonotonic
<1> QED BY <1>2, <1>3

(* What a start takes up from the directories it can read. *)
RecoveredState(readable, all, old, excess) ==
  /\ readable \in SUBSET Iter
  /\ all \in Seq(Iter) /\ old \in Seq(Iter) /\ excess \in 0..Len(all)
  /\ \A k \in 1..Len(all) : all[k] \in Recovered(readable)
  /\ \A k \in 1..Len(old) : old[k] \in Interrupted(readable)
  /\ \A m, n \in 1..Len(all) : m < n => all[m] < all[n]
  /\ \A i \in Recovered(readable) : \E k \in 1..Len(all) : all[k] = i
  /\ \A i \in Interrupted(readable) : \E k \in 1..Len(old) : old[k] = i
  /\ excess > 0 => KeepLast > 0 /\ Len(all) - excess = KeepLast
  /\ KeepLast > 0 => Len(all) - excess <= KeepLast
  /\ IF readable = Iter THEN UNCHANGED failures ELSE Fails
  /\ tracked' = SubSeq(all, excess + 1, Len(all))
  /\ deleteQ' = [k \in 1..Len(old) |-> [iter |-> old[k], by |-> None]] \o DisplacedBy(all, excess)

(* A start recovers such a state. *)
LEMMA RestartRecovers ==
  ASSUME Restart
  PROVE  \E readable, all, old, excess : RecoveredState(readable, all, old, excess)
<1>1. PICK readable \in {Iter, {}} \cup {Iter \ {i} : i \in Iter} :
        /\ IF readable = Iter THEN UNCHANGED failures ELSE Fails
        /\ LET all == Ascending(Recovered(readable))
               old == Ascending(Interrupted(readable))
               excess == IF KeepLast > 0 /\ Len(all) > KeepLast THEN Len(all) - KeepLast ELSE 0
           IN /\ tracked' = SubSeq(all, excess + 1, Len(all))
              /\ deleteQ' = [k \in 1..Len(old) |-> [iter |-> old[k], by |-> None]]
                            \o [k \in 1..excess |-> [iter |-> all[k], by |-> Last(all)]]
  BY DEF Restart
<1> DEFINE all == Ascending(Recovered(readable))
           old == Ascending(Interrupted(readable))
           excess == IF KeepLast > 0 /\ Len(all) > KeepLast THEN Len(all) - KeepLast ELSE 0
<1>2. readable \in SUBSET Iter
  OBVIOUS
<1>3. Recovered(readable) \in SUBSET Iter /\ Interrupted(readable) \in SUBSET Iter
  BY <1>2 DEF Recovered, Interrupted
<1>4. /\ all \in Seq(Recovered(readable)) /\ all \in Seq(Iter)
      /\ \A m, n \in 1..Len(all) : m < n => all[m] < all[n]
      /\ old \in Seq(Interrupted(readable)) /\ old \in Seq(Iter)
      /\ \A i \in Recovered(readable) : \E k \in 1..Len(all) : all[k] = i
      /\ \A i \in Interrupted(readable) : \E k \in 1..Len(old) : old[k] = i
  BY <1>3, AscendingIters, AscendingContains
<1>5. /\ tracked' = SubSeq(all, excess + 1, Len(all))
      /\ deleteQ' = [k \in 1..Len(old) |-> [iter |-> old[k], by |-> None]] \o DisplacedBy(all, excess)
  BY <1>1 DEF DisplacedBy
<1> HIDE DEF all, old
<1>6. Len(all) \in Nat
  BY <1>4, LenProperties
<1>7. /\ excess \in 0..Len(all) /\ (excess > 0 => KeepLast > 0 /\ Len(all) - excess = KeepLast)
      /\ KeepLast > 0 => Len(all) - excess <= KeepLast
  BY <1>6, ConstantAssumption
<1>8. /\ \A k \in 1..Len(all) : all[k] \in Recovered(readable)
      /\ \A k \in 1..Len(old) : old[k] \in Interrupted(readable)
  BY <1>4, ElementOfSeq
<1> HIDE DEF excess
<1>9. IF readable = Iter THEN UNCHANGED failures ELSE Fails
  BY <1>1
<1> QED BY <1>2, <1>4, <1>5, <1>7, <1>8, <1>9 DEF RecoveredState

(* The elements of the queue a start fills. *)
LEMMA RecoveredQueue ==
  ASSUME NEW readable, NEW all, NEW old, NEW excess, RecoveredState(readable, all, old, excess)
  PROVE  /\ deleteQ' \in Seq(Queued)
         /\ \A n \in DOMAIN deleteQ' :
              \/ deleteQ'[n].by = None /\ deleteQ'[n].iter \in Interrupted(readable)
              \/ \E k \in 1..excess : /\ k \in 1..Len(all) /\ Len(all) \in 1..Len(all)
                                      /\ deleteQ'[n].iter = all[k] /\ deleteQ'[n].by = all[Len(all)]
         /\ \A k \in 1..Len(old) : \E n \in DOMAIN deleteQ' : deleteQ'[n].iter = old[k]
         /\ \A k \in 1..excess : \E n \in DOMAIN deleteQ' : deleteQ'[n].iter = all[k]
<1> DEFINE first == [k \in 1..Len(old) |-> [iter |-> old[k], by |-> None]]
           second == DisplacedBy(all, excess)
<1>1. /\ Len(old) \in Nat /\ Len(all) \in Nat /\ excess \in Nat
      /\ \A k \in 1..Len(old) : old[k] \in Iter
  BY LenProperties, ElementOfSeq DEF RecoveredState
<1>2. first \in [1..Len(old) -> Queued]
  BY <1>1, ConstantAssumption DEF Queued, None
<1>3. /\ first \in Seq(Queued) /\ Len(first) = Len(old)
      /\ \A k \in 1..Len(old) : first[k].by = None /\ first[k].iter = old[k]
  BY <1>1, <1>2
<1>4. /\ second \in Seq(Queued) /\ Len(second) = excess
      /\ \A k \in 1..excess : /\ k \in 1..Len(all) /\ Len(all) \in 1..Len(all)
                              /\ second[k].iter = all[k] /\ second[k].by = all[Len(all)]
  BY DisplacedProperties DEF RecoveredState
<1>5. deleteQ' = first \o second
  BY DEF RecoveredState
<1> HIDE DEF first, second
<1>6. /\ deleteQ' \in Seq(Queued) /\ Len(deleteQ') = Len(old) + excess
      /\ \A i \in 1..(Len(old) + excess) : deleteQ'[i] =
           IF i <= Len(old) THEN first[i] ELSE second[i - Len(old)]
  <2>1. /\ first \o second \in Seq(Queued) /\ Len(first \o second) = Len(first) + Len(second)
        /\ \A i \in 1..(Len(first) + Len(second)) : (first \o second)[i] =
              IF i <= Len(first) THEN first[i] ELSE second[i - Len(first)]
    <3>1. first \in Seq(Queued) /\ second \in Seq(Queued)
      BY <1>3, <1>4
    <3> QED BY <3>1, ConcatProperties
  <2>2. Len(first) = Len(old) /\ Len(second) = excess
    BY <1>3, <1>4
  <2> QED BY <2>1, <2>2, <1>5
<1>7. DOMAIN deleteQ' = 1..(Len(old) + excess)
  BY <1>6, LenProperties
<1>8. ASSUME NEW n \in 1..(Len(old) + excess)
      PROVE  \/ deleteQ'[n].by = None /\ deleteQ'[n].iter \in Interrupted(readable)
             \/ \E k \in 1..excess : /\ k \in 1..Len(all) /\ Len(all) \in 1..Len(all)
                                     /\ deleteQ'[n].iter = all[k] /\ deleteQ'[n].by = all[Len(all)]
  <2>1. CASE n <= Len(old)
    <3>1. n \in 1..Len(old) /\ deleteQ'[n] = first[n]
      BY <1>1, <1>6, <2>1
    <3> QED BY <3>1, <1>3 DEF RecoveredState
  <2>2. CASE ~(n <= Len(old))
    <3>1. n - Len(old) \in 1..excess /\ deleteQ'[n] = second[n - Len(old)]
      BY <1>1, <1>6, <2>2
    <3> QED BY <3>1, <1>4
  <2> QED BY <2>1, <2>2
<1>9. ASSUME NEW k \in 1..Len(old) PROVE \E n \in DOMAIN deleteQ' : deleteQ'[n].iter = old[k]
  <2>1. k \in 1..(Len(old) + excess) /\ k <= Len(old)
    BY <1>1
  <2>2. deleteQ'[k].iter = old[k]
    BY <2>1, <1>3, <1>6
  <2> QED BY <2>1, <2>2, <1>7
<1>10. ASSUME NEW k \in 1..excess PROVE \E n \in DOMAIN deleteQ' : deleteQ'[n].iter = all[k]
  <2>1. /\ Len(old) + k \in 1..(Len(old) + excess) /\ ~(Len(old) + k <= Len(old))
        /\ (Len(old) + k) - Len(old) = k
    BY <1>1
  <2>2. deleteQ'[Len(old) + k].iter = all[k]
    BY <2>1, <1>4, <1>6
  <2> QED BY <2>1, <2>2, <1>7
<1> QED BY <1>6, <1>7, <1>8, <1>9, <1>10

LEMMA RestartHistory ==
  ASSUME HistoryInvariant, DeleteInvariant, Restart
  PROVE  HistoryInvariant'
<1> USE DEF HistoryInvariant
<1>1. /\ pc = "down" /\ run' = run + 1 /\ run < MaxRuns
      /\ iteration' = pointer /\ lastCheckpoint' = pointer /\ pc' = "train"
      /\ UNCHANGED <<triggered, success, writer, deferred, worker, files, pointer>>
  BY DEF Restart, storeVars
<1>2. /\ worker.phase = "idle" /\ writer.phase = "none" /\ success.phase = "none"
      /\ deferred = <<>> /\ triggered = {}
  BY <1>1 DEF DeleteInvariant, DownIsIdle, Idle, NoSuccess, SavesAdvance
<1>3. PICK readable, all, old, excess : RecoveredState(readable, all, old, excess)
  BY RestartRecovers
<1>4. /\ deleteQ' \in Seq(Queued)
      /\ \A n \in DOMAIN deleteQ' :
           \/ deleteQ'[n].by = None
           \/ \E k \in 1..excess : k \in 1..Len(all) /\ deleteQ'[n].iter = all[k]
  BY <1>3, RecoveredQueue
<1>5. /\ tracked' \in Seq(Iter) /\ Len(tracked') = Len(all) - excess
      /\ DOMAIN tracked' = 1..(Len(all) - excess)
      /\ \A k \in 1..(Len(all) - excess) : /\ excess + k \in (excess + 1)..Len(all)
                                           /\ tracked'[k] = all[excess + k]
  BY <1>3, WindowProperties DEF RecoveredState
<1>6. /\ Len(all) \in Nat /\ excess \in 0..Len(all)
      /\ \A k \in 1..Len(all) : all[k] \in Iter /\ all[k] <= pointer
  BY <1>3, LenProperties, ElementOfSeq DEF RecoveredState, Recovered, SavesAdvance
<1>7. RetentionTypes'
  <2>1. /\ pointer \in 0..MaxIter /\ run' \in 1..MaxRuns /\ pc' = "train"
        /\ iteration' \in 0..MaxIter /\ lastCheckpoint' \in 0..iteration' /\ pointer' \in 0..MaxIter
    BY <1>1, ConstantAssumption DEF RetentionTypes
  <2>2. /\ writer' = writer /\ success' = success /\ deferred' = deferred /\ worker' = worker
        /\ files' = files
    BY <1>1
  <2>3. /\ writer \in [phase : {"none", "shards", "metadata", "landed"}, iter : 0..MaxIter]
        /\ success \in [phase : {"none", "mark", "prune"}, iter : 0..MaxIter]
        /\ deferred \in Seq(Iter)
        /\ worker \in [phase : Phases, iter : 0..MaxIter, by : 0..MaxIter, todo : SUBSET File]
        /\ files \in [Iter -> SUBSET File]
    BY DEF RetentionTypes, FilesType
  <2>4. worker'.phase = "idle"
    BY <1>2, <2>2
  <2> QED BY <1>4, <1>5, <2>1, <2>2, <2>3, <2>4 DEF RetentionTypes, FilesType
<1>8. SavesAdvance'
  BY <1>1, <1>2 DEF SavesAdvance, RetentionTypes
<1>9. \A i \in Displacing' : \E k \in 1..excess : k \in 1..Len(all) /\ i = all[k]
  BY <1>1, <1>2, <1>4 DEF Displacing, Popped, InHand
<1>10. ASSUME NEW k \in DOMAIN tracked'
       PROVE  excess + k \in 1..Len(all) /\ tracked'[k] = all[excess + k] /\ k \in Nat
  BY <1>5, <1>6
<1>11. FreshSave'
  <2>1. \A i \in Known' : i <= pointer
    BY <1>6, <1>9, <1>10 DEF Known
  <2> QED BY <1>1, <1>2, <2>1 DEF FreshSave
<1>12. WindowFull'
  <2>1. Displacing' # {} => excess > 0
    BY <1>9, <1>6
  <2>2. excess > 0 => KeepLast > 0 /\ Len(tracked') = KeepLast
    BY <1>3, <1>5 DEF RecoveredState
  <2> QED BY <1>1, <1>2, <2>1, <2>2, ConstantAssumption DEF WindowFull
<1>13. HistoryOrder'
  <2>0. \A m, n \in 1..Len(all) : m < n => all[m] < all[n]
    BY <1>3 DEF RecoveredState
  <2>1. ASSUME NEW m \in DOMAIN tracked', NEW n \in DOMAIN tracked', m < n
        PROVE  tracked'[m] < tracked'[n]
    <3>1. excess + m < excess + n
      BY <2>1, <1>6, <1>10
    <3> QED BY <3>1, <1>10, <2>0
  <2>2. ASSUME NEW i \in Displacing', NEW m \in DOMAIN tracked' PROVE i < tracked'[m]
    <3>1. PICK k \in 1..excess : k \in 1..Len(all) /\ i = all[k]
      BY <1>9
    <3>2. k < excess + m /\ excess + m \in 1..Len(all) /\ tracked'[m] = all[excess + m]
      BY <1>5, <1>6, <1>10
    <3> QED BY <3>1, <3>2, <2>0
  <2> QED BY <2>1, <2>2 DEF HistoryOrder
<1> QED BY <1>7, <1>8, <1>11, <1>12, <1>13

(* HistoryInvariant is inductive. *)
LEMMA NextHistory ==
  ASSUME HistoryInvariant, DeleteInvariant, [Next]_vars
  PROVE  HistoryInvariant'
<1>1. CASE Callback
  BY <1>1, DispatchHistory, MarkSavedHistory, PruneHistory DEF Callback
<1>2. CASE Lifecycle
  <2>1. CASE UNCHANGED vars
    BY <2>1, KnownUnchanged DEF HistoryInvariant, RetentionTypes, SavesAdvance, FreshSave, WindowFull,
       HistoryOrder, vars, mainVars, storeVars, FilesType
  <2> QED BY <1>2, <2>1, StopHistory, RestartHistory DEF Lifecycle, Kill, Exit, Finished
<1>3. CASE UNCHANGED vars
  BY <1>3, KnownUnchanged DEF HistoryInvariant, RetentionTypes, SavesAdvance, FreshSave, WindowFull,
     HistoryOrder, vars, mainVars, storeVars, FilesType
<1> QED BY <1>1, <1>2, <1>3, TrainerHistory, WriterHistory, DeleterHistory DEF Next

LEMMA HistoryAlways == Spec => []HistoryInvariant
<1>1. DeleteInvariant /\ [Next]_vars => DeleteInvariant'
  BY NextDelete
<1>2. HistoryInvariant /\ DeleteInvariant /\ [Next]_vars => HistoryInvariant'
  BY NextHistory
<1> QED BY InitDelete, InitHistory, <1>1, <1>2, PTL DEF Spec

(* The history is ascending, and all that was popped from it or is about to be   *)
(* put back into it is older than all of it: bisect.insort in _readmit_deferred, *)
(* the pops of _prune at the front and the comparison with the newest entry rely *)
(* on it, through deferrals, kills, restarts and saves confirmed in between.     *)
THEOREM HistoryIsNewestCorrect == Spec => []HistoryIsNewest
<1>1. HistoryInvariant => HistoryIsNewest
  BY DEF HistoryInvariant, HistoryOrder, HistoryIsNewest, Displacing
<1> QED BY <1>1, HistoryAlways, PTL

-----------------------------------------------------------------------------
(* The newest good checkpoint. *)

(* No save is taken twice: the last iteration is a milestone in every start. *)
MilestoneLast == \A n \in 1..MaxRuns : MaxIter % SaveIterOf[n] = 0

(* What is known or marked has landed, and no landed iteration is saved again. *)
SavedOnce ==
  /\ pc # "lastSave"
  /\ \A i \in landed : i \in Iter /\ i <= pointer
  /\ writer.phase \in {"shards", "metadata"} => pointer < writer.iter
  /\ writer.phase = "landed" => writer.iter \in landed
  /\ success.phase # "none" => success.iter \in landed
  /\ Known \subseteq landed
  /\ \A i \in Iter : "saved" \in files[i] => i \in landed

(* by has landed and is newer than iter. *)
Successor(iter, by) == by # None => by \in landed /\ iter < by

(* Every queued or running deletion names a landed, newer checkpoint. *)
Displacers ==
  /\ \A k \in DOMAIN deleteQ : Successor(deleteQ[k].iter, deleteQ[k].by)
  /\ worker.phase # "idle" => Successor(worker.iter, worker.by)

(* What is being erased, or will be without a further check of a successor: the *)
(* interrupted deletions a start has taken up.                                  *)
InErasing == IF worker.phase # "idle" /\ (worker.by = None \/ worker.phase \in Erasing)
             THEN {worker.iter} ELSE {}
Doomed == {i \in Iter : "deleting" \in files[i]} \cup InErasing
          \cup {deleteQ[k].iter : k \in {n \in DOMAIN deleteQ : deleteQ[n].by = None}}
(* A newer good checkpoint exists for each of them. *)
DoomedSurpassed == \A i \in Doomed : \E j \in Iter : j > i /\ Good(j)

(* The inductive invariant behind NewestGoodKept. *)
GoodInvariant == SavedOnce /\ Displacers /\ DoomedSurpassed

LEMMA InitGood == Init => GoodInvariant
<1> SUFFICES ASSUME Init PROVE GoodInvariant
  OBVIOUS
<1>1. Known = {} /\ Doomed = {} /\ DOMAIN deleteQ = {}
  BY DEF Init, Known, Displacing, Popped, InHand, Idle, Doomed, InErasing
<1> QED BY <1>1 DEF Init, GoodInvariant, SavedOnce, Displacers, DoomedSurpassed, NoSave, NoSuccess, Idle

(* SavedOnce, step by step. *)
LEMMA TrainerSavedOnce ==
  ASSUME MilestoneLast, HistoryInvariant, SavedOnce, Trainer
  PROVE  SavedOnce' /\ UNCHANGED landed
<1>0. UNCHANGED <<tracked, deleteQ, deferred, worker, success, files, intact, pointer, run>>
  BY DEF Trainer, TrainStep, TriggerSave, EndTraining, StartSave, storeVars
<1>1. Known' = Known
  BY <1>0, KnownUnchanged
<1>2. CASE TrainStep \/ TriggerSave
  BY <1>0, <1>1, <1>2 DEF SavedOnce, TrainStep, TriggerSave, storeVars
<1>3. CASE EndTraining
  <2>1. IsMilestone(iteration)
    BY <1>3 DEF EndTraining, MilestoneLast, IsMilestone, SaveIter, HistoryInvariant, RetentionTypes
  <2> QED BY <1>0, <1>1, <1>3, <2>1 DEF SavedOnce, EndTraining, storeVars
<1>4. CASE StartSave
  <2>1. pc = "save" /\ pc' = "train" /\ writer'.phase = "shards" /\ writer'.iter = iteration
        /\ landed' = landed \ {iteration}
    BY <1>4 DEF StartSave, SavedOnce
  <2>2. pointer < iteration /\ ~(iteration <= pointer)
    BY <2>1, ConstantAssumption DEF HistoryInvariant, SavesAdvance, RetentionTypes
  <2>3. landed' = landed
    BY <2>1, <2>2 DEF SavedOnce
  <2> QED BY <1>0, <1>1, <2>1, <2>2, <2>3 DEF SavedOnce
<1> QED BY <1>2, <1>3, <1>4 DEF Trainer

LEMMA WriterSavedOnce ==
  ASSUME HistoryInvariant, SavedOnce, Writer
  PROVE  /\ SavedOnce' /\ landed \subseteq landed'
         /\ \A i \in landed : i \in intact => i \in intact'
<1>0. /\ UNCHANGED <<tracked, deleteQ, deferred, worker, success, pc, run>>
      /\ writer.phase \in {"shards", "metadata"} /\ writer'.iter = writer.iter
  BY DEF Writer, WriteShards, WriteMetadata, mainVars, HistoryInvariant, RetentionTypes
<1>1. Known' = Known
  BY <1>0, KnownUnchanged
<1>2. /\ pointer < writer.iter /\ writer.iter \in Iter /\ pointer \in 0..MaxIter
      /\ success.phase = "none" /\ Iter \subseteq Int
  BY <1>0, ConstantAssumption DEF SavedOnce, HistoryInvariant, SavesAdvance, RetentionTypes, Iter
<1>3. \A i \in Iter : "saved" \in files'[i] => "saved" \in files[i]
  <2>1. PICK f \in Payload : files' = [files EXCEPT ![writer.iter] = @ \cup {f}]
    BY DEF Writer, WriteShards, WriteMetadata, Payload
  <2>2. f # "saved"
    BY DEF Payload
  <2> QED BY <2>1, <2>2, <1>2 DEF HistoryInvariant, RetentionTypes, FilesType
<1>4. CASE WriteShards
  <2>1. writer.iter \notin landed
    <3>1. writer.iter \in Int /\ pointer \in Int /\ pointer < writer.iter
      BY <1>2, ConstantAssumption DEF Iter
    <3>2. ~(writer.iter <= pointer)
      BY <3>1
    <3> QED BY <3>2 DEF SavedOnce
  <2>2. writer'.phase = "metadata"
    BY <1>4 DEF WriteShards, HistoryInvariant, RetentionTypes
  <2> QED BY <1>0, <1>1, <1>2, <1>3, <1>4, <2>1, <2>2 DEF SavedOnce, WriteShards
<1>5. CASE WriteMetadata
  <2>1. writer'.phase = "landed" /\ pointer' = writer.iter /\ landed' = landed \cup {writer.iter}
        /\ UNCHANGED intact
    BY <1>5 DEF WriteMetadata, HistoryInvariant, RetentionTypes
  <2>2. \A i \in landed' : i \in Iter /\ i <= pointer'
    BY <1>2, <2>1, ConstantAssumption DEF SavedOnce, Iter
  <2> QED BY <1>0, <1>1, <1>2, <1>3, <2>1, <2>2 DEF SavedOnce
<1> QED BY <1>4, <1>5 DEF Writer

LEMMA CallbackSavedOnce ==
  ASSUME HistoryInvariant, SavedOnce, Callback
  PROVE  SavedOnce' /\ UNCHANGED <<landed, intact>>
<1> USE DEF storeVars, SavedOnce
<1>1. CASE DispatchSuccess
  <2>1. Known' = Known
    BY <1>1, KnownUnchanged DEF DispatchSuccess
  <2>2. /\ writer' = NoSave /\ writer.phase = "landed"
        /\ success' = IF writer.iter \in triggered THEN [phase |-> "mark", iter |-> writer.iter]
                      ELSE NoSuccess
        /\ UNCHANGED <<pc, landed, intact, pointer, files>>
    BY <1>1 DEF DispatchSuccess
  <2>3. success'.phase # "none" => success'.iter = writer.iter
    BY <2>2 DEF NoSuccess
  <2> QED BY <2>1, <2>2, <2>3 DEF NoSave
<1>2. CASE MarkSaved
  <2>1. /\ Known' \subseteq Known \cup {success.iter}
        /\ \A i \in Iter : "saved" \in files'[i] => "saved" \in files[i] \/ i = success.iter
    BY <1>2, MarkSavedHistory
  <2>2. /\ success.phase = "mark" /\ UNCHANGED <<pc, writer, landed, intact, pointer>>
        /\ success'.phase # "none" => success'.iter = success.iter
    BY <1>2 DEF MarkSaved, NoSuccess, HistoryInvariant, RetentionTypes
  <2> QED BY <2>1, <2>2
<1>3. CASE PruneAfterSave
  <2>1. Known' \subseteq Known
    BY <1>3, PruneHistory
  <2> QED BY <1>3, <2>1 DEF PruneAfterSave, NoSuccess
<1> QED BY <1>1, <1>2, <1>3 DEF Callback

LEMMA StopSavedOnce ==
  ASSUME SavedOnce, Stop
  PROVE  SavedOnce' /\ UNCHANGED <<landed, intact>> /\ Doomed' \subseteq Doomed /\ Displacers'
<1>1. /\ pc' = "down" /\ success' = NoSuccess /\ tracked' = <<>>
      /\ writer' = NoSave /\ deleteQ' = <<>> /\ deferred' = <<>> /\ worker' = Idle
      /\ UNCHANGED <<files, pointer, landed, intact>>
  BY DEF Stop, storeVars
<1>2. Known' = {} /\ DOMAIN deleteQ' = {}
  BY <1>1 DEF Known, Displacing, Popped, InHand, Idle
<1>3. Doomed' \subseteq Doomed
  BY <1>1 DEF Doomed, InErasing, Idle
<1> QED BY <1>1, <1>2, <1>3 DEF SavedOnce, NoSave, NoSuccess, Displacers, Idle

(* A start takes up only what bears a marker. *)
LEMMA RestartSavedOnce ==
  ASSUME HistoryInvariant, DeleteInvariant, SavedOnce, Restart
  PROVE  SavedOnce' /\ UNCHANGED <<landed, intact, files>> /\ Doomed' \subseteq Doomed /\ Displacers'
<1>1. /\ pc = "down" /\ pc' = "train"
      /\ UNCHANGED <<triggered, success, writer, deferred, worker, files, intact, landed, pointer>>
  BY DEF Restart, storeVars
<1>2. worker.phase = "idle" /\ deferred = <<>>
  BY <1>1 DEF DeleteInvariant, DownIsIdle, Idle, HistoryInvariant, SavesAdvance
<1>3. PICK readable, all, old, excess : RecoveredState(readable, all, old, excess)
  BY RestartRecovers
<1>4. \A n \in DOMAIN deleteQ' :
           \/ deleteQ'[n].by = None /\ deleteQ'[n].iter \in Interrupted(readable)
           \/ \E k \in 1..excess : /\ k \in 1..Len(all) /\ Len(all) \in 1..Len(all)
                                   /\ deleteQ'[n].iter = all[k] /\ deleteQ'[n].by = all[Len(all)]
  BY <1>3, RecoveredQueue
<1>5. /\ Len(all) \in Nat /\ excess \in 0..Len(all)
      /\ \A k \in 1..Len(all) : all[k] \in Iter /\ all[k] \in landed
  BY <1>3, LenProperties, ElementOfSeq DEF RecoveredState, Recovered, SavedOnce
<1>6. /\ DOMAIN tracked' = 1..(Len(all) - excess)
      /\ \A k \in 1..(Len(all) - excess) : /\ excess + k \in (excess + 1)..Len(all)
                                           /\ tracked'[k] = all[excess + k]
  BY <1>3, WindowProperties DEF RecoveredState
<1>7. Known' \subseteq landed
  <2>1. \A k \in DOMAIN tracked' : excess + k \in 1..Len(all) /\ tracked'[k] = all[excess + k]
    BY <1>5, <1>6
  <2>2. \A k \in DOMAIN tracked' : tracked'[k] \in landed
    BY <2>1, <1>5
  <2>3. \A i \in Displacing' : i \in landed
    BY <1>1, <1>2, <1>4, <1>5 DEF Displacing, Popped, InHand
  <2> QED BY <2>2, <2>3 DEF Known
<1>8. SavedOnce'
  BY <1>1, <1>7 DEF SavedOnce
<1>9. Interrupted(readable) \subseteq {i \in Iter : "deleting" \in files[i]}
  BY <1>3 DEF RecoveredState, Interrupted
<1>10. \A k \in 1..Len(all) : all[k] # None
  BY <1>5, ConstantAssumption DEF Iter, None
<1>11. Doomed' \subseteq Doomed
  BY <1>1, <1>2, <1>4, <1>9, <1>10 DEF Doomed, InErasing
<1>12. Displacers'
  <2>1. \A k \in 1..excess : k < Len(all)
    BY <1>3, <1>5, ConstantAssumption DEF RecoveredState
  <2>2. \A m, n \in 1..Len(all) : m < n => all[m] < all[n]
    BY <1>3 DEF RecoveredState
  <2>3. \A n \in DOMAIN deleteQ' : Successor(deleteQ'[n].iter, deleteQ'[n].by)
    <3> SUFFICES ASSUME NEW n \in DOMAIN deleteQ', deleteQ'[n].by # None
                 PROVE  deleteQ'[n].by \in landed /\ deleteQ'[n].iter < deleteQ'[n].by
      BY DEF Successor
    <3>1. PICK k \in 1..excess : /\ k \in 1..Len(all) /\ Len(all) \in 1..Len(all)
                                 /\ deleteQ'[n].iter = all[k] /\ deleteQ'[n].by = all[Len(all)]
      BY <1>4
    <3> QED BY <3>1, <2>1, <2>2, <1>5
  <2> QED BY <2>3, <1>1, <1>2 DEF Displacers, Successor
<1> QED BY <1>1, <1>8, <1>11, <1>12

(* Main thread, writer and callback: nothing good is lost, nothing new is doomed. *)
LEMMA MainGood ==
  ASSUME MilestoneLast, HistoryInvariant, DeleteInvariant, SavedOnce, Displacers,
         Trainer \/ Writer \/ Callback
  PROVE  /\ SavedOnce' /\ Displacers' /\ Doomed' \subseteq Doomed
         /\ \A i \in Iter : Good(i) => Good(i)'
<1>1. /\ SavedOnce' /\ landed \subseteq landed'
      /\ \A i \in landed : i \in intact => i \in intact'
  <2>1. CASE Trainer
    BY <2>1, TrainerSavedOnce DEF Trainer, TrainStep, TriggerSave, EndTraining, StartSave, storeVars
  <2>2. CASE Writer
    BY <2>2, WriterSavedOnce
  <2>3. CASE Callback
    BY <2>3, CallbackSavedOnce
  <2> QED BY <2>1, <2>2, <2>3
<1>2. /\ \A i \in Iter : files[i] \subseteq files'[i]
      /\ UNCHANGED worker
  BY SavingAdds
<1>3. \A i \in Iter : Good(i) => Good(i)'
  BY <1>1, <1>2 DEF Good, Loadable
<1>4. \A i \in Iter : "deleting" \in files'[i] => "deleting" \in files[i]
  <2>1. CASE Trainer
    BY <2>1 DEF Trainer, TrainStep, TriggerSave, EndTraining, StartSave, storeVars
  <2>2. CASE Writer
    <3>1. PICK f \in Payload : files' = [files EXCEPT ![writer.iter] = @ \cup {f}]
      BY <2>2 DEF Writer, WriteShards, WriteMetadata, Payload
    <3>2. f # "deleting"
      BY DEF Payload
    <3> QED BY <3>1, <3>2 DEF HistoryInvariant, RetentionTypes, FilesType
  <2>3. CASE Callback
    <3>1. UNCHANGED files \/ files' = [files EXCEPT ![success.iter] = @ \cup {"saved"}]
      BY <2>3 DEF Callback, DispatchSuccess, MarkSaved, PruneAfterSave, storeVars
    <3>2. CASE UNCHANGED files
      BY <3>2
    <3>3. CASE files' = [files EXCEPT ![success.iter] = @ \cup {"saved"}]
      BY <3>3 DEF HistoryInvariant, RetentionTypes, FilesType
    <3> QED BY <3>1, <3>2, <3>3
  <2> QED BY <2>1, <2>2, <2>3
<1>5. \A n \in DOMAIN deleteQ' : \/ \E k \in DOMAIN deleteQ : deleteQ'[n] = deleteQ[k]
                                 \/ deleteQ'[n].by \in Known /\ deleteQ'[n].iter < deleteQ'[n].by
  <2>1. CASE PruneAfterSave
    BY <2>1, PruneHistory
  <2>2. CASE ~PruneAfterSave
    <3>1. UNCHANGED deleteQ
      BY <2>2 DEF Trainer, TrainStep, TriggerSave, EndTraining, StartSave, Writer, WriteShards,
         WriteMetadata, Callback, DispatchSuccess, MarkSaved
    <3> QED BY <3>1
  <2> QED BY <2>1, <2>2
<1>6. \A n \in DOMAIN deleteQ' :
        deleteQ'[n].by # None => deleteQ'[n].by \in landed' /\ deleteQ'[n].iter < deleteQ'[n].by
  <2> SUFFICES ASSUME NEW n \in DOMAIN deleteQ', deleteQ'[n].by # None
               PROVE  deleteQ'[n].by \in landed' /\ deleteQ'[n].iter < deleteQ'[n].by
    OBVIOUS
  <2>1. CASE \E k \in DOMAIN deleteQ : deleteQ'[n] = deleteQ[k]
    BY <2>1, <1>1 DEF Displacers, Successor
  <2>2. CASE deleteQ'[n].by \in Known /\ deleteQ'[n].iter < deleteQ'[n].by
    BY <2>2, <1>1 DEF SavedOnce
  <2> QED BY <1>5, <2>1, <2>2
<1>7. Displacers'
  BY <1>1, <1>2, <1>6 DEF Displacers, Successor
<1>8. \A n \in DOMAIN deleteQ' : deleteQ'[n].by = None =>
         \E k \in DOMAIN deleteQ : deleteQ[k].by = None /\ deleteQ'[n].iter = deleteQ[k].iter
  <2>1. Known \subseteq Iter
    BY KnownTypes DEF HistoryInvariant
  <2>2. None \notin Known
    BY <2>1 DEF Iter, None
  <2> QED BY <1>5, <2>2
<1>9. Doomed' \subseteq Doomed
  BY <1>2, <1>4, <1>8 DEF Doomed, InErasing
<1> QED BY <1>1, <1>3, <1>7, <1>9

(* The deletion thread erases only the doomed, and dooms only what it has   *)
(* verified to be surpassed.                                                *)
LEMMA DeleterGood ==
  ASSUME HistoryInvariant, DeleteInvariant, GoodInvariant, Deleter
  PROVE  /\ GoodInvariant'
         /\ \A i \in Iter : Good(i) /\ ~Good(i)' => \E j \in Iter : j > i /\ Good(j)'
<1>1. DeleterFrame
  BY DeleterFrames DEF HistoryInvariant
<1>2. /\ UNCHANGED <<pc, tracked, success, writer, landed, intact, pointer>>
      /\ Displacing' \subseteq Displacing
      /\ \A i \in Iter : "saved" \in files'[i] => "saved" \in files[i]
  BY <1>1 DEF DeleterFrame, FilesInHand, mainVars
<1>3. SavedOnce'
  BY <1>2 DEF GoodInvariant, SavedOnce, Known
<1>4. Displacers'
  <2>1. \A n \in DOMAIN deleteQ' : Successor(deleteQ'[n].iter, deleteQ'[n].by)
    BY <1>1 DEF DeleterFrame, GoodInvariant, Displacers
  <2>2. worker'.phase # "idle" => Successor(worker'.iter, worker'.by)
    BY <1>1 DEF DeleterFrame, GoodInvariant, Displacers, DeletionGoesOn, DeletionTaken
  <2> QED BY <1>2, <2>1, <2>2 DEF Displacers, Successor
<1>5. ASSUME NEW i \in Iter, Good(i), ~Good(i)'
      PROVE  i \in Doomed /\ i = worker.iter /\ worker.phase \in Erasing
  <2>1. ~(files[i] \subseteq files'[i])
    BY <1>2, <1>5 DEF Good, Loadable
  <2>2. worker.phase \in Erasing /\ i = worker.iter
    BY <1>1, <2>1 DEF DeleterFrame, FilesInHand
  <2> QED BY <2>2 DEF Doomed, InErasing, Erasing
<1>6. ASSUME NEW i \in Iter, Good(i), ~Good(i)'
      PROVE  \E j \in Iter : j > i /\ Good(j) /\ Good(j)'
  <2>1. PICK j \in Iter : j > i /\ Good(j)
    BY <1>5, <1>6 DEF GoodInvariant, DoomedSurpassed
  <2>2. j # i
    BY <2>1 DEF Iter
  <2>3. Good(j)'
    BY <1>5, <1>6, <2>1, <2>2
  <2> QED BY <2>1, <2>3
<1>7. \A i \in Doomed' : \/ i \in Doomed
                         \/ /\ i = worker.iter /\ Displaced /\ worker.phase = "verify"
                            /\ worker.by # None /\ UNCHANGED files
  <2> SUFFICES ASSUME NEW i \in Doomed', i \notin Doomed
               PROVE  /\ i = worker.iter /\ Displaced /\ worker.phase = "verify"
                      /\ worker.by # None /\ UNCHANGED files
    OBVIOUS
  <2>1. ~(i \in Iter /\ "deleting" \in files'[i])
    <3>1. \A k \in Iter : "deleting" \in files'[k] =>
            "deleting" \in files[k] \/ (worker.phase = "mark" /\ k = worker.iter)
      BY <1>1 DEF DeleterFrame, FilesInHand
    <3> QED BY <3>1 DEF Doomed, InErasing, Erasing
  <2>2. ~ \E n \in DOMAIN deleteQ' : deleteQ'[n].by = None /\ i = deleteQ'[n].iter
    BY <1>1 DEF DeleterFrame, Doomed
  <2>3. i \in InErasing'
    BY <2>1, <2>2 DEF Doomed
  <2>4. /\ worker'.phase # "idle" /\ i = worker'.iter
        /\ worker'.by = None \/ worker'.phase \in Erasing
    BY <2>3 DEF InErasing
  <2>5. ~DeletionTaken
    BY <2>4 DEF DeletionTaken, Doomed, Erasing
  <2>6. DeletionGoesOn
    BY <1>1, <2>5 DEF DeleterFrame
  <2>7. /\ worker.phase # "idle" /\ i = worker.iter /\ worker'.by = worker.by
        /\ worker.by # None /\ worker.phase \notin Erasing
    BY <2>4, <2>6 DEF DeletionGoesOn, Doomed, InErasing
  <2> QED BY <2>4, <2>6, <2>7 DEF DeletionGoesOn
<1>8. DoomedSurpassed'
  <2> SUFFICES ASSUME NEW i \in Doomed' PROVE \E j \in Iter : j > i /\ Good(j)'
    BY DEF DoomedSurpassed
  <2>i. i \in Int
    <3>1. \A k \in DOMAIN deleteQ' : deleteQ'[k] \in Queued
      <4>1. deleteQ' \in Seq(Queued)
        BY <1>1 DEF DeleterFrame
      <4> QED BY <4>1, LenProperties, ElementOfSeq
    <3>2. \A k \in DOMAIN deleteQ' : deleteQ'[k].iter \in Iter
      BY <3>1 DEF Queued
    <3>3. worker'.phase # "idle" => worker'.iter \in Iter
      BY <1>1 DEF DeleterFrame
    <3>4. i \in Iter
      BY <3>2, <3>3 DEF Doomed, InErasing
    <3> QED BY <3>4 DEF Iter
  <2>1. CASE i \in Doomed
    <3>1. PICK j \in Iter : j > i /\ Good(j)
      BY <2>1 DEF GoodInvariant, DoomedSurpassed
    <3>2. CASE ~Good(j)'
      <4>1. PICK m \in Iter : m > j /\ Good(m)'
        BY <1>6, <3>1, <3>2
      <4>2. m > i
        BY <2>i, <3>1, <4>1 DEF Iter
      <4> QED BY <4>1, <4>2
    <3> QED BY <3>1, <3>2
  <2>2. CASE /\ i = worker.iter /\ Displaced /\ worker.phase = "verify"
             /\ worker.by # None /\ UNCHANGED files
    <3>1. worker.by \in landed /\ i < worker.by
      BY <2>2 DEF GoodInvariant, Displacers, Successor
    <3>2. worker.by \in Iter
      BY <3>1 DEF GoodInvariant, SavedOnce
    <3>3. Good(worker.by)
      BY <2>2, <3>1, <3>2 DEF Displaced, VerifyComplete, Good, Loadable
    <3>4. PICK j \in Iter : j > i /\ Good(j)
      BY <3>1, <3>2, <3>3, <2>i DEF Iter
    <3>5. Good(j)'
      BY <3>4, <2>2, <1>2 DEF Good, Loadable
    <3> QED BY <3>4, <3>5
  <2> QED BY <1>7, <2>1, <2>2
<1> QED BY <1>3, <1>4, <1>6, <1>8 DEF GoodInvariant

(* GoodInvariant is inductive, and no step loses the newest good checkpoint. *)
LEMMA NextGood ==
  ASSUME MilestoneLast, HistoryInvariant, DeleteInvariant, GoodInvariant, [Next]_vars
  PROVE  /\ GoodInvariant'
         /\ \A i \in Iter : Good(i) /\ ~Good(i)' => \E j \in Iter : j > i /\ Good(j)'
<1>1. CASE Trainer \/ Writer \/ Callback
  <2>1. /\ SavedOnce' /\ Displacers' /\ Doomed' \subseteq Doomed
        /\ \A i \in Iter : Good(i) => Good(i)'
    BY <1>1, MainGood DEF GoodInvariant
  <2>2. DoomedSurpassed'
    BY <2>1 DEF GoodInvariant, DoomedSurpassed
  <2> QED BY <2>1, <2>2 DEF GoodInvariant
<1>2. CASE Stop \/ Restart
  <2>1. /\ SavedOnce' /\ UNCHANGED <<landed, intact, files>> /\ Doomed' \subseteq Doomed
        /\ Displacers'
    BY <1>2, StopSavedOnce, RestartSavedOnce DEF GoodInvariant, Stop, storeVars
  <2>2. \A i \in Iter : Good(i) <=> Good(i)'
    BY <2>1 DEF Good, Loadable
  <2>3. DoomedSurpassed'
    BY <2>1, <2>2 DEF GoodInvariant, DoomedSurpassed
  <2> QED BY <2>1, <2>2, <2>3 DEF GoodInvariant
<1>3. CASE UNCHANGED vars
  <2>1. Known' = Known
    BY <1>3, KnownUnchanged DEF vars, mainVars
  <2>2. Doomed' = Doomed
    BY <1>3 DEF vars, mainVars, storeVars, Doomed, InErasing
  <2>3. \A i \in Iter : Good(i) <=> Good(i)'
    BY <1>3 DEF vars, storeVars, Good, Loadable
  <2>4. DoomedSurpassed'
    BY <2>2, <2>3 DEF GoodInvariant, DoomedSurpassed
  <2> QED BY <1>3, <2>1, <2>3, <2>4 DEF vars, mainVars, storeVars, GoodInvariant, SavedOnce, Displacers,
         Successor
<1>4. CASE Deleter
  BY <1>4, DeleterGood
<1> QED BY <1>1, <1>2, <1>3, <1>4 DEF Next, Lifecycle, Kill, Exit, Finished

(* No deletion takes the newest good checkpoint, whatever the store cuts short, *)
(* whichever operation fails and whenever the job is killed.  The assumption    *)
(* rules out one history that loses it: when the last iteration is not a        *)
(* milestone, the save at the end of training writes the iteration of a         *)
(* wall-clock checkpoint again in place, while the deletion that checkpoint had *)
(* justified removes an older one.                                              *)
THEOREM NewestGoodKeptCorrect ==
  ASSUME MilestoneLast
  PROVE  Spec => NewestGoodKept
<1>1. DeleteInvariant /\ [Next]_vars => DeleteInvariant'
  BY NextDelete
<1>2. HistoryInvariant /\ DeleteInvariant /\ GoodInvariant /\ [Next]_vars => GoodInvariant'
  BY NextGood
<1>3. HistoryInvariant /\ DeleteInvariant /\ GoodInvariant /\ [Next]_vars =>
        [\A i \in Iter : (Good(i) /\ ~Good(i)' /\ writer'.iter # i) => \E j \in Iter : j > i /\ Good(j)']_vars
  BY NextGood
<1> QED BY InitDelete, InitGood, HistoryAlways, <1>1, <1>2, <1>3, PTL DEF Spec, NewestGoodKept

-----------------------------------------------------------------------------
(* The window. *)

(* What is queued, in hand or deferred, and what is in the history. *)
Old == {deleteQ[k].iter : k \in DOMAIN deleteQ} \cup {deferred[k] : k \in DOMAIN deferred}
       \cup (IF worker.phase # "idle" THEN {worker.iter} ELSE {})
History == {tracked[k] : k \in DOMAIN tracked}

(* What is about to go is older than the checkpoint to resume from. *)
Overtaken ==
  /\ \A i \in Old : i < pointer
  /\ \A i \in Iter : "deleting" \in files[i] => i < pointer

(* As long as nothing has failed, no wall-clock checkpoint is forgotten. *)
NoneForgotten ==
  pc # "down" /\ failures = 0 =>
    \A i \in Iter : Marked(i) /\ ~IsMilestone(i) => i \in History \cup Old

(* The history exceeds the window only between its two updates. *)
HistoryBounded ==
  /\ success.phase # "prune" => Len(tracked) <= KeepLast
  /\ success.phase = "prune" => Len(tracked) <= KeepLast + 1

(* The inductive invariant behind WindowKept. *)
WindowInvariant == failures \in Nat /\ Overtaken /\ NoneForgotten /\ HistoryBounded

(* WindowInvariant, step by step. *)
LEMMA InitWindow == Init => WindowInvariant
<1> SUFFICES ASSUME Init PROVE WindowInvariant
  OBVIOUS
<1>1. Old = {} /\ Len(tracked) = 0
  BY EmptySeq DEF Init, Old, Idle
<1> QED BY <1>1, ConstantAssumption
        DEF Init, WindowInvariant, Overtaken, NoneForgotten, HistoryBounded, NoSuccess, Marked

LEMMA OldUnchanged ==
  ASSUME UNCHANGED <<tracked, deleteQ, deferred, worker>>
  PROVE  Old' = Old /\ History' = History
BY DEF Old, History

LEMMA OldTypes ==
  ASSUME RetentionTypes
  PROVE  Old \subseteq Iter /\ pointer \in Int
<1>1. \A k \in DOMAIN deleteQ : deleteQ[k] \in Queued
  BY ElementOfSeq, LenProperties DEF RetentionTypes
<1>2. \A k \in DOMAIN deferred : deferred[k] \in Iter
  BY ElementOfSeq, LenProperties DEF RetentionTypes
<1>3. pointer \in Int
  BY ConstantAssumption DEF RetentionTypes
<1> QED BY <1>1, <1>2, <1>3 DEF Old, Queued, RetentionTypes

LEMMA TrainerWindow ==
  ASSUME HistoryInvariant, WindowInvariant, Trainer
  PROVE  WindowInvariant'
<1>1. /\ UNCHANGED <<tracked, deleteQ, deferred, worker, success, files, pointer, run, failures>>
      /\ pc # "down"
  BY DEF Trainer, TrainStep, TriggerSave, EndTraining, StartSave, storeVars, Training
<1>2. Old' = Old /\ History' = History
  BY <1>1, OldUnchanged
<1> QED BY <1>1, <1>2 DEF WindowInvariant, Overtaken, NoneForgotten, HistoryBounded, IsMilestone, SaveIter, Marked

LEMMA WriterWindow ==
  ASSUME HistoryInvariant, WindowInvariant, Writer
  PROVE  WindowInvariant'
<1>1. /\ UNCHANGED <<tracked, deleteQ, deferred, worker, success, pc, run, failures>>
      /\ writer.phase # "none" /\ pointer' \in {pointer, writer.iter}
  BY DEF Writer, WriteShards, WriteMetadata, mainVars
<1>2. Old' = Old /\ History' = History
  BY <1>1, OldUnchanged
<1>3. pointer <= writer.iter /\ writer.iter \in Iter /\ pc # "down"
  BY <1>1 DEF HistoryInvariant, SavesAdvance
<1>4. pointer \in Int /\ pointer' \in Int /\ pointer <= pointer' /\ Old \subseteq Int
  BY <1>1, <1>3, OldTypes DEF Iter, HistoryInvariant
<1>5. \A i \in Iter : /\ "saved" \in files'[i] => "saved" \in files[i]
                      /\ "deleting" \in files'[i] => "deleting" \in files[i]
  <2>1. PICK f \in Payload : files' = [files EXCEPT ![writer.iter] = @ \cup {f}]
    BY DEF Writer, WriteShards, WriteMetadata, Payload
  <2>2. f # "saved" /\ f # "deleting"
    BY DEF Payload
  <2> QED BY <2>1, <2>2, <1>3 DEF HistoryInvariant, RetentionTypes, FilesType
<1>6. \A i \in Int : i < pointer => i < pointer'
  BY <1>4
<1>7. Iter \subseteq Int
  BY DEF Iter
<1>8. Overtaken'
  BY <1>2, <1>4, <1>5, <1>6, <1>7 DEF WindowInvariant, Overtaken
<1>9. NoneForgotten'
  BY <1>1, <1>2, <1>3, <1>5 DEF WindowInvariant, NoneForgotten, IsMilestone, SaveIter, Marked
<1> QED BY <1>1, <1>8, <1>9 DEF WindowInvariant, HistoryBounded

LEMMA MarkSavedWindow ==
  ASSUME HistoryInvariant, WindowInvariant, MarkSaved
  PROVE  WindowInvariant'
<1>1. /\ UNCHANGED <<deleteQ, deferred, worker, pc, pointer, run>>
      /\ success.phase = "mark" /\ Old' = Old
  BY DEF MarkSaved, Old
<1>2. success.iter \in Iter
  BY <1>1 DEF HistoryInvariant, SavesAdvance
<1>3. CASE /\ Fails /\ success' = NoSuccess /\ UNCHANGED <<files, tracked>>
  BY <1>1, <1>3 DEF WindowInvariant, Overtaken, NoneForgotten, HistoryBounded, Fails, NoSuccess, Marked
<1>4. CASE /\ files' = [files EXCEPT ![success.iter] = @ \cup {"saved"}]
           /\ tracked' = Append(tracked, success.iter)
           /\ success' = [success EXCEPT !.phase = "prune"]
           /\ UNCHANGED failures
  <2>1. /\ Len(tracked') = Len(tracked) + 1 /\ Len(tracked) \in Nat
        /\ \A k \in 1..Len(tracked) : tracked'[k] = tracked[k]
        /\ tracked'[Len(tracked) + 1] = success.iter
        /\ DOMAIN tracked = 1..Len(tracked)
        /\ tracked' \in Seq(Iter)
    BY <1>4, <1>2, AppendProperties, LenProperties DEF HistoryInvariant, RetentionTypes
  <2>2. DOMAIN tracked' = 1..(Len(tracked) + 1)
    BY <2>1, LenProperties
  <2>3. History \subseteq History' /\ success.iter \in History'
    <3>1. \A k \in DOMAIN tracked : k \in DOMAIN tracked' /\ tracked'[k] = tracked[k]
      BY <2>1, <2>2
    <3>2. Len(tracked) + 1 \in DOMAIN tracked'
      BY <2>1, <2>2
    <3>3. success.iter \in History'
      BY <3>2, <2>1 DEF History
    <3>4. History \subseteq History'
      BY <3>1 DEF History
    <3> QED BY <3>3, <3>4
  <2>4. \A i \in Iter : /\ "saved" \in files'[i] => "saved" \in files[i] \/ i = success.iter
                        /\ "deleting" \in files'[i] => "deleting" \in files[i]
    BY <1>4, <1>2 DEF HistoryInvariant, RetentionTypes, FilesType
  <2>5. success'.phase = "prune"
    BY <1>4 DEF HistoryInvariant, RetentionTypes
  <2>6. HistoryBounded'
    BY <1>1, <2>1, <2>5, ConstantAssumption DEF WindowInvariant, HistoryBounded
  <2> QED BY <1>1, <1>4, <2>3, <2>4, <2>6
          DEF WindowInvariant, Overtaken, NoneForgotten, IsMilestone, SaveIter, Marked
<1> QED BY <1>3, <1>4 DEF MarkSaved

(* Pruning moves what leaves the history into the queue. *)
LEMMA PruneMoves ==
  ASSUME HistoryInvariant, PruneAfterSave, KeepLast > 0
  PROVE  /\ Len(tracked') <= KeepLast
         /\ History \cup Old \subseteq History' \cup Old'
<1> DEFINE all == Readmitted(tracked)
           N == Len(tracked)
           D == Len(deferred)
           excess == IF Len(all) > KeepLast THEN Len(all) - KeepLast ELSE 0
           popped == DisplacedBy(all, excess)
<1>1. /\ tracked' = SubSeq(all, excess + 1, Len(all))
      /\ deleteQ' = deleteQ \o popped
      /\ deferred' = <<>> /\ UNCHANGED worker
  <2>1. ~(KeepLast <= 0)
    BY ConstantAssumption
  <2>2. Prune(tracked) /\ UNCHANGED worker
    BY DEF PruneAfterSave
  <2> QED BY <2>1, <2>2 DEF Prune, DisplacedBy
<1>2. /\ tracked \in Seq(Int) /\ deferred \in Seq(Int) /\ Iter \subseteq Int
      /\ tracked \in Seq(Iter) /\ deferred \in Seq(Iter) /\ deleteQ \in Seq(Queued)
  <2>1. Iter \subseteq Int
    BY DEF Iter
  <2> QED BY <2>1, SeqMonotonic DEF HistoryInvariant, RetentionTypes
<1>3. /\ N \in Nat /\ D \in Nat /\ DOMAIN tracked = 1..N /\ DOMAIN deferred = 1..D
      /\ DOMAIN deleteQ = 1..Len(deleteQ) /\ Len(deleteQ) \in Nat
      /\ \A k \in 1..N : tracked[k] \in Iter
      /\ \A k \in 1..D : deferred[k] \in Iter
  BY <1>2, LenProperties, ElementOfSeq
<1> DEFINE s == tracked \o deferred
<1>4. /\ s \in Seq(Iter) /\ s \in Seq(Int) /\ Len(s) = N + D
      /\ \A i \in 1..(N + D) : s[i] = IF i <= N THEN tracked[i] ELSE deferred[i - N]
  <2>1. /\ s \in Seq(Iter) /\ Len(s) = N + D
        /\ \A i \in 1..(N + D) : s[i] = IF i <= N THEN tracked[i] ELSE deferred[i - N]
    BY <1>2, ConcatProperties
  <2> HIDE DEF s
  <2>2. s \in Seq(Int)
    BY <1>2, <2>1, SeqMonotonic
  <2> QED BY <2>1, <2>2
<1>5. all = Sorted(s)
  BY DEF Readmitted
<1> HIDE DEF s, all, N, D
<1>6. /\ Len(all) = N + D
      /\ \A m \in 1..(N + D) : \E n \in 1..(N + D) : all[n] = s[m]
      /\ \A n \in 1..(N + D) : \E m \in 1..(N + D) : all[n] = s[m]
      /\ all \in Seq(Int)
  <2>1. Len(s) = N + D
    BY <1>4
  <2>2. /\ Len(Sorted(s)) = Len(s) /\ Sorted(s) \in Seq(Int)
        /\ \A m \in 1..Len(s) : \E n \in 1..Len(s) : Sorted(s)[n] = s[m]
    BY <1>4, SortedProperties, SortedContains
  <2>3. PICK p \in [1..Len(s) -> 1..Len(s)] : \A m \in 1..Len(s) : Sorted(s)[m] = s[p[m]]
    BY <1>4, SortedProperties
  <2>4. \A n \in 1..Len(s) : \E m \in 1..Len(s) : Sorted(s)[n] = s[m]
    BY <2>3
  <2> QED BY <2>1, <2>2, <2>4, <1>5
<1>7. /\ excess \in 0..Len(all) /\ Len(all) \in Nat /\ Len(all) - excess <= KeepLast
  BY <1>3, <1>6, ConstantAssumption
<1> HIDE DEF excess
<1>8. all \in Seq(Iter)
  <2>1. \A n \in 1..(N + D) : s[n] \in Iter
    BY <1>4, ElementOfSeq
  <2>2. \A n \in 1..(N + D) : all[n] \in Iter
    BY <2>1, <1>6
  <2>3. DOMAIN all = 1..(N + D) /\ N + D \in Nat
    BY <1>3, <1>6, LenProperties
  <2>4. all \in [1..(N + D) -> Iter]
    BY <2>2, <2>3, <1>6
  <2> QED BY <2>3, <2>4
<1>9. /\ Len(tracked') = Len(all) - excess
      /\ DOMAIN tracked' = 1..(Len(all) - excess)
      /\ \A k \in 1..(Len(all) - excess) : /\ excess + k \in (excess + 1)..Len(all)
                                           /\ tracked'[k] = all[excess + k]
  BY <1>1, <1>7, <1>8, WindowProperties
<1>10. /\ popped \in Seq(Queued) /\ Len(popped) = excess
       /\ \A k \in 1..excess : popped[k].iter = all[k]
  BY <1>7, <1>8, DisplacedProperties
<1> HIDE DEF popped
<1>11. /\ deleteQ' \in Seq(Queued) /\ Len(deleteQ') = Len(deleteQ) + excess
       /\ \A i \in 1..(Len(deleteQ) + excess) : deleteQ'[i] =
             IF i <= Len(deleteQ) THEN deleteQ[i] ELSE popped[i - Len(deleteQ)]
  <2>1. /\ deleteQ \o popped \in Seq(Queued) /\ Len(deleteQ \o popped) = Len(deleteQ) + Len(popped)
        /\ \A i \in 1..(Len(deleteQ) + Len(popped)) : (deleteQ \o popped)[i] =
             IF i <= Len(deleteQ) THEN deleteQ[i] ELSE popped[i - Len(deleteQ)]
    BY <1>2, <1>10, ConcatProperties
  <2> QED BY <2>1, <1>1, <1>10
<1>12. DOMAIN deleteQ' = 1..(Len(deleteQ) + excess)
  BY <1>11, LenProperties
<1>13. ASSUME NEW n \in 1..(N + D) PROVE all[n] \in History' \cup Old'
  <2>1. CASE n <= excess
    <3>1. /\ Len(deleteQ) + n \in DOMAIN deleteQ' /\ n \in 1..excess
          /\ Len(deleteQ) + n \in 1..(Len(deleteQ) + excess)
          /\ ~(Len(deleteQ) + n <= Len(deleteQ)) /\ (Len(deleteQ) + n) - Len(deleteQ) = n
      BY <2>1, <1>3, <1>7, <1>12
    <3>2. deleteQ'[Len(deleteQ) + n].iter = all[n]
      BY <3>1, <1>10, <1>11
    <3> QED BY <3>1, <3>2 DEF Old
  <2>2. CASE ~(n <= excess)
    <3>1. n - excess \in 1..(Len(all) - excess) /\ excess + (n - excess) = n
      BY <2>2, <1>3, <1>6, <1>7
    <3>2. n - excess \in DOMAIN tracked' /\ tracked'[n - excess] = all[n]
      BY <3>1, <1>9
    <3> QED BY <3>2 DEF History
  <2> QED BY <2>1, <2>2
<1>14. \A m \in 1..(N + D) : s[m] \in History' \cup Old'
  BY <1>6, <1>13
<1>15. History \subseteq History' \cup Old'
  <2> SUFFICES ASSUME NEW k \in 1..N PROVE tracked[k] \in History' \cup Old'
    BY <1>3 DEF History
  <2>1. k \in 1..(N + D) /\ k <= N
    BY <1>3
  <2>2. s[k] = tracked[k]
    BY <2>1, <1>4
  <2> QED BY <2>1, <2>2, <1>14
<1>16. Old \subseteq History' \cup Old'
  <2>1. ASSUME NEW k \in DOMAIN deleteQ PROVE deleteQ[k].iter \in Old'
    <3>1. k \in 1..(Len(deleteQ) + excess) /\ k <= Len(deleteQ)
      BY <1>3, <1>7
    <3>2. deleteQ'[k] = deleteQ[k]
      BY <3>1, <1>11
    <3> QED BY <3>1, <3>2, <1>12 DEF Old
  <2>2. ASSUME NEW k \in DOMAIN deferred PROVE deferred[k] \in History' \cup Old'
    <3>1. N + k \in 1..(N + D) /\ ~(N + k <= N) /\ (N + k) - N = k
      BY <1>3
    <3>2. s[N + k] = deferred[k]
      BY <3>1, <1>4
    <3> QED BY <3>1, <3>2, <1>14
  <2>3. worker.phase # "idle" => worker.iter \in Old'
    BY <1>1 DEF Old
  <2> QED BY <2>1, <2>2, <2>3 DEF Old
<1> QED BY <1>7, <1>9, <1>15, <1>16

(* So pruning forgets nothing. *)
LEMMA PruneWindow ==
  ASSUME KeepLast > 0, HistoryInvariant, WindowInvariant, PruneAfterSave
  PROVE  WindowInvariant'
<1>1. /\ UNCHANGED <<worker, pc, files, pointer, run, failures>> /\ success' = NoSuccess
      /\ deferred' = <<>> /\ pc # "down"
  <2>1. ~(KeepLast <= 0)
    BY ConstantAssumption
  <2>2. Prune(tracked)
    BY DEF PruneAfterSave
  <2>3. deferred' = <<>>
    BY <2>1, <2>2 DEF Prune
  <2> QED BY <2>3 DEF PruneAfterSave, storeVars, HistoryInvariant, SavesAdvance
<1>2. /\ Len(tracked') <= KeepLast
      /\ History \cup Old \subseteq History' \cup Old'
  BY PruneMoves
<1>3. \A n \in DOMAIN deleteQ' : \/ \E k \in DOMAIN deleteQ : deleteQ'[n] = deleteQ[k]
                                 \/ deleteQ'[n].by \in Known /\ deleteQ'[n].iter < deleteQ'[n].by
  BY PruneHistory
<1>4. \A i \in Known : i <= pointer /\ i \in Iter
  BY KnownTypes DEF HistoryInvariant, FreshSave
<1>5. \A n \in DOMAIN deleteQ' : deleteQ'[n].iter < pointer
  <2> TAKE n \in DOMAIN deleteQ'
  <2>1. CASE \E k \in DOMAIN deleteQ : deleteQ'[n] = deleteQ[k]
    BY <2>1 DEF WindowInvariant, Overtaken, Old
  <2>2. CASE deleteQ'[n].by \in Known /\ deleteQ'[n].iter < deleteQ'[n].by
    <3>1. deleteQ'[n].iter \in Int
      <4>1. deleteQ' \in Seq(Queued)
        BY PruneHistory DEF HistoryInvariant, RetentionTypes
      <4>2. deleteQ'[n] \in Queued
        BY <4>1, LenProperties, ElementOfSeq
      <4> QED BY <4>2 DEF Queued, Iter
    <3>2. deleteQ'[n].by \in Int /\ deleteQ'[n].by <= pointer /\ pointer \in Int
      BY <2>2, <1>4, OldTypes DEF Iter, HistoryInvariant
    <3> QED BY <2>2, <3>1, <3>2
  <2> QED BY <1>3, <2>1, <2>2
<1>6. Overtaken'
  BY <1>1, <1>5 DEF WindowInvariant, Overtaken, Old
<1> QED BY <1>1, <1>2, <1>6
        DEF WindowInvariant, NoneForgotten, HistoryBounded, NoSuccess, IsMilestone, SaveIter, Marked

LEMMA DispatchWindow ==
  ASSUME WindowInvariant, DispatchSuccess
  PROVE  WindowInvariant'
<1>1. /\ UNCHANGED <<tracked, deleteQ, deferred, worker, pc, files, pointer, run, failures>>
      /\ success.phase = "none" /\ success'.phase # "prune"
  BY DEF DispatchSuccess, storeVars, NoSuccess
<1>2. Old' = Old /\ History' = History
  BY <1>1, OldUnchanged
<1> QED BY <1>1, <1>2 DEF WindowInvariant, Overtaken, NoneForgotten, HistoryBounded, IsMilestone, SaveIter, Marked

(* The deletion thread lets go of a checkpoint only when it is gone, is a   *)
(* milestone, or a storage operation has failed.                            *)
LetsGo == Old' \cup {i \in Iter : i = worker.iter /\ (~Marked(i)' \/ IsMilestone(i))}

(* LetsGo covers all that was in its hands. *)
LEMMA DeleterLetsGo ==
  ASSUME HistoryInvariant, DeleteInvariant, WindowInvariant, Deleter, failures' = failures
  PROVE  Old \subseteq LetsGo
<1>w. /\ worker \in [phase : Phases, iter : 0..MaxIter, by : 0..MaxIter, todo : SUBSET File]
      /\ worker.phase # "idle" => worker.iter \in Iter
      /\ deleteQ \in Seq(Queued) /\ deferred \in Seq(Iter)
      /\ files \in [Iter -> SUBSET File]
      /\ failures \in Nat
  BY DEF HistoryInvariant, RetentionTypes, FilesType, WindowInvariant
<1>f. ~Fails
  BY <1>w DEF Fails
<1> USE DEF AllButWorker
<1>1. ASSUME UNCHANGED <<deleteQ, deferred>>,
             worker.phase # "idle" => /\ worker.iter \in LetsGo
      PROVE  Old \subseteq LetsGo
  BY <1>1 DEF Old, LetsGo
<1>2. ASSUME worker.phase # "idle", worker'.phase # "idle", worker'.iter = worker.iter
      PROVE  worker.iter \in LetsGo
  BY <1>2 DEF Old, LetsGo
<1>3. CASE Take
  <2>1. /\ Head(deleteQ) = deleteQ[1] /\ deleteQ # <<>>
        /\ Tail(deleteQ) \in Seq(Queued) /\ Len(Tail(deleteQ)) = Len(deleteQ) - 1
        /\ \A i \in 1..Len(Tail(deleteQ)) : Tail(deleteQ)[i] = deleteQ[i + 1]
    BY <1>3, <1>w, HeadTailProperties DEF Take
  <2>2. /\ DOMAIN deleteQ = 1..Len(deleteQ) /\ Len(deleteQ) \in Nat /\ Len(deleteQ) > 0
        /\ DOMAIN Tail(deleteQ) = 1..Len(Tail(deleteQ))
    BY <1>w, <2>1, LenProperties, EmptySeq
  <2>3. /\ worker'.phase = "check" /\ worker'.iter = deleteQ[1].iter
        /\ deleteQ' = Tail(deleteQ) /\ UNCHANGED <<deferred, files>> /\ worker.phase = "idle"
    BY <1>3, <2>1 DEF Take, storeVars
  <2>4. ASSUME NEW k \in DOMAIN deleteQ PROVE deleteQ[k].iter \in Old'
    <3>1. CASE k = 1
      BY <3>1, <2>3 DEF Old
    <3>2. CASE k # 1
      <4>1. k - 1 \in 1..Len(Tail(deleteQ)) /\ (k - 1) + 1 = k
        BY <3>2, <2>1, <2>2
      <4>2. k - 1 \in DOMAIN deleteQ' /\ deleteQ'[k - 1] = deleteQ[k]
        BY <4>1, <2>1, <2>2, <2>3
      <4> QED BY <4>2 DEF Old
    <3> QED BY <3>1, <3>2
  <2> QED BY <2>3, <2>4 DEF Old, LetsGo
<1>4. CASE GiveUp
  BY <1>4, <1>f DEF GiveUp
<1>5. CASE CheckProtected
  <2>1. worker.iter < pointer /\ worker.iter \in Iter
    BY <1>5, <1>w DEF CheckProtected, WindowInvariant, Overtaken, Old
  <2>2. pointer # worker.iter
    BY <2>1 DEF Iter
  <2>3. CASE IsMilestone(worker.iter)
    BY <2>1, <2>3, <1>1, <1>5 DEF CheckProtected, LetsGo
  <2>4. CASE ~IsMilestone(worker.iter)
    <3>1. /\ worker' = [worker EXCEPT !.phase = "markers"] /\ worker.phase = "check"
          /\ UNCHANGED <<deleteQ, deferred>>
      BY <2>2, <2>4, <1>5 DEF CheckProtected, Protected
    <3>2. worker'.phase = "markers" /\ worker'.iter = worker.iter
      BY <3>1, <1>w
    <3> QED BY <3>1, <3>2, <1>1, <1>2
  <2> QED BY <2>3, <2>4
<1>6. CASE CheckMarkers
  <2>1. /\ worker.iter \in Iter /\ UNCHANGED <<deleteQ, deferred, files>> /\ worker.phase = "markers"
    BY <1>6, <1>w DEF CheckMarkers
  <2>2. CASE files[worker.iter] \cap {"saved", "deleting"} # {}
    <3>1. worker'.phase = "verify" /\ worker'.iter = worker.iter
      BY <1>6, <2>2, <1>w DEF CheckMarkers
    <3> QED BY <2>1, <3>1, <1>1, <1>2
  <2>3. CASE ~(files[worker.iter] \cap {"saved", "deleting"} # {})
    <3>1. \A i \in Iter : i = worker.iter => ~Marked(i)'
      BY <2>1, <2>3 DEF Marked
    <3> QED BY <2>1, <3>1, <1>1 DEF LetsGo
  <2> QED BY <2>2, <2>3
<1>7. CASE Defer
  <2>1. /\ worker.phase = "verify" /\ worker.iter \in Iter
        /\ deferred' = Append(deferred, worker.iter) /\ UNCHANGED <<deleteQ, files>>
    BY <1>7, <1>w DEF Defer
  <2>2. /\ Len(deferred') = Len(deferred) + 1
        /\ \A k \in 1..Len(deferred) : deferred'[k] = deferred[k]
        /\ deferred'[Len(deferred) + 1] = worker.iter /\ Len(deferred) \in Nat
        /\ DOMAIN deferred = 1..Len(deferred) /\ deferred' \in Seq(Iter)
    BY <1>w, <2>1, AppendProperties, LenProperties
  <2>3. DOMAIN deferred' = 1..(Len(deferred) + 1)
    BY <2>2, LenProperties
  <2>4. \A k \in DOMAIN deferred : k \in DOMAIN deferred' /\ deferred'[k] = deferred[k]
    BY <2>2, <2>3
  <2>5. Len(deferred) + 1 \in DOMAIN deferred'
    BY <2>2, <2>3
  <2>6. worker.iter \in Old'
    BY <2>2, <2>5 DEF Old
  <2> QED BY <2>1, <2>4, <2>6 DEF Old, LetsGo
<1>8. CASE RemoveHusk
  <2>1. /\ worker.phase = "husk" /\ worker.iter \in Iter /\ UNCHANGED <<deleteQ, deferred>>
        /\ files' = [files EXCEPT ![worker.iter] = {}]
    BY <1>8, <1>f, <1>w DEF RemoveHusk
  <2>2. \A i \in Iter : i = worker.iter => ~Marked(i)'
    BY <2>1, <1>w DEF Marked
  <2> QED BY <2>1, <2>2, <1>1 DEF LetsGo
<1>9. CASE Verify \/ MarkDeleting \/ List \/ ObjectsDone \/ SweepDone \/ Unmark
  <2>1. /\ worker.phase # "idle" /\ worker'.phase # "idle" /\ worker'.iter = worker.iter
        /\ UNCHANGED <<deleteQ, deferred>>
    BY <1>9, <1>w DEF Verify, MarkDeleting, List, ObjectsDone, SweepDone, Unmark, Go
  <2> QED BY <2>1, <1>1, <1>2
<1>10. ASSUME NEW f \in File, DeleteObject(f) \/ SweepObject(f) PROVE Old \subseteq LetsGo
  <2>1. /\ worker.phase # "idle" /\ worker'.phase # "idle" /\ worker'.iter = worker.iter
        /\ UNCHANGED <<deleteQ, deferred>>
    BY <1>10, <1>w DEF DeleteObject, SweepObject, Go
  <2> QED BY <2>1, <1>1, <1>2
<1> QED BY <1>3, <1>4, <1>5, <1>6, <1>7, <1>8, <1>9, <1>10 DEF Deleter

(* It takes nothing up that was not there. *)
LEMMA DeleterTakes ==
  ASSUME HistoryInvariant, DeleteInvariant, Deleter
  PROVE  Old' \subseteq Old
<1>1. DeleterFrame
  BY DeleterFrames DEF HistoryInvariant
<1>2. \A n \in DOMAIN deleteQ' : \E k \in DOMAIN deleteQ : deleteQ'[n] = deleteQ[k]
  BY <1>1 DEF DeleterFrame
<1>3. worker'.phase # "idle" => \/ worker.phase # "idle" /\ worker'.iter = worker.iter
                                \/ \E k \in DOMAIN deleteQ : worker'.iter = deleteQ[k].iter
  BY <1>1 DEF DeleterFrame, DeletionGoesOn, DeletionTaken
<1>4. \A k \in DOMAIN deferred' : \/ k \in DOMAIN deferred /\ deferred'[k] = deferred[k]
                                  \/ worker.phase # "idle" /\ deferred'[k] = worker.iter
  <2>1. CASE Defer
    <3>1. /\ worker.phase = "verify" /\ worker.iter \in Iter
          /\ deferred' = Append(deferred, worker.iter) /\ deferred \in Seq(Iter)
      BY <2>1 DEF Defer, HistoryInvariant, RetentionTypes
    <3>2. /\ Len(deferred') = Len(deferred) + 1
          /\ \A k \in 1..Len(deferred) : deferred'[k] = deferred[k]
          /\ deferred'[Len(deferred) + 1] = worker.iter /\ Len(deferred) \in Nat
          /\ DOMAIN deferred = 1..Len(deferred) /\ deferred' \in Seq(Iter)
      BY <3>1, AppendProperties, LenProperties
    <3>3. DOMAIN deferred' = 1..(Len(deferred) + 1)
      BY <3>2, LenProperties
    <3> QED BY <3>1, <3>2, <3>3
  <2>2. CASE ~Defer
    BY <2>2 DEF Deleter, Take, GiveUp, CheckProtected, CheckMarkers, Verify, MarkDeleting, List,
       ObjectsDone, SweepDone, Unmark, RemoveHusk, DeleteObject, SweepObject
  <2> QED BY <2>1, <2>2
<1> QED BY <1>2, <1>3, <1>4 DEF Old

LEMMA DeleterWindow ==
  ASSUME HistoryInvariant, DeleteInvariant, WindowInvariant, Deleter
  PROVE  WindowInvariant'
<1>1. DeleterFrame
  BY DeleterFrames DEF HistoryInvariant
<1>2. /\ UNCHANGED <<tracked, success, pointer, run>> /\ pc # "down" /\ UNCHANGED pc
  BY <1>1 DEF DeleterFrame, mainVars
<1>3. Old' \subseteq Old
  BY DeleterTakes
<1>4. failures' \in Nat /\ (failures' = 0 => failures' = failures)
  <2>1. failures \in Nat
    BY DEF WindowInvariant
  <2>2. failures' = failures \/ failures' = failures + 1
    BY DEF Deleter, Take, GiveUp, CheckProtected, CheckMarkers, Verify, Defer, MarkDeleting, List,
       ObjectsDone, SweepDone, Unmark, RemoveHusk, DeleteObject, SweepObject, Fails
  <2> QED BY <2>1, <2>2
<1>5. Overtaken'
  <2>1. \A i \in Old' : i < pointer
    BY <1>3 DEF WindowInvariant, Overtaken
  <2>2. \A i \in Iter : "deleting" \in files'[i] =>
          "deleting" \in files[i] \/ (worker.phase = "mark" /\ i = worker.iter)
    BY <1>1 DEF DeleterFrame, FilesInHand
  <2>3. \A i \in Iter : "deleting" \in files'[i] => i < pointer
    BY <2>2 DEF WindowInvariant, Overtaken, Old
  <2> QED BY <2>1, <2>3, <1>2 DEF Overtaken
<1>6. NoneForgotten'
  <2> SUFFICES ASSUME failures' = 0, NEW i \in Iter, Marked(i)', ~IsMilestone(i)
               PROVE  i \in History' \cup Old'
    BY <1>2 DEF NoneForgotten, IsMilestone, SaveIter
  <2>1. failures = 0 /\ (Marked(i) \/ (worker.phase = "mark" /\ i = worker.iter))
    BY <1>1, <1>4 DEF DeleterFrame, FilesInHand, Marked
  <2>2. i \in History \cup Old
    <3>1. worker.phase = "mark" /\ i = worker.iter => i \in Old
      BY DEF Old
    <3> QED BY <2>1, <3>1, <1>2 DEF WindowInvariant, NoneForgotten
  <2>3. Old \subseteq LetsGo
    BY <1>4, DeleterLetsGo
  <2> QED BY <2>2, <2>3, <1>2 DEF LetsGo, History
<1> QED BY <1>2, <1>4, <1>5, <1>6 DEF WindowInvariant, HistoryBounded

LEMMA StopWindow ==
  ASSUME WindowInvariant, Stop
  PROVE  WindowInvariant'
<1>1. /\ pc' = "down" /\ success' = NoSuccess /\ tracked' = <<>> /\ deleteQ' = <<>>
      /\ deferred' = <<>> /\ worker' = Idle /\ UNCHANGED <<files, pointer, failures>>
  BY DEF Stop, storeVars
<1>2. Old' = {} /\ Len(tracked') = 0
  BY <1>1, EmptySeq DEF Old, Idle
<1> QED BY <1>1, <1>2, ConstantAssumption
        DEF WindowInvariant, Overtaken, NoneForgotten, HistoryBounded, NoSuccess, Marked

(* A start takes up every marker it finds. *)
LEMMA RestartWindow ==
  ASSUME KeepLast > 0, HistoryInvariant, DeleteInvariant, WindowInvariant, Restart
  PROVE  WindowInvariant'
<1>1. /\ pc = "down"
      /\ UNCHANGED <<success, deferred, worker, files, pointer>>
  BY DEF Restart, storeVars
<1>2. worker.phase = "idle" /\ deferred = <<>> /\ success.phase = "none"
  BY <1>1 DEF DeleteInvariant, DownIsIdle, Idle, NoSuccess, HistoryInvariant, SavesAdvance
<1>3. PICK readable, all, old, excess : RecoveredState(readable, all, old, excess)
  BY RestartRecovers
<1>4. /\ \A n \in DOMAIN deleteQ' :
           \/ deleteQ'[n].iter \in Interrupted(readable)
           \/ \E k \in 1..excess : /\ k \in 1..Len(all) /\ Len(all) \in 1..Len(all)
                                   /\ deleteQ'[n].iter = all[k]
      /\ \A k \in 1..Len(old) : \E n \in DOMAIN deleteQ' : deleteQ'[n].iter = old[k]
      /\ \A k \in 1..excess : \E n \in DOMAIN deleteQ' : deleteQ'[n].iter = all[k]
  BY <1>3, RecoveredQueue
<1>5. /\ DOMAIN tracked' = 1..(Len(all) - excess) /\ Len(tracked') = Len(all) - excess
      /\ \A k \in 1..(Len(all) - excess) : tracked'[k] = all[excess + k]
  BY <1>3, WindowProperties DEF RecoveredState
<1>6. /\ Len(all) \in Nat /\ excess \in 0..Len(all)
      /\ \A k \in 1..Len(all) : all[k] \in Iter /\ all[k] <= pointer /\ all[k] \in Int
  <2>1. /\ Len(all) \in Nat /\ excess \in 0..Len(all)
        /\ \A k \in 1..Len(all) : all[k] \in Iter /\ all[k] \in Recovered(readable)
    BY <1>3, LenProperties, ElementOfSeq DEF RecoveredState
  <2>2. \A k \in 1..Len(all) : all[k] <= pointer
    BY <2>1 DEF Recovered, HistoryInvariant, SavesAdvance
  <2> QED BY <2>1, <2>2 DEF Iter
<1>7. pointer \in Int
  BY OldTypes DEF HistoryInvariant
<1>8. \A k \in 1..excess : /\ k \in 1..Len(all) /\ all[k] < pointer
  <2> SUFFICES ASSUME NEW k \in 1..excess PROVE k \in 1..Len(all) /\ all[k] < pointer
    OBVIOUS
  <2>1. k \in 1..Len(all) /\ Len(all) \in 1..Len(all) /\ k < Len(all)
    BY <1>3, <1>6, ConstantAssumption DEF RecoveredState
  <2>2. all[k] < all[Len(all)]
    BY <2>1, <1>3 DEF RecoveredState
  <2> QED BY <2>1, <2>2, <1>6, <1>7
<1>9. Overtaken'
  <2>1. \A i \in Interrupted(readable) : i < pointer
    BY <1>3 DEF Interrupted, RecoveredState, WindowInvariant, Overtaken
  <2>2. \A n \in DOMAIN deleteQ' : deleteQ'[n].iter < pointer
    BY <1>4, <1>8, <2>1
  <2>3. \A i \in Old' : i < pointer
    BY <1>1, <1>2, <2>2 DEF Old
  <2> QED BY <2>3, <1>1 DEF WindowInvariant, Overtaken
<1>10. failures' \in Nat /\ (failures' = 0 => readable = Iter)
  BY <1>3 DEF RecoveredState, Fails, WindowInvariant
<1>11. ASSUME failures' = 0, NEW i \in Iter, Marked(i)' PROVE i \in History' \cup Old'
  <2>1. CASE "deleting" \in files[i]
    <3>1. i \in Interrupted(readable)
      BY <1>10, <1>11, <2>1 DEF Interrupted
    <3>2. PICK k \in 1..Len(old) : old[k] = i
      BY <3>1, <1>3 DEF RecoveredState
    <3>3. \E n \in DOMAIN deleteQ' : deleteQ'[n].iter = i
      BY <3>2, <1>4
    <3> QED BY <3>3 DEF Old
  <2>2. CASE "deleting" \notin files[i]
    <3>1. i \in Recovered(readable)
      BY <1>1, <1>10, <1>11, <2>2 DEF Recovered, Marked
    <3>2. PICK k \in 1..Len(all) : all[k] = i
      BY <3>1, <1>3 DEF RecoveredState
    <3>3. CASE k <= excess
      <4>1. k \in 1..excess
        BY <3>3, <1>6
      <4>2. \E n \in DOMAIN deleteQ' : deleteQ'[n].iter = i
        BY <3>2, <4>1, <1>4
      <4> QED BY <4>2 DEF Old
    <3>4. CASE ~(k <= excess)
      <4>1. k - excess \in 1..(Len(all) - excess) /\ excess + (k - excess) = k
        BY <3>4, <1>6
      <4>2. k - excess \in DOMAIN tracked' /\ tracked'[k - excess] = i
        BY <3>2, <4>1, <1>5
      <4> QED BY <4>2 DEF History
    <3> QED BY <3>3, <3>4
  <2> QED BY <2>1, <2>2
<1>12. HistoryBounded'
  BY <1>1, <1>2, <1>3, <1>5 DEF RecoveredState, HistoryBounded
<1> QED BY <1>9, <1>10, <1>11, <1>12 DEF WindowInvariant, NoneForgotten

(* WindowInvariant is inductive. *)
LEMMA NextWindow ==
  ASSUME KeepLast > 0, HistoryInvariant, DeleteInvariant, WindowInvariant, [Next]_vars
  PROVE  WindowInvariant'
<1>1. CASE UNCHANGED vars
  <2>1. Old' = Old /\ History' = History
    BY <1>1, OldUnchanged DEF vars, mainVars
  <2> QED BY <1>1, <2>1 DEF vars, mainVars, storeVars, WindowInvariant, Overtaken, NoneForgotten,
         HistoryBounded, IsMilestone, SaveIter, Marked
<1>2. CASE Callback
  BY <1>2, DispatchWindow, MarkSavedWindow, PruneWindow DEF Callback
<1>3. CASE Lifecycle
  BY <1>1, <1>3, StopWindow, RestartWindow DEF Lifecycle, Kill, Exit, Finished
<1> QED BY <1>1, <1>2, <1>3, TrainerWindow, WriterWindow, DeleterWindow DEF Next

-----------------------------------------------------------------------------
(* What a kill leaves unmarked. *)

(* The save under way, or landed and about to be marked. *)
InFlight == (IF writer.phase # "none" THEN {writer.iter} ELSE {})
            \cup (IF success.phase = "mark" THEN {success.iter} ELSE {})
(* Wall-clock checkpoints that are stored and will not be marked. *)
Lost == Orphans \ InFlight

(* A deletion removes its announcement after everything else. *)
Announced ==
  /\ worker.phase \in {"list", "objects", "sweep"} => "deleting" \in files[worker.iter]
  /\ worker.phase = "objects" => "deleting" \notin worker.todo
  /\ worker.phase \in {"unmark", "husk"} /\ failures = 0 => files[worker.iter] \cap Payload = {}

(* The callback is told of the wall-clock saves and of no other. *)
ToldOfSave ==
  /\ wallClock \subseteq Iter
  /\ writer.phase # "none" => (writer.iter \in wallClock <=> writer.iter \in triggered)

(* Each kill leaves at most one. *)
FewLost == failures = 0 => Cardinality(Lost) <= IF pc = "down" THEN run ELSE run - 1

(* The inductive invariant behind the second half of WindowKept. *)
OrphanInvariant == Announced /\ ToldOfSave /\ FewLost

(* OrphanInvariant, step by step. *)
LEMMA InitOrphans == Init => OrphanInvariant
<1> SUFFICES ASSUME Init PROVE OrphanInvariant
  OBVIOUS
<1>1. Lost = {}
  BY DEF Init, Lost, Orphans
<1>2. Cardinality(Lost) = 0
  BY <1>1, FS_EmptySet
<1> QED BY <1>2 DEF Init, OrphanInvariant, Announced, ToldOfSave, FewLost, Idle, NoSave

(* Lost is finite, and so is its size. *)
LEMMA LostFinite ==
  ASSUME ToldOfSave
  PROVE  IsFiniteSet(Lost) /\ Cardinality(Lost) \in Nat
<1>1. IsFiniteSet(Iter)
  <2>1. 1 \in Int /\ MaxIter \in Int
    BY ConstantAssumption
  <2> QED BY <2>1, FS_Interval DEF Iter
<1>2. Lost \subseteq Iter
  BY DEF Lost, Orphans, ToldOfSave
<1>3. IsFiniteSet(Lost)
  BY <1>1, <1>2, FS_Subset
<1> QED BY <1>3, FS_CardinalityType

(* A step that loses nothing keeps the bound. *)
LEMMA NoneLost ==
  ASSUME HistoryInvariant, OrphanInvariant, Lost' \subseteq Lost, failures' = 0 => failures = 0,
         pc' = "down" <=> pc = "down", run' = run
  PROVE  FewLost'
<1> SUFFICES ASSUME failures' = 0
             PROVE  Cardinality(Lost') <= IF pc' = "down" THEN run' ELSE run' - 1
  BY DEF FewLost
<1>1. IsFiniteSet(Lost) /\ Cardinality(Lost) \in Nat
  BY LostFinite DEF OrphanInvariant
<1>r. run \in Int
  BY DEF HistoryInvariant, RetentionTypes
<1>2. Cardinality(Lost') <= Cardinality(Lost) /\ Cardinality(Lost') \in Nat
  <2>1. IsFiniteSet(Lost') /\ Cardinality(Lost') <= Cardinality(Lost)
    BY <1>1, FS_Subset
  <2> QED BY <2>1, FS_CardinalityType
<1>3. CASE pc = "down"
  BY <1>1, <1>2, <1>3, <1>r DEF OrphanInvariant, FewLost
<1>4. CASE pc # "down"
  BY <1>1, <1>2, <1>4, <1>r DEF OrphanInvariant, FewLost
<1> QED BY <1>3, <1>4

LEMMA TrainerOrphans ==
  ASSUME HistoryInvariant, OrphanInvariant, Trainer
  PROVE  OrphanInvariant'
<1>1. /\ UNCHANGED <<worker, success, files, run, failures>>
      /\ pc # "down" /\ pc' # "down"
  BY DEF Trainer, TrainStep, TriggerSave, EndTraining, StartSave, storeVars, Training
<1>2. Announced'
  BY <1>1 DEF OrphanInvariant, Announced
<1>3. CASE StartSave
  <2>1. /\ writer.phase = "none" /\ success.phase = "none" /\ UNCHANGED triggered
        /\ writer' = [phase |-> "shards", iter |-> iteration]
        /\ wallClock' = IF iteration \in triggered THEN wallClock \cup {iteration}
                        ELSE wallClock \ {iteration}
    BY <1>3 DEF StartSave
  <2>2. iteration \in Iter
    BY <1>3, ConstantAssumption
       DEF StartSave, HistoryInvariant, SavesAdvance, RetentionTypes, Iter
  <2>3. ToldOfSave'
    BY <2>1, <2>2 DEF OrphanInvariant, ToldOfSave
  <2>4. InFlight' = {iteration} /\ InFlight = {}
    BY <2>1, <1>1 DEF InFlight
  <2>5. Lost' \subseteq Lost
    BY <2>1, <2>4, <1>1 DEF Lost, Orphans, Marked
  <2> QED BY <1>1, <1>2, <2>3, <2>5, NoneLost DEF OrphanInvariant
<1>4. CASE TrainStep \/ TriggerSave \/ EndTraining
  <2>1. UNCHANGED <<writer, wallClock>>
    BY <1>4 DEF TrainStep, TriggerSave, EndTraining, storeVars
  <2>2. triggered' = triggered \/ (triggered' = triggered \cup {iteration} /\ iteration > lastCheckpoint)
    BY <1>4 DEF TrainStep, TriggerSave, EndTraining
  <2>3. writer.phase # "none" /\ iteration > lastCheckpoint => writer.iter # iteration
    BY DEF HistoryInvariant, SavesAdvance, RetentionTypes
  <2>4. ToldOfSave'
    BY <2>1, <2>2, <2>3 DEF OrphanInvariant, ToldOfSave
  <2>5. Lost' = Lost
    BY <1>1, <2>1 DEF Lost, Orphans, InFlight, Marked
  <2> QED BY <1>1, <1>2, <2>4, <2>5, NoneLost DEF OrphanInvariant
<1> QED BY <1>3, <1>4 DEF Trainer

(* Overtaken checkpoints are not written. *)
LEMMA WriterApart ==
  ASSUME HistoryInvariant, WindowInvariant, writer.phase # "none", worker.phase # "idle"
  PROVE  worker.iter # writer.iter
<1>1. worker.iter < pointer /\ pointer <= writer.iter
  BY DEF WindowInvariant, Overtaken, Old, HistoryInvariant, SavesAdvance
<1>2. worker.iter \in Int /\ pointer \in Int /\ writer.iter \in Int
  BY ConstantAssumption DEF HistoryInvariant, RetentionTypes, Iter
<1> QED BY <1>1, <1>2

LEMMA WriterOrphans ==
  ASSUME HistoryInvariant, WindowInvariant, OrphanInvariant, Writer
  PROVE  OrphanInvariant'
<1>1. /\ UNCHANGED <<worker, success, triggered, pc, run, failures, wallClock>>
      /\ writer.phase # "none" /\ writer'.phase # "none" /\ writer'.iter = writer.iter
  BY DEF Writer, WriteShards, WriteMetadata, mainVars, HistoryInvariant, RetentionTypes
<1>2. \A i \in Iter : i # writer.iter => files'[i] = files[i]
  BY DEF Writer, WriteShards, WriteMetadata, HistoryInvariant, RetentionTypes, FilesType
<1>3. worker.phase # "idle" => files'[worker.iter] = files[worker.iter]
  BY <1>1, <1>2, WriterApart DEF HistoryInvariant, RetentionTypes
<1>4. Announced'
  BY <1>1, <1>3 DEF OrphanInvariant, Announced
<1>5. ToldOfSave'
  BY <1>1 DEF OrphanInvariant, ToldOfSave
<1>6. InFlight' = InFlight /\ writer.iter \in InFlight
  BY <1>1 DEF InFlight
<1>7. Lost' \subseteq Lost
  BY <1>1, <1>2, <1>6 DEF Lost, Orphans, Marked, OrphanInvariant, ToldOfSave
<1> QED BY <1>1, <1>4, <1>5, <1>7, NoneLost DEF OrphanInvariant

LEMMA CallbackOrphans ==
  ASSUME HistoryInvariant, WindowInvariant, OrphanInvariant, Callback
  PROVE  OrphanInvariant'
<1>n. failures \in Nat
  BY DEF WindowInvariant
<1>1. /\ UNCHANGED <<worker, pc, wallClock, run>>
      /\ \A i \in Iter : files'[i] = files[i] \/ files'[i] = files[i] \cup {"saved"}
      /\ failures' = failures \/ (failures' = failures + 1 /\ failures < MaxFailures)
  BY DEF Callback, DispatchSuccess, MarkSaved, PruneAfterSave, storeVars, Fails, HistoryInvariant,
     RetentionTypes, FilesType
<1>2. failures' = 0 => failures = 0
  BY <1>1, <1>n DEF OrphanInvariant
<1>3. Announced'
  <2>1. worker.phase # "idle" => worker.iter \in Iter
    BY DEF HistoryInvariant, RetentionTypes
  <2> QED BY <1>1, <1>2, <2>1 DEF OrphanInvariant, Announced, Payload
<1>4. CASE DispatchSuccess
  <2>1. /\ writer' = NoSave /\ writer.phase # "none" /\ success.phase = "none"
        /\ success' = IF writer.iter \in triggered
                      THEN [phase |-> "mark", iter |-> writer.iter] ELSE NoSuccess
        /\ UNCHANGED <<files, failures>>
    BY <1>4 DEF DispatchSuccess, storeVars
  <2>2. InFlight = {writer.iter}
    BY <2>1 DEF InFlight
  <2>3. InFlight' = IF writer.iter \in triggered THEN {writer.iter} ELSE {}
    BY <2>1 DEF InFlight, NoSave, NoSuccess
  <2>4. writer.iter \notin triggered => writer.iter \notin wallClock
    BY <2>1 DEF OrphanInvariant, ToldOfSave
  <2>5. Lost' \subseteq Lost
    BY <1>1, <2>1, <2>2, <2>3, <2>4 DEF Lost, Orphans, Marked
  <2>6. ToldOfSave'
    BY <1>1, <2>1 DEF OrphanInvariant, ToldOfSave, NoSave
  <2> QED BY <1>1, <1>2, <1>3, <2>5, <2>6, NoneLost DEF OrphanInvariant
<1>5. CASE MarkSaved
  <2>1. writer.phase = "none" /\ UNCHANGED writer /\ success.phase = "mark" /\ success.iter \in Iter
    BY <1>5 DEF MarkSaved, HistoryInvariant, SavesAdvance
  <2>2. ToldOfSave'
    BY <1>1, <2>1 DEF OrphanInvariant, ToldOfSave
  <2>3. CASE failures' # 0
    BY <1>3, <2>2, <2>3 DEF OrphanInvariant, FewLost
  <2>4. CASE failures' = 0
    <3>1. /\ files' = [files EXCEPT ![success.iter] = @ \cup {"saved"}]
          /\ success' = [success EXCEPT !.phase = "prune"]
      BY <1>5, <2>4, <1>n DEF MarkSaved, Fails, OrphanInvariant
    <3>2. InFlight = {success.iter} /\ InFlight' = {}
      BY <2>1, <3>1 DEF InFlight, HistoryInvariant, RetentionTypes
    <3>3. "saved" \in files'[success.iter]
      BY <2>1, <3>1 DEF HistoryInvariant, RetentionTypes, FilesType
    <3>4. \A i \in Iter : i # success.iter => files'[i] = files[i]
      BY <3>1 DEF HistoryInvariant, RetentionTypes, FilesType
    <3>5. Lost' \subseteq Lost
      BY <1>1, <3>2, <3>3, <3>4 DEF Lost, Orphans, Marked, OrphanInvariant, ToldOfSave
    <3> QED BY <1>1, <1>2, <1>3, <2>2, <3>5, NoneLost DEF OrphanInvariant
  <2> QED BY <2>3, <2>4
<1>6. CASE PruneAfterSave
  <2>1. /\ success.phase = "prune" /\ success' = NoSuccess
        /\ UNCHANGED <<writer, files, failures, triggered>>
    BY <1>6 DEF PruneAfterSave, storeVars
  <2>2. InFlight' = InFlight
    BY <2>1 DEF InFlight, NoSuccess
  <2>3. Lost' = Lost
    BY <1>1, <2>1, <2>2 DEF Lost, Orphans, Marked
  <2>4. ToldOfSave'
    BY <1>1, <2>1 DEF OrphanInvariant, ToldOfSave
  <2> QED BY <1>1, <1>2, <1>3, <2>3, <2>4, NoneLost DEF OrphanInvariant
<1> QED BY <1>4, <1>5, <1>6 DEF Callback

(* A deletion loses no checkpoint: the announcement outlives the payload. *)
LEMMA DeleterAnnounces ==
  ASSUME HistoryInvariant, WindowInvariant, OrphanInvariant, Deleter
  PROVE  /\ Announced'
         /\ \A i \in Iter : (/\ failures' = 0 /\ worker.phase # "idle" /\ i = worker.iter
                             /\ files'[i] \cap Payload # {} /\ Marked(i)) => Marked(i)'
<1>n. failures \in Nat
  BY DEF WindowInvariant
<1>w. /\ worker \in [phase : Phases, iter : 0..MaxIter, by : 0..MaxIter, todo : SUBSET File]
      /\ worker.phase # "idle" => worker.iter \in Iter
      /\ files \in [Iter -> SUBSET File]
  BY DEF HistoryInvariant, RetentionTypes, FilesType
<1> DEFINE Stays(i) == (/\ failures' = 0 /\ worker.phase # "idle" /\ i = worker.iter
                         /\ files'[i] \cap Payload # {} /\ Marked(i)) => Marked(i)'
<1> USE DEF OrphanInvariant, Announced, Marked, Payload
<1>1. CASE Take
  BY <1>1, <1>w DEF Take, storeVars
<1>2. CASE GiveUp \/ CheckProtected \/ CheckMarkers \/ Verify \/ Defer
  <2>1. UNCHANGED files
    BY <1>2 DEF GiveUp, CheckProtected, CheckMarkers, Verify, Defer
  <2>2. worker'.phase \in {"idle", "markers", "verify", "mark"}
    BY <1>2, <1>w DEF GiveUp, CheckProtected, CheckMarkers, Verify, Defer, Go, Idle
  <2>3. Announced'
    BY <2>2
  <2>4. \A i \in Iter : Stays(i)
    BY <2>1
  <2> QED BY <2>3, <2>4
<1>3. CASE MarkDeleting
  <2>1. /\ worker'.phase = "list" /\ worker'.iter = worker.iter /\ worker.iter \in Iter
        /\ "deleting" \in files'[worker.iter]
    BY <1>3, <1>w DEF MarkDeleting, Go
  <2> QED BY <2>1
<1>4. CASE List
  <2>1. PICK listed : /\ worker' = [worker EXCEPT !.phase = "objects", !.todo = listed]
                      /\ "deleting" \notin listed /\ UNCHANGED files /\ worker.phase = "list"
    BY <1>4 DEF List
  <2>2. worker'.phase = "objects" /\ worker'.iter = worker.iter /\ worker'.todo = listed
    BY <2>1, <1>w
  <2> QED BY <2>1, <2>2
<1>5. CASE ObjectsDone
  <2>1. /\ worker'.phase = "sweep" /\ worker'.iter = worker.iter /\ worker.phase = "objects"
        /\ UNCHANGED files
    BY <1>5, <1>w DEF ObjectsDone, Go
  <2> QED BY <2>1
<1>6. CASE SweepDone
  <2>1. /\ worker'.phase = "unmark" /\ worker'.iter = worker.iter
        /\ UNCHANGED files /\ files[worker.iter] \cap Payload = {}
    BY <1>6, <1>w DEF SweepDone, Go
  <2> QED BY <2>1
<1>7. CASE Unmark
  <2>1. worker'.phase = "husk" /\ worker'.iter = worker.iter /\ worker.phase = "unmark"
    BY <1>7, <1>w DEF Unmark, Go
  <2>2. failures' = 0 => failures = 0 /\ Erase("deleting")
    BY <1>7, <1>n DEF Unmark, Fails
  <2>3. failures' = 0 => files'[worker.iter] \cap Payload = {}
    BY <2>1, <2>2, <1>w DEF Erase
  <2> QED BY <2>1, <2>3
<1>8. CASE RemoveHusk
  <2>1. worker' = Idle /\ worker.phase = "husk"
    BY <1>8 DEF RemoveHusk
  <2>2. failures' = 0 => files'[worker.iter] = {}
    BY <1>8, <1>w, <2>1, <1>n DEF RemoveHusk, Fails
  <2> QED BY <2>1, <2>2 DEF Idle
<1>9. ASSUME NEW f \in File, DeleteObject(f)
      PROVE  Announced' /\ \A i \in Iter : Stays(i)
  <2>1. /\ worker.phase = "objects" /\ f \in worker.todo /\ worker' = [worker EXCEPT !.todo = @ \ {f}]
        /\ Erase(f) \/ UNCHANGED files
    BY <1>9 DEF DeleteObject
  <2>2. worker'.phase = "objects" /\ worker'.iter = worker.iter /\ worker'.todo \subseteq worker.todo
    BY <2>1, <1>w
  <2>3. "deleting" \in files'[worker.iter]
    BY <2>1, <1>w DEF Erase
  <2> QED BY <2>1, <2>2, <2>3
<1>10. ASSUME NEW f \in File, SweepObject(f)
       PROVE  Announced' /\ \A i \in Iter : Stays(i)
  <2>1. /\ worker.phase = "sweep" /\ f \in Payload
        /\ \/ Erase(f) /\ UNCHANGED worker
           \/ Fails /\ Go("unmark") /\ UNCHANGED files
    BY <1>10 DEF SweepObject
  <2>2. "deleting" \in files'[worker.iter]
    BY <2>1, <1>w DEF Erase
  <2>3. Fails => failures' # 0
    BY <1>n DEF Fails
  <2>4. Go("unmark") => worker'.phase = "unmark" /\ worker'.iter = worker.iter
    BY <1>w DEF Go
  <2>5. Announced'
    BY <2>1, <2>2, <2>3, <2>4
  <2> QED BY <2>2, <2>5
<1>11. Announced' /\ \A i \in Iter : Stays(i)
  BY <1>1, <1>2, <1>3, <1>4, <1>5, <1>6, <1>7, <1>8, <1>9, <1>10 DEF Deleter
<1> QED BY <1>11

LEMMA DeleterOrphans ==
  ASSUME HistoryInvariant, DeleteInvariant, WindowInvariant, OrphanInvariant, Deleter
  PROVE  OrphanInvariant'
<1>1. DeleterFrame
  BY DeleterFrames DEF HistoryInvariant
<1>2. UNCHANGED <<writer, success, triggered, pc, run, wallClock>>
  BY <1>1 DEF DeleterFrame, mainVars
<1>3. failures \in Nat /\ (failures' = failures \/ failures' = failures + 1)
  BY DEF WindowInvariant, Deleter, Take, GiveUp, CheckProtected, CheckMarkers, Verify, Defer,
     MarkDeleting, List, ObjectsDone, SweepDone, Unmark, RemoveHusk, DeleteObject, SweepObject, Fails
<1>4. CASE failures' # 0
  BY <1>2, <1>4, DeleterAnnounces DEF OrphanInvariant, ToldOfSave, FewLost
<1>5. CASE failures' = 0
  <2>1. InFlight' = InFlight
    BY <1>2 DEF InFlight
  <2>2. \A i \in Iter : files'[i] \cap Payload \subseteq files[i]
    BY <1>1 DEF DeleterFrame, FilesInHand, Payload
  <2>3. \A i \in Iter : worker.phase = "idle" \/ i # worker.iter => files[i] \subseteq files'[i]
    BY <1>1 DEF DeleterFrame, FilesInHand, Erasing
  <2>4. \A i \in Iter : files'[i] \cap Payload # {} /\ Marked(i) => Marked(i)'
    BY <1>5, <2>3, DeleterAnnounces DEF Marked
  <2>5. Lost' \subseteq Lost
    BY <1>2, <2>1, <2>2, <2>4 DEF Lost, Orphans, OrphanInvariant, ToldOfSave
  <2>6. failures = 0
    BY <1>3, <1>5
  <2> QED BY <1>2, <2>5, <2>6, NoneLost, DeleterAnnounces DEF OrphanInvariant, ToldOfSave
<1> QED BY <1>4, <1>5

(* A kill loses the save in flight, if there is one. *)
LEMMA StopOrphans ==
  ASSUME HistoryInvariant, WindowInvariant, OrphanInvariant, Stop, pc # "down"
  PROVE  OrphanInvariant'
<1>1. /\ pc' = "down" /\ success' = NoSuccess /\ writer' = NoSave /\ worker' = Idle
      /\ UNCHANGED <<files, wallClock, run, failures>>
  BY DEF Stop, storeVars
<1>2. Announced' /\ ToldOfSave'
  BY <1>1 DEF OrphanInvariant, Announced, ToldOfSave, Idle, NoSave
<1>3. PICK x : InFlight \subseteq {x}
  BY DEF InFlight, HistoryInvariant, SavesAdvance
<1>4. Lost' \subseteq Lost \cup {x}
  BY <1>1, <1>3 DEF Lost, Orphans, Marked
<1>5. IsFiniteSet(Lost) /\ Cardinality(Lost) \in Nat
  BY LostFinite DEF OrphanInvariant
<1>6. /\ IsFiniteSet(Lost \cup {x}) /\ Cardinality(Lost \cup {x}) \in Nat
      /\ Cardinality(Lost \cup {x}) <= Cardinality(Lost) + 1
  <2>1. /\ IsFiniteSet(Lost \cup {x})
        /\ Cardinality(Lost \cup {x}) = IF x \in Lost THEN Cardinality(Lost) ELSE Cardinality(Lost) + 1
    BY <1>5, FS_AddElement
  <2> QED BY <2>1, <1>5
<1>7. Cardinality(Lost') <= Cardinality(Lost \cup {x}) /\ Cardinality(Lost') \in Nat
  <2>1. IsFiniteSet(Lost') /\ Cardinality(Lost') <= Cardinality(Lost \cup {x})
    BY <1>4, <1>6, FS_Subset
  <2> QED BY <2>1, FS_CardinalityType
<1>8. FewLost'
  <2> SUFFICES ASSUME failures' = 0 PROVE Cardinality(Lost') <= run'
    BY <1>1 DEF FewLost
  <2>1. Cardinality(Lost) <= run - 1
    BY <1>1 DEF OrphanInvariant, FewLost
  <2>2. run \in Int
    BY DEF HistoryInvariant, RetentionTypes
  <2> QED BY <1>1, <1>5, <1>6, <1>7, <2>1, <2>2
<1> QED BY <1>2, <1>8 DEF OrphanInvariant

LEMMA RestartOrphans ==
  ASSUME HistoryInvariant, DeleteInvariant, WindowInvariant, OrphanInvariant, Restart
  PROVE  OrphanInvariant'
<1>1. /\ pc = "down" /\ pc' = "train" /\ run' = run + 1
      /\ UNCHANGED <<triggered, success, writer, worker, files, wallClock>>
  BY DEF Restart, storeVars
<1>2. worker.phase = "idle" /\ run \in Int
  BY <1>1 DEF DeleteInvariant, DownIsIdle, Idle, HistoryInvariant, RetentionTypes
<1>3. failures \in Nat /\ (failures' = 0 => failures = 0)
  BY DEF Restart, Fails, WindowInvariant
<1>4. Lost' = Lost
  BY <1>1 DEF Lost, Orphans, InFlight, Marked
<1>5. Announced' /\ ToldOfSave'
  BY <1>1, <1>2 DEF OrphanInvariant, Announced, ToldOfSave
<1>6. Cardinality(Lost) \in Nat
  BY LostFinite DEF OrphanInvariant
<1>7. FewLost'
  BY <1>1, <1>2, <1>3, <1>4, <1>6 DEF OrphanInvariant, FewLost
<1> QED BY <1>5, <1>7 DEF OrphanInvariant

(* OrphanInvariant is inductive. *)
LEMMA NextOrphans ==
  ASSUME HistoryInvariant, DeleteInvariant, WindowInvariant, OrphanInvariant, [Next]_vars
  PROVE  OrphanInvariant'
<1>1. CASE UNCHANGED vars
  BY <1>1 DEF vars, mainVars, storeVars, OrphanInvariant, Announced, ToldOfSave, FewLost, Lost,
     Orphans, InFlight, Marked
<1>2. CASE Kill \/ Exit
  BY <1>2, StopOrphans DEF Kill, Exit
<1>3. CASE Finished
  BY <1>1, <1>3 DEF Finished
<1> QED BY <1>1, <1>2, <1>3, TrainerOrphans, WriterOrphans, CallbackOrphans, DeleterOrphans,
           RestartOrphans DEF Next, Lifecycle

(* As long as no storage operation has failed, no more than keep_last marked     *)
(* checkpoints that are no milestones are stored once nothing is under way, and  *)
(* at most one unmarked wall-clock checkpoint for each earlier start: what a     *)
(* kill caught between its landing and its mark.  keep_last = 0 switches pruning *)
(* off, hence the assumption.                                                    *)
THEOREM WindowKeptCorrect ==
  ASSUME KeepLast > 0
  PROVE  Spec => []WindowKept
<1>1. DeleteInvariant /\ [Next]_vars => DeleteInvariant'
  BY NextDelete
<1>2. HistoryInvariant /\ DeleteInvariant /\ WindowInvariant /\ [Next]_vars => WindowInvariant'
  BY NextWindow
<1>3. HistoryInvariant /\ DeleteInvariant /\ WindowInvariant /\ OrphanInvariant /\ [Next]_vars
        => OrphanInvariant'
  BY NextOrphans
<1>4. HistoryInvariant /\ WindowInvariant /\ OrphanInvariant => WindowKept
  <2> SUFFICES ASSUME HistoryInvariant, WindowInvariant, OrphanInvariant, Quiet, failures = 0
               PROVE  /\ Cardinality({i \in Iter : Marked(i) /\ ~IsMilestone(i)}) <= KeepLast
                      /\ Cardinality(Orphans) <= run - 1
    BY DEF WindowKept
  <2> DEFINE S == {i \in Iter : Marked(i) /\ ~IsMilestone(i)}
  <2>1. Old = {} /\ pc # "down" /\ success.phase = "none"
    BY DEF Quiet, Old, Idle
  <2>2. S \subseteq History /\ Len(tracked) <= KeepLast
    BY <2>1 DEF WindowInvariant, NoneForgotten, HistoryBounded
  <2>3. tracked \in Seq(Iter) /\ DOMAIN tracked = 1..Len(tracked) /\ Len(tracked) \in Nat
    BY LenProperties DEF HistoryInvariant, RetentionTypes
  <2> DEFINE N == Len(tracked)
             H == History
  <2>4. tracked \in Surjection(1..N, H)
    <3>1. \A k \in 1..N : tracked[k] \in H
      BY <2>3 DEF History
    <3>2. tracked \in [1..N -> H]
      BY <2>3, <3>1
    <3>3. \A x \in H : \E k \in 1..N : tracked[k] = x
      BY <2>3 DEF History
    <3> HIDE DEF H, N
    <3> QED BY <3>2, <3>3 DEF Surjection
  <2> HIDE DEF S, H, N
  <2>5. IsFiniteSet(1..N) /\ Cardinality(1..N) = N
    <3>1. 1 \in Int /\ N \in Int /\ N \in Nat
      BY <2>3 DEF N
    <3>2. IsFiniteSet(1..N) /\ Cardinality(1..N) = IF 1 > N THEN 0 ELSE N - 1 + 1
      BY <3>1, FS_Interval
    <3> QED BY <3>1, <3>2
  <2>6. IsFiniteSet(H) /\ Cardinality(H) <= N
    BY <2>4, <2>5, FS_Surjection
  <2>7. IsFiniteSet(S) /\ Cardinality(S) <= Cardinality(H)
    BY <2>2, <2>6, FS_Subset DEF H
  <2>8. Cardinality(S) \in Nat /\ Cardinality(H) \in Nat
    BY <2>6, <2>7, FS_CardinalityType
  <2>9. Cardinality(S) <= KeepLast
    BY <2>2, <2>3, <2>6, <2>7, <2>8, ConstantAssumption DEF N
  <2>10. Orphans = Lost
    BY DEF Quiet, Lost, InFlight
  <2>11. Cardinality(Orphans) <= run - 1
    BY <2>1, <2>10 DEF OrphanInvariant, FewLost
  <2> QED BY <2>9, <2>11 DEF S
<1> QED BY InitDelete, InitWindow, InitOrphans, HistoryAlways, <1>1, <1>2, <1>3, <1>4, PTL DEF Spec
=============================================================================
