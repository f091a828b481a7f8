---------------------- MODULE AsyncBatchBuilderProofs ----------------------
(***************************************************************************)
(* Proofs about AsyncBatchBuilder, for any number of batches, any starting *)
(* iteration and any number of times the client iterates.                  *)
(*                                                                         *)
(* The argument follows the one request that is under way.  It is in one   *)
(* place at a time: being submitted, in the request queue, with the        *)
(* daemon, in the result queue, in the trainer's hand; or it is lost, once *)
(* the builder is closed.                                                  *)
(***************************************************************************)
EXTENDS AsyncBatchBuilder, TLAPS

(* The places of a queue that do not hold the closing message. *)
Places(q) == {i \in 1..Len(q) : q[i] # Close}

(* Where the request can be. *)
Queued == Places(requests)
Ready == Places(results)
WithDaemon == daemon.pc \in {"build", "publish", "put"}
InHand == trainer.pc = "examine" /\ trainer.result # Close

(* A result that answers the outstanding request: the batch after those    *)
(* delivered, or an error or the end, for which nothing was packed.        *)
Answers(r) ==
  /\ r.seq = outstanding
  /\ outstanding = first + Len(delivered)
  /\ r.outcome = "batch" => r.item = Len(delivered) + 1 /\ packed = Len(delivered) + 1
  /\ r.outcome # "batch" => packed = Len(delivered)

(* The part of the type invariant the argument needs. *)
Types ==
  /\ globalId \in Nat /\ packed \in Nat /\ first \in Nat
  /\ delivered \in Seq([seq : Nat, item : Nat])
  /\ requests \in Seq(Nat \cup {Close})
  /\ results \in Seq(Result \cup {Close})
  /\ outstanding \in Nat \cup {None}
  /\ daemon \in [pc : DaemonPc, seq : Nat \cup {Close}, result : Result]
  /\ trainer \in [pc : TrainerPc, seq : Nat, result : Result \cup {Close}]

NotTaken == ~InHand /\ trainer.pc \notin {"request", "submit"}

BeforeStart ==
  /\ trainer.pc = "new" => ~started
  /\ ~started => /\ packed = 0 /\ delivered = <<>> /\ requests = <<>> /\ results = <<>>
                 /\ outstanding = None /\ daemon.pc = "off" /\ trainer.pc \in {"new", "loop"}
                 /\ closer = "off"

OneQueued ==
  \A i \in Queued :
    /\ requests[i] = outstanding /\ outstanding = first + Len(delivered)
    /\ packed = Len(delivered)
    /\ \A j \in Queued : j = i
    /\ ~WithDaemon /\ Ready = {} /\ NotTaken

(* The packing iterator is never two batches ahead of the trainer. *)
OneAhead == packed <= Len(delivered) + 1

DaemonHolds ==
  WithDaemon =>
    /\ daemon.seq = outstanding /\ outstanding = first + Len(delivered)
    /\ daemon.pc = "build" => packed = Len(delivered)
    /\ daemon.pc # "build" => Answers(daemon.result)
    /\ Ready = {} /\ NotTaken

OneReady ==
  \A i \in Ready : Answers(results[i]) /\ (\A j \in Ready : j = i) /\ NotTaken

TrainerHolds ==
  /\ trainer.pc \in {"wait", "examine"} => trainer.seq = outstanding
  /\ InHand => Answers(trainer.result)
  /\ trainer.pc \in {"request", "submit"} =>
       /\ trainer.result # Close
       /\ trainer.result.outcome = "batch"
       /\ trainer.result.seq = first + Len(delivered)
       /\ trainer.result.item = Len(delivered) + 1
       /\ packed = Len(delivered) + 1
  /\ trainer.pc = "submit" => outstanding = globalId

Counted ==
  /\ globalId = first + packed
  /\ Len(delivered) <= packed
  /\ OneAhead

OneRequest ==
  /\ Types /\ BeforeStart /\ Counted
  /\ OneQueued /\ DaemonHolds /\ OneReady /\ TrainerHolds
  /\ DeliveredInOrder

(* What taking the first element of a queue, and adding a last one, do to  *)
(* its places.                                                             *)
LEMMA TakeFirst ==
  ASSUME NEW S, NEW q \in Seq(S), q # <<>>
  PROVE  /\ Head(q) = q[1] /\ Head(q) \in S /\ Tail(q) \in Seq(S)
         /\ Head(q) # Close => 1 \in Places(q)
         /\ \A i \in Places(Tail(q)) : i \in Nat \ {0} /\ i + 1 \in Places(q) /\ Tail(q)[i] = q[i + 1]
<1>1. Len(q) \in Nat \ {0} /\ Head(q) = q[1] /\ Head(q) \in S /\ Tail(q) \in Seq(S)
  OBVIOUS
<1>2. Len(Tail(q)) = Len(q) - 1 /\ \A i \in 1..Len(q) - 1 : Tail(q)[i] = q[i + 1]
  OBVIOUS
<1> QED BY <1>1, <1>2 DEF Places

LEMMA AddLast ==
  ASSUME NEW S, NEW q \in Seq(S), NEW x \in S, x # Close
  PROVE  /\ Append(q, x) \in Seq(S)
         /\ Places(Append(q, x)) = Places(q) \cup {Len(q) + 1}
         /\ Append(q, x)[Len(q) + 1] = x
<1>1. Len(q) \in Nat /\ Append(q, x) \in Seq(S) /\ Len(Append(q, x)) = Len(q) + 1
  OBVIOUS
<1>2. /\ \A i \in 1..Len(q) : Append(q, x)[i] = q[i]
      /\ Append(q, x)[Len(q) + 1] = x
  OBVIOUS
<1>3. 1..Len(q) + 1 = (1..Len(q)) \cup {Len(q) + 1}
  BY <1>1
<1> QED BY <1>1, <1>2, <1>3 DEF Places

LEMMA AddClose ==
  ASSUME NEW S, NEW q \in Seq(S), Close \in S
  PROVE  /\ Append(q, Close) \in Seq(S)
         /\ Places(Append(q, Close)) = Places(q)
         /\ \A i \in Places(q) : Append(q, Close)[i] = q[i]
<1>1. Len(q) \in Nat /\ Append(q, Close) \in Seq(S) /\ Len(Append(q, Close)) = Len(q) + 1
  OBVIOUS
<1>2. /\ \A i \in 1..Len(q) : Append(q, Close)[i] = q[i]
      /\ Append(q, Close)[Len(q) + 1] = Close
  OBVIOUS
<1>3. 1..Len(q) + 1 = (1..Len(q)) \cup {Len(q) + 1}
  BY <1>1
<1> QED BY <1>1, <1>2, <1>3 DEF Places

(* Adding to a queue with no request, or no result, in it. *)
LEMMA QueueOne ==
  ASSUME requests \in Seq(Nat \cup {Close}), Places(requests) = {},
         NEW n \in Nat, requests' = Append(requests, n)
  PROVE  /\ requests' \in Seq(Nat \cup {Close})
         /\ \E k : Places(requests') = {k} /\ requests'[k] = n
<1>1. n \in Nat \cup {Close} /\ n # Close
  BY BuilderAssumption
<1>2. /\ requests' \in Seq(Nat \cup {Close})
      /\ Places(requests') = {Len(requests) + 1} /\ requests'[Len(requests) + 1] = n
  BY <1>1, AddLast
<1> QED BY <1>2

LEMMA ReadyOne ==
  ASSUME results \in Seq(Result \cup {Close}), Places(results) = {},
         NEW r \in Result, results' = Append(results, r)
  PROVE  \A i \in Places(results') : results'[i] = r /\ \A j \in Places(results') : j = i
<1>1. CASE r = Close
  <2>1. Places(results') = {}
    BY <1>1, AddClose
  <2> QED BY <2>1
<1>2. CASE r # Close
  <2>1. Places(results') = {Len(results) + 1} /\ results'[Len(results) + 1] = r
    BY <1>2, AddLast
  <2> QED BY <2>1
<1> QED BY <1>1, <1>2

LEMMA InitOneRequest == Init => OneRequest
BY BuilderAssumption DEF Init, OneRequest, Types, BeforeStart, Counted, OneAhead, OneQueued, DaemonHolds,
   OneReady, TrainerHolds, DeliveredInOrder, Queued, Ready, Places, WithDaemon, InHand, NoResult,
   Result, Outcome, TrainerPc, DaemonPc

(* From here on the invariant and the groups of variables are visible; a   *)
(* lemma per action expands that action.                                   *)
USE BuilderAssumption
    DEF OneRequest, Types, BeforeStart, Counted, OneAhead, OneQueued, DaemonHolds, OneReady,
        TrainerHolds, DeliveredInOrder, Queued, Ready, WithDaemon, InHand, NotTaken, Answers,
        TrainerPc, DaemonPc, ClosePc, daemonVars, queueVars, flagVars, historyVars

LEMMA StartKeeps == ASSUME OneRequest, \E n \in Starts : SetStartIteration(n) PROVE OneRequest'
<1> PICK n \in Starts : SetStartIteration(n)
  OBVIOUS
<1>q. eager => /\ requests' \in Seq(Nat \cup {Close})
               /\ \E k : Queued' = {k} /\ requests'[k] = n
  <2>1. Places(requests) = {} /\ n \in Nat
    BY DEF Places, SetStartIteration
  <2> QED BY <2>1, QueueOne DEF SetStartIteration, StartBuilder
<1>1. Types'
  <2>1. globalId' \in Nat /\ packed' \in Nat /\ first' \in Nat /\ outstanding' \in Nat \cup {None}
    BY DEF SetStartIteration, StartBuilder
  <2>2. delivered' \in Seq([seq : Nat, item : Nat])
    BY DEF SetStartIteration, StartBuilder
  <2>3. requests' \in Seq(Nat \cup {Close})
    <3>1. CASE eager
      BY <3>1, <1>q DEF SetStartIteration, StartBuilder
    <3>2. CASE ~eager
      BY <3>2 DEF SetStartIteration
    <3> QED BY <3>1, <3>2
  <2>4. results' \in Seq(Result \cup {Close})
    BY DEF SetStartIteration, StartBuilder
  <2>5. daemon' \in [pc : DaemonPc, seq : Nat \cup {Close}, result : Result]
    BY DEF SetStartIteration, StartBuilder
  <2>6. trainer' \in [pc : TrainerPc, seq : Nat, result : Result \cup {Close}]
    BY DEF SetStartIteration, StartBuilder
  <2> QED BY <2>1, <2>2, <2>3, <2>4, <2>5, <2>6
<1>2. BeforeStart'
  BY DEF SetStartIteration, StartBuilder
<1>3. Counted'
  BY DEF SetStartIteration, StartBuilder
<1>4. OneQueued'
  BY <1>q DEF SetStartIteration, StartBuilder
<1>5. DaemonHolds'
  BY DEF SetStartIteration, StartBuilder
<1>6. OneReady'
  BY DEF SetStartIteration, StartBuilder
<1>7. TrainerHolds'
  BY DEF SetStartIteration, StartBuilder
<1>8. DeliveredInOrder'
  BY DEF SetStartIteration, StartBuilder
<1> QED BY <1>1, <1>2, <1>3, <1>4, <1>5, <1>6, <1>7, <1>8

LEMMA IterateKeeps == ASSUME OneRequest, Iterate PROVE OneRequest'
<1>q. ~started => /\ requests' \in Seq(Nat \cup {Close})
                  /\ \E k : Queued' = {k} /\ requests'[k] = globalId
  <2>1. ~started => Places(requests) = {}
    BY DEF Places
  <2> QED BY <2>1, QueueOne DEF Iterate, StartBuilder
<1>1. Types'
  <2>1. globalId' \in Nat /\ packed' \in Nat /\ first' \in Nat /\ outstanding' \in Nat \cup {None}
    BY DEF Iterate, StartBuilder
  <2>2. delivered' \in Seq([seq : Nat, item : Nat])
    BY DEF Iterate, StartBuilder
  <2>3. requests' \in Seq(Nat \cup {Close})
    BY DEF Iterate, StartBuilder
  <2>4. results' \in Seq(Result \cup {Close})
    BY DEF Iterate, StartBuilder
  <2>5. daemon' \in [pc : DaemonPc, seq : Nat \cup {Close}, result : Result]
    BY DEF Iterate, StartBuilder
  <2>6. trainer' \in [pc : TrainerPc, seq : Nat, result : Result \cup {Close}]
    BY DEF Iterate, StartBuilder
  <2> QED BY <2>1, <2>2, <2>3, <2>4, <2>5, <2>6
<1>2. BeforeStart'
  BY DEF Iterate, StartBuilder
<1>3. Counted'
  BY DEF Iterate, StartBuilder
<1>4. OneQueued'
  BY <1>q DEF Iterate, StartBuilder
<1>5. DaemonHolds'
  BY DEF Iterate, StartBuilder
<1>6. OneReady'
  BY DEF Iterate, StartBuilder
<1>7. TrainerHolds'
  BY DEF Iterate, StartBuilder
<1>8. DeliveredInOrder'
  BY DEF Iterate, StartBuilder
<1> QED BY <1>1, <1>2, <1>3, <1>4, <1>5, <1>6, <1>7, <1>8

LEMMA EnterKeeps == ASSUME OneRequest, EnterGetBatch PROVE OneRequest'
<1>0. /\ trainer.pc = "enter" /\ trainer'.result = trainer.result
      /\ \/ trainer' = [trainer EXCEPT !.pc = "loop"]
         \/ /\ outstanding \in Nat
            /\ trainer' = [trainer EXCEPT !.pc = "wait", !.seq = outstanding]
  BY DEF EnterGetBatch, Raise
<1>a. /\ trainer'.pc \in {"loop", "wait"} /\ trainer'.result = trainer.result
      /\ trainer'.pc = "wait" => trainer'.seq = outstanding
  BY <1>0
<1>u. UNCHANGED <<started, globalId, packed, daemon, requests, results, outstanding, first, delivered>>
  BY DEF EnterGetBatch
<1>1. Types'
  <2>1. globalId' \in Nat /\ packed' \in Nat /\ first' \in Nat /\ outstanding' \in Nat \cup {None}
    BY <1>0, <1>a, <1>u
  <2>2. delivered' \in Seq([seq : Nat, item : Nat])
    BY <1>0, <1>a, <1>u
  <2>3. requests' \in Seq(Nat \cup {Close})
    BY <1>0, <1>a, <1>u
  <2>4. results' \in Seq(Result \cup {Close})
    BY <1>0, <1>a, <1>u
  <2>5. daemon' \in [pc : DaemonPc, seq : Nat \cup {Close}, result : Result]
    BY <1>0, <1>a, <1>u
  <2>6. trainer' \in [pc : TrainerPc, seq : Nat, result : Result \cup {Close}]
    BY <1>0, <1>a, <1>u
  <2> QED BY <2>1, <2>2, <2>3, <2>4, <2>5, <2>6
<1>2. BeforeStart'
  BY <1>0, <1>a, <1>u
<1>3. Counted'
  BY <1>0, <1>a, <1>u
<1>4. OneQueued'
  BY <1>0, <1>a, <1>u
<1>5. DaemonHolds'
  BY <1>0, <1>a, <1>u
<1>6. OneReady'
  BY <1>0, <1>a, <1>u
<1>7. TrainerHolds'
  BY <1>0, <1>a, <1>u
<1>8. DeliveredInOrder'
  BY <1>0, <1>a, <1>u
<1> QED BY <1>1, <1>2, <1>3, <1>4, <1>5, <1>6, <1>7, <1>8

LEMMA ReceiveKeeps == ASSUME OneRequest, ReceiveResult PROVE OneRequest'
<1>a. /\ trainer.pc = "wait" /\ trainer' = [trainer EXCEPT !.pc = "examine", !.result = results[1]]
      /\ results[1] \in Result \cup {Close}
  BY TakeFirst DEF ReceiveResult
<1>b. /\ trainer'.pc = "examine" /\ trainer'.seq = trainer.seq /\ trainer'.result = results[1]
  BY <1>a
<1>c. results' \in Seq(Result \cup {Close})
  BY TakeFirst DEF ReceiveResult
<1>d. \A i \in Ready' : i \in Nat \ {0} /\ i + 1 \in Ready /\ results'[i] = results[i + 1]
  BY TakeFirst DEF ReceiveResult
<1>e. InHand' => 1 \in Ready
  BY <1>b, TakeFirst DEF ReceiveResult
<1>f. InHand' => Ready' = {}
  BY <1>d, <1>e
<1>u. UNCHANGED <<started, globalId, packed, daemon, requests, outstanding, first, delivered>>
  BY DEF ReceiveResult
<1>1. Types'
  <2>1. globalId' \in Nat /\ packed' \in Nat /\ first' \in Nat /\ outstanding' \in Nat \cup {None}
    BY <1>a, <1>b, <1>c, <1>d, <1>e, <1>f, <1>u
  <2>2. delivered' \in Seq([seq : Nat, item : Nat])
    BY <1>a, <1>b, <1>c, <1>d, <1>e, <1>f, <1>u
  <2>3. requests' \in Seq(Nat \cup {Close})
    BY <1>a, <1>b, <1>c, <1>d, <1>e, <1>f, <1>u
  <2>4. results' \in Seq(Result \cup {Close})
    BY <1>a, <1>b, <1>c, <1>d, <1>e, <1>f, <1>u
  <2>5. daemon' \in [pc : DaemonPc, seq : Nat \cup {Close}, result : Result]
    BY <1>a, <1>b, <1>c, <1>d, <1>e, <1>f, <1>u
  <2>6. trainer' \in [pc : TrainerPc, seq : Nat, result : Result \cup {Close}]
    BY <1>a, <1>b, <1>c, <1>d, <1>e, <1>f, <1>u
  <2> QED BY <2>1, <2>2, <2>3, <2>4, <2>5, <2>6
<1>2. BeforeStart'
  BY <1>a, <1>b, <1>c, <1>d, <1>e, <1>f, <1>u
<1>3. Counted'
  BY <1>a, <1>b, <1>c, <1>d, <1>e, <1>f, <1>u
<1>4. OneQueued'
  BY <1>a, <1>b, <1>c, <1>d, <1>e, <1>f, <1>u
<1>5. DaemonHolds'
  BY <1>a, <1>b, <1>c, <1>d, <1>e, <1>f, <1>u
<1>6. OneReady'
  <2> SUFFICES ASSUME NEW i \in Ready'
               PROVE  Answers(results[i])' /\ (\A j \in Ready' : j = i) /\ NotTaken'
    OBVIOUS
  <2>1. i \in Nat /\ i + 1 \in Ready /\ results'[i] = results[i + 1] /\ ~InHand'
    BY <1>d, <1>f
  <2>2. Answers(results[i])'
    BY <2>1, <1>u
  <2>3. ASSUME NEW j \in Ready' PROVE j = i
    <3>1. j \in Nat /\ j + 1 \in Ready
      BY <1>d
    <3>2. j + 1 = i + 1
      BY <2>1, <3>1
    <3> QED BY <2>1, <3>1, <3>2
  <2>4. NotTaken'
    BY <2>1, <1>b
  <2> QED BY <2>2, <2>3, <2>4
<1>7. TrainerHolds'
  BY <1>a, <1>b, <1>c, <1>d, <1>e, <1>f, <1>u
<1>8. DeliveredInOrder'
  BY <1>a, <1>b, <1>c, <1>d, <1>e, <1>f, <1>u
<1> QED BY <1>1, <1>2, <1>3, <1>4, <1>5, <1>6, <1>7, <1>8

LEMMA TimeoutKeeps == ASSUME OneRequest, Timeout PROVE OneRequest'
<1>1. Types'
  <2>1. globalId' \in Nat /\ packed' \in Nat /\ first' \in Nat /\ outstanding' \in Nat \cup {None}
    BY DEF Timeout
  <2>2. delivered' \in Seq([seq : Nat, item : Nat])
    BY DEF Timeout
  <2>3. requests' \in Seq(Nat \cup {Close})
    BY DEF Timeout
  <2>4. results' \in Seq(Result \cup {Close})
    BY DEF Timeout
  <2>5. daemon' \in [pc : DaemonPc, seq : Nat \cup {Close}, result : Result]
    BY DEF Timeout
  <2>6. trainer' \in [pc : TrainerPc, seq : Nat, result : Result \cup {Close}]
    BY DEF Timeout
  <2> QED BY <2>1, <2>2, <2>3, <2>4, <2>5, <2>6
<1>2. BeforeStart'
  BY DEF Timeout
<1>3. Counted'
  BY DEF Timeout
<1>4. OneQueued'
  BY DEF Timeout
<1>5. DaemonHolds'
  BY DEF Timeout
<1>6. OneReady'
  BY DEF Timeout
<1>7. TrainerHolds'
  BY DEF Timeout
<1>8. DeliveredInOrder'
  BY DEF Timeout
<1> QED BY <1>1, <1>2, <1>3, <1>4, <1>5, <1>6, <1>7, <1>8

LEMMA ExamineKeeps == ASSUME OneRequest, ExamineResult PROVE OneRequest'
<1>1. Types'
  <2>1. globalId' \in Nat /\ packed' \in Nat /\ first' \in Nat /\ outstanding' \in Nat \cup {None}
    BY DEF ExamineResult, Refused, Raise
  <2>2. delivered' \in Seq([seq : Nat, item : Nat])
    BY DEF ExamineResult, Refused, Raise
  <2>3. requests' \in Seq(Nat \cup {Close})
    BY DEF ExamineResult, Refused, Raise
  <2>4. results' \in Seq(Result \cup {Close})
    BY DEF ExamineResult, Refused, Raise
  <2>5. daemon' \in [pc : DaemonPc, seq : Nat \cup {Close}, result : Result]
    BY DEF ExamineResult, Refused, Raise
  <2>6. trainer' \in [pc : TrainerPc, seq : Nat, result : Result \cup {Close}]
    <3>1. CASE Refused
      BY <3>1 DEF ExamineResult, Raise
    <3>3. CASE ~Refused /\ trainer.result.outcome # "batch"
      BY <3>3 DEF ExamineResult, Raise
    <3>2. CASE ~Refused /\ trainer.result.outcome = "batch"
      BY <3>2 DEF ExamineResult
    <3> QED BY <3>1, <3>2, <3>3
  <2> QED BY <2>1, <2>2, <2>3, <2>4, <2>5, <2>6
<1>2. BeforeStart'
  BY DEF ExamineResult, Refused, Raise
<1>3. Counted'
  BY DEF ExamineResult, Refused, Raise
<1>4. OneQueued'
  BY DEF ExamineResult, Refused, Raise
<1>5. DaemonHolds'
  BY DEF ExamineResult, Refused, Raise
<1>6. OneReady'
  BY DEF ExamineResult, Refused, Raise
<1>7. TrainerHolds'
  BY DEF ExamineResult, Refused, Raise
<1>8. DeliveredInOrder'
  BY DEF ExamineResult, Refused, Raise
<1> QED BY <1>1, <1>2, <1>3, <1>4, <1>5, <1>6, <1>7, <1>8

LEMMA RequestKeeps == ASSUME OneRequest, RequestNext PROVE OneRequest'
<1>1. Types'
  <2>1. globalId' \in Nat /\ packed' \in Nat /\ first' \in Nat /\ outstanding' \in Nat \cup {None}
    BY DEF RequestNext, Raise
  <2>2. delivered' \in Seq([seq : Nat, item : Nat])
    BY DEF RequestNext, Raise
  <2>3. requests' \in Seq(Nat \cup {Close})
    BY DEF RequestNext, Raise
  <2>4. results' \in Seq(Result \cup {Close})
    BY DEF RequestNext, Raise
  <2>5. daemon' \in [pc : DaemonPc, seq : Nat \cup {Close}, result : Result]
    BY DEF RequestNext, Raise
  <2>6. trainer' \in [pc : TrainerPc, seq : Nat, result : Result \cup {Close}]
    <3>1. CASE closed \/ outstanding # None
      BY <3>1 DEF RequestNext, Raise
    <3>2. CASE ~closed /\ outstanding = None
      <4>1. trainer' = [trainer EXCEPT !.pc = "submit"] /\ "submit" \in TrainerPc
        BY <3>2 DEF RequestNext
      <4>2. trainer \in [pc : TrainerPc, seq : Nat, result : Result \cup {Close}]
        OBVIOUS
      <4> HIDE DEF OneRequest, Types, TrainerPc, Result
      <4> QED BY <4>1, <4>2
    <3> QED BY <3>1, <3>2
  <2> QED BY <2>1, <2>2, <2>3, <2>4, <2>5, <2>6
<1>2. BeforeStart'
  BY DEF RequestNext, Raise
<1>3. Counted'
  BY DEF RequestNext, Raise
<1>4. OneQueued'
  BY DEF RequestNext, Raise
<1>5. DaemonHolds'
  BY DEF RequestNext, Raise
<1>6. OneReady'
  BY DEF RequestNext, Raise
<1>7. TrainerHolds'
  BY DEF RequestNext, Raise
<1>8. DeliveredInOrder'
  BY DEF RequestNext, Raise
<1> QED BY <1>1, <1>2, <1>3, <1>4, <1>5, <1>6, <1>7, <1>8

LEMMA SubmitKeeps == ASSUME OneRequest, SubmitAndYield PROVE OneRequest'
<1>a. Queued = {} /\ Ready = {} /\ ~WithDaemon /\ outstanding = globalId
  BY DEF SubmitAndYield
<1>q. \E k : Queued' = {k} /\ requests'[k] = outstanding
  BY <1>a, QueueOne DEF SubmitAndYield
<1>d. /\ delivered' = Append(delivered, [seq |-> first + Len(delivered), item |-> Len(delivered) + 1])
      /\ Len(delivered) \in Nat /\ Len(delivered') = Len(delivered) + 1
      /\ \A k \in 1..Len(delivered) : delivered'[k] = delivered[k]
      /\ delivered'[Len(delivered) + 1] = [seq |-> first + Len(delivered), item |-> Len(delivered) + 1]
  BY DEF SubmitAndYield
<1>1. Types'
  <2>1. globalId' \in Nat /\ packed' \in Nat /\ first' \in Nat /\ outstanding' \in Nat \cup {None}
    BY DEF SubmitAndYield
  <2>2. delivered' \in Seq([seq : Nat, item : Nat])
    BY DEF SubmitAndYield
  <2>3. requests' \in Seq(Nat \cup {Close})
    BY DEF SubmitAndYield
  <2>4. results' \in Seq(Result \cup {Close})
    BY DEF SubmitAndYield
  <2>5. daemon' \in [pc : DaemonPc, seq : Nat \cup {Close}, result : Result]
    BY DEF SubmitAndYield
  <2>6. trainer' \in [pc : TrainerPc, seq : Nat, result : Result \cup {Close}]
    BY DEF SubmitAndYield
  <2> QED BY <2>1, <2>2, <2>3, <2>4, <2>5, <2>6
<1>2. BeforeStart'
  BY DEF SubmitAndYield
<1>3. Counted'
  BY DEF SubmitAndYield
<1>4. OneQueued'
  BY <1>a, <1>q, <1>d DEF SubmitAndYield
<1>5. DaemonHolds'
  BY DEF SubmitAndYield
<1>6. OneReady'
  BY DEF SubmitAndYield
<1>7. TrainerHolds'
  BY DEF SubmitAndYield
<1>8. DeliveredInOrder'
  <2> SUFFICES ASSUME NEW k \in 1..Len(delivered')
               PROVE  delivered'[k] = [seq |-> first + k - 1, item |-> k]
    BY DEF SubmitAndYield
  <2>1. CASE k \in 1..Len(delivered)
    BY <1>d, <2>1
  <2>2. CASE k = Len(delivered) + 1
    BY <1>d, <2>2
  <2> QED BY <1>d, <2>1, <2>2
<1> QED BY <1>1, <1>2, <1>3, <1>4, <1>5, <1>6, <1>7, <1>8

LEMMA NextBatchKeeps == ASSUME OneRequest, NextBatch PROVE OneRequest'
<1>1. Types'
  <2>1. globalId' \in Nat /\ packed' \in Nat /\ first' \in Nat /\ outstanding' \in Nat \cup {None}
    BY DEF NextBatch
  <2>2. delivered' \in Seq([seq : Nat, item : Nat])
    BY DEF NextBatch
  <2>3. requests' \in Seq(Nat \cup {Close})
    BY DEF NextBatch
  <2>4. results' \in Seq(Result \cup {Close})
    BY DEF NextBatch
  <2>5. daemon' \in [pc : DaemonPc, seq : Nat \cup {Close}, result : Result]
    BY DEF NextBatch
  <2>6. trainer' \in [pc : TrainerPc, seq : Nat, result : Result \cup {Close}]
    BY DEF NextBatch
  <2> QED BY <2>1, <2>2, <2>3, <2>4, <2>5, <2>6
<1>2. BeforeStart'
  BY DEF NextBatch
<1>3. Counted'
  BY DEF NextBatch
<1>4. OneQueued'
  BY DEF NextBatch
<1>5. DaemonHolds'
  BY DEF NextBatch
<1>6. OneReady'
  BY DEF NextBatch
<1>7. TrainerHolds'
  BY DEF NextBatch
<1>8. DeliveredInOrder'
  BY DEF NextBatch
<1> QED BY <1>1, <1>2, <1>3, <1>4, <1>5, <1>6, <1>7, <1>8

LEMMA TakeKeeps == ASSUME OneRequest, TakeRequest PROVE OneRequest'
<1>q. requests # <<>> /\ requests' = Tail(requests) /\ requests \in Seq(Nat \cup {Close})
  BY DEF TakeRequest
<1>a. /\ daemon.pc = "take" /\ requests[1] \in Nat \cup {Close}
      /\ \/ daemon' = [daemon EXCEPT !.pc = "exited"]
         \/ /\ requests[1] # Close
            /\ daemon' = [daemon EXCEPT !.pc = "build", !.seq = requests[1]]
  BY TakeFirst DEF TakeRequest
<1>b. /\ daemon'.pc \in {"build", "exited"}
      /\ daemon'.pc = "build" => requests[1] # Close /\ daemon'.seq = requests[1]
  BY <1>a
<1>c. requests' \in Seq(Nat \cup {Close})
  BY TakeFirst DEF TakeRequest
<1>d. \A i \in Queued' : i \in Nat \ {0} /\ i + 1 \in Queued /\ requests'[i] = requests[i + 1]
  BY <1>q, TakeFirst
<1>e. daemon'.pc = "build" => 1 \in Queued
  BY <1>b, TakeFirst DEF TakeRequest
<1>f. daemon'.pc = "build" => Queued' = {}
  BY <1>d, <1>e
<1>u. UNCHANGED <<started, globalId, packed, trainer, results, outstanding, first, delivered>>
  BY DEF TakeRequest
<1>1. Types'
  <2>1. globalId' \in Nat /\ packed' \in Nat /\ first' \in Nat /\ outstanding' \in Nat \cup {None}
    BY <1>a, <1>b, <1>c, <1>d, <1>e, <1>f, <1>u
  <2>2. delivered' \in Seq([seq : Nat, item : Nat])
    BY <1>a, <1>b, <1>c, <1>d, <1>e, <1>f, <1>u
  <2>3. requests' \in Seq(Nat \cup {Close})
    BY <1>a, <1>b, <1>c, <1>d, <1>e, <1>f, <1>u
  <2>4. results' \in Seq(Result \cup {Close})
    BY <1>a, <1>b, <1>c, <1>d, <1>e, <1>f, <1>u
  <2>5. daemon' \in [pc : DaemonPc, seq : Nat \cup {Close}, result : Result]
    BY <1>a
  <2>6. trainer' \in [pc : TrainerPc, seq : Nat, result : Result \cup {Close}]
    BY <1>a, <1>b, <1>c, <1>d, <1>e, <1>f, <1>u
  <2> QED BY <2>1, <2>2, <2>3, <2>4, <2>5, <2>6
<1>2. BeforeStart'
  BY <1>a, <1>b, <1>c, <1>d, <1>e, <1>f, <1>u
<1>3. Counted'
  BY <1>a, <1>b, <1>c, <1>d, <1>e, <1>f, <1>u
<1>4. OneQueued'
  <2> SUFFICES ASSUME NEW i \in Queued'
               PROVE  /\ requests'[i] = outstanding /\ outstanding = first + Len(delivered)
                      /\ packed = Len(delivered)
                      /\ \A j \in Queued' : j = i
                      /\ ~WithDaemon' /\ Ready' = {} /\ NotTaken'
    BY <1>u
  <2>1. i \in Nat /\ i + 1 \in Queued /\ requests'[i] = requests[i + 1] /\ daemon'.pc = "exited"
    BY <1>b, <1>d, <1>f
  <2>2. \A j \in Queued' : j = i
    BY <2>1, <1>d
  <2> QED BY <2>1, <2>2, <1>u
<1>5. DaemonHolds'
  BY <1>a, <1>b, <1>c, <1>d, <1>e, <1>f, <1>u
<1>6. OneReady'
  BY <1>a, <1>b, <1>c, <1>d, <1>e, <1>f, <1>u
<1>7. TrainerHolds'
  BY <1>a, <1>b, <1>c, <1>d, <1>e, <1>f, <1>u
<1>8. DeliveredInOrder'
  BY <1>a, <1>b, <1>c, <1>d, <1>e, <1>f, <1>u
<1> QED BY <1>1, <1>2, <1>3, <1>4, <1>5, <1>6, <1>7, <1>8

LEMMA BuildKeeps == ASSUME OneRequest, BuildBatch PROVE OneRequest'
<1>a. PICK outcome \in Outcome, item \in Nat :
         /\ Built(outcome, item)
         /\ \/ outcome = "batch" /\ item = packed + 1 /\ packed' = packed + 1 /\ globalId' = globalId + 1
            \/ outcome # "batch" /\ UNCHANGED <<packed, globalId>>
  BY DEF BuildBatch, Outcome
<1>b. daemon.pc = "build" /\ daemon.seq \in Nat
  BY DEF BuildBatch
<1>c. [seq |-> daemon.seq, outcome |-> outcome, item |-> item] \in Result
  BY <1>b DEF Result
<1>d. /\ daemon'.pc = "publish" /\ daemon'.seq = daemon.seq
      /\ daemon'.result.seq = daemon.seq /\ daemon'.result.outcome = outcome /\ daemon'.result.item = item
  BY <1>a DEF Built
<1>u. UNCHANGED <<started, trainer, requests, results, outstanding, first, delivered>>
  BY DEF BuildBatch
<1>1. Types'
  <2>1. globalId' \in Nat /\ packed' \in Nat /\ first' \in Nat /\ outstanding' \in Nat \cup {None}
    BY <1>a, <1>b, <1>d, <1>u
  <2>2. delivered' \in Seq([seq : Nat, item : Nat])
    BY <1>a, <1>b, <1>d, <1>u
  <2>3. requests' \in Seq(Nat \cup {Close})
    BY <1>a, <1>b, <1>d, <1>u
  <2>4. results' \in Seq(Result \cup {Close})
    BY <1>a, <1>b, <1>d, <1>u
  <2>5. daemon' \in [pc : DaemonPc, seq : Nat \cup {Close}, result : Result]
    BY <1>a, <1>c DEF Built
  <2>6. trainer' \in [pc : TrainerPc, seq : Nat, result : Result \cup {Close}]
    BY <1>a, <1>b, <1>d, <1>u
  <2> QED BY <2>1, <2>2, <2>3, <2>4, <2>5, <2>6
<1>2. BeforeStart'
  BY <1>a, <1>b, <1>d, <1>u
<1>3. Counted'
  <2>1. packed = Len(delivered) /\ packed \in Nat /\ first \in Nat /\ globalId = first + packed
    BY <1>b
  <2>2. \/ packed' = packed + 1 /\ globalId' = globalId + 1
        \/ packed' = packed /\ globalId' = globalId
    BY <1>a
  <2>3. delivered' = delivered /\ first' = first
    BY <1>u
  <2> HIDE DEF OneRequest
  <2> QED BY <2>1, <2>2, <2>3
<1>4. OneQueued'
  BY <1>a, <1>b, <1>d, <1>u
<1>5. DaemonHolds'
  BY <1>a, <1>b, <1>d, <1>u
<1>6. OneReady'
  BY <1>a, <1>b, <1>d, <1>u
<1>7. TrainerHolds'
  BY <1>a, <1>b, <1>d, <1>u
<1>8. DeliveredInOrder'
  BY <1>a, <1>b, <1>d, <1>u
<1> QED BY <1>1, <1>2, <1>3, <1>4, <1>5, <1>6, <1>7, <1>8

LEMMA CheckKeeps == ASSUME OneRequest, CheckClosed PROVE OneRequest'
<1>1. Types'
  <2>1. globalId' \in Nat /\ packed' \in Nat /\ first' \in Nat /\ outstanding' \in Nat \cup {None}
    BY DEF CheckClosed
  <2>2. delivered' \in Seq([seq : Nat, item : Nat])
    BY DEF CheckClosed
  <2>3. requests' \in Seq(Nat \cup {Close})
    BY DEF CheckClosed
  <2>4. results' \in Seq(Result \cup {Close})
    BY DEF CheckClosed
  <2>5. daemon' \in [pc : DaemonPc, seq : Nat \cup {Close}, result : Result]
    BY DEF CheckClosed
  <2>6. trainer' \in [pc : TrainerPc, seq : Nat, result : Result \cup {Close}]
    BY DEF CheckClosed
  <2> QED BY <2>1, <2>2, <2>3, <2>4, <2>5, <2>6
<1>2. BeforeStart'
  BY DEF CheckClosed
<1>3. Counted'
  BY DEF CheckClosed
<1>4. OneQueued'
  BY DEF CheckClosed
<1>5. DaemonHolds'
  BY DEF CheckClosed
<1>6. OneReady'
  BY DEF CheckClosed
<1>7. TrainerHolds'
  BY DEF CheckClosed
<1>8. DeliveredInOrder'
  BY DEF CheckClosed
<1> QED BY <1>1, <1>2, <1>3, <1>4, <1>5, <1>6, <1>7, <1>8

LEMMA PutKeeps == ASSUME OneRequest, PutResult PROVE OneRequest'
<1>a. Ready = {} /\ Answers(daemon.result) /\ WithDaemon /\ NotTaken
  BY DEF PutResult
<1>q. \A i \in Ready' : results'[i] = daemon.result /\ \A j \in Ready' : j = i
  BY <1>a, ReadyOne DEF PutResult
<1>1. Types'
  <2>1. globalId' \in Nat /\ packed' \in Nat /\ first' \in Nat /\ outstanding' \in Nat \cup {None}
    BY DEF PutResult
  <2>2. delivered' \in Seq([seq : Nat, item : Nat])
    BY DEF PutResult
  <2>3. requests' \in Seq(Nat \cup {Close})
    BY DEF PutResult
  <2>4. results' \in Seq(Result \cup {Close})
    BY DEF PutResult
  <2>5. daemon' \in [pc : DaemonPc, seq : Nat \cup {Close}, result : Result]
    BY DEF PutResult
  <2>6. trainer' \in [pc : TrainerPc, seq : Nat, result : Result \cup {Close}]
    BY DEF PutResult
  <2> QED BY <2>1, <2>2, <2>3, <2>4, <2>5, <2>6
<1>2. BeforeStart'
  BY DEF PutResult
<1>3. Counted'
  BY DEF PutResult
<1>4. OneQueued'
  BY DEF PutResult
<1>5. DaemonHolds'
  BY DEF PutResult
<1>6. OneReady'
  <2> SUFFICES ASSUME NEW i \in Ready'
               PROVE  Answers(results[i])' /\ (\A j \in Ready' : j = i) /\ NotTaken'
    OBVIOUS
  <2>1. results'[i] = daemon.result /\ \A j \in Ready' : j = i
    BY <1>q
  <2>2. UNCHANGED <<trainer, outstanding, first, delivered, packed>>
    BY DEF PutResult
  <2> QED BY <1>a, <2>1, <2>2
<1>7. TrainerHolds'
  BY DEF PutResult
<1>8. DeliveredInOrder'
  BY DEF PutResult
<1> QED BY <1>1, <1>2, <1>3, <1>4, <1>5, <1>6, <1>7, <1>8

(* Closing adds the closing message to the queues and nothing else. *)
LEMMA CloseAdds ==
  ASSUME OneRequest, NEW pc, CloseStep(pc)
  PROVE  /\ requests' \in Seq(Nat \cup {Close}) /\ results' \in Seq(Result \cup {Close})
         /\ Queued' = Queued /\ \A i \in Queued : requests'[i] = requests[i]
         /\ Ready' = Ready /\ \A i \in Ready : results'[i] = results[i]
<1>1. CASE pc = "closeRequests"
  <2>1. /\ requests' = Append(requests, Close) /\ results' = results
        /\ requests \in Seq(Nat \cup {Close}) /\ results \in Seq(Result \cup {Close})
    BY <1>1 DEF CloseStep
  <2>2. Close \in Nat \cup {Close}
    OBVIOUS
  <2>3. /\ requests' \in Seq(Nat \cup {Close}) /\ Places(requests') = Places(requests)
        /\ \A i \in Places(requests) : requests'[i] = requests[i]
    BY <2>1, <2>2, AddClose
  <2> QED BY <2>1, <2>3
<1>2. CASE pc = "closeResults"
  <2>1. /\ results' = Append(results, Close) /\ requests' = requests
        /\ requests \in Seq(Nat \cup {Close}) /\ results \in Seq(Result \cup {Close})
    BY <1>2 DEF CloseStep
  <2>2. Close \in Result \cup {Close}
    OBVIOUS
  <2>3. /\ results' \in Seq(Result \cup {Close}) /\ Places(results') = Places(results)
        /\ \A i \in Places(results) : results'[i] = results[i]
    BY <2>1, <2>2, AddClose
  <2> QED BY <2>1, <2>3
<1>3. CASE pc \in {"closeTest", "closeSet"}
  BY <1>3 DEF CloseStep
<1> QED BY <1>1, <1>2, <1>3 DEF CloseStep

(* The invariant does not look at the closing messages. *)
LEMMA ClosingKeeps ==
  ASSUME OneRequest, started, UNCHANGED <<started, globalId, packed, daemon, outstanding, first, delivered>>,
         UNCHANGED trainer \/ (trainer.pc \in ClosePc /\ \E pc \in ClosePc \cup {"loop"} : trainer' = [trainer EXCEPT !.pc = pc]),
         NEW at, CloseStep(at)
  PROVE  OneRequest'
<1>a. /\ trainer' \in [pc : TrainerPc, seq : Nat, result : Result \cup {Close}]
      /\ trainer'.result = trainer.result /\ trainer'.seq = trainer.seq
      /\ trainer'.pc = trainer.pc \/ (trainer.pc \in ClosePc /\ trainer'.pc \in ClosePc \cup {"loop"})
  OBVIOUS
<1>b. /\ requests' \in Seq(Nat \cup {Close}) /\ results' \in Seq(Result \cup {Close})
      /\ Queued' = Queued /\ \A i \in Queued : requests'[i] = requests[i]
      /\ Ready' = Ready /\ \A i \in Ready : results'[i] = results[i]
  BY CloseAdds
<1>1. Types'
  <2>1. globalId' \in Nat /\ packed' \in Nat /\ first' \in Nat /\ outstanding' \in Nat \cup {None}
    BY <1>a, <1>b
  <2>2. delivered' \in Seq([seq : Nat, item : Nat])
    BY <1>a, <1>b
  <2>3. requests' \in Seq(Nat \cup {Close})
    BY <1>a, <1>b
  <2>4. results' \in Seq(Result \cup {Close})
    BY <1>a, <1>b
  <2>5. daemon' \in [pc : DaemonPc, seq : Nat \cup {Close}, result : Result]
    BY <1>a, <1>b
  <2>6. trainer' \in [pc : TrainerPc, seq : Nat, result : Result \cup {Close}]
    BY <1>a, <1>b
  <2> QED BY <2>1, <2>2, <2>3, <2>4, <2>5, <2>6
<1>2. BeforeStart'
  BY <1>a, <1>b
<1>3. Counted'
  BY <1>a, <1>b
<1>4. OneQueued'
  BY <1>a, <1>b
<1>5. DaemonHolds'
  BY <1>a, <1>b
<1>6. OneReady'
  <2> SUFFICES ASSUME NEW i \in Ready'
               PROVE  Answers(results[i])' /\ (\A j \in Ready' : j = i) /\ NotTaken'
    OBVIOUS
  <2>1. i \in Ready /\ results'[i] = results[i]
    BY <1>b
  <2>2. Answers(results[i])'
    BY <2>1
  <2> QED BY <2>1, <2>2, <1>a, <1>b
<1>7. TrainerHolds'
  BY <1>a, <1>b
<1>8. DeliveredInOrder'
  BY <1>a, <1>b
<1> QED BY <1>1, <1>2, <1>3, <1>4, <1>5, <1>6, <1>7, <1>8

LEMMA CloseOnTimeoutKeeps == ASSUME OneRequest, CloseOnTimeout PROVE OneRequest'
<1>1. trainer.pc \in ClosePc /\ started
  BY DEF CloseOnTimeout, CloseStep
<1>2. AfterClose(trainer.pc, "loop") \in ClosePc \cup {"loop"}
  BY <1>1 DEF AfterClose
<1> QED BY <1>1, <1>2, ClosingKeeps DEF CloseOnTimeout

LEMMA CloseLoaderKeeps == ASSUME OneRequest, CloseLoader PROVE OneRequest'
<1>1. Types'
  <2>1. globalId' \in Nat /\ packed' \in Nat /\ first' \in Nat /\ outstanding' \in Nat \cup {None}
    BY DEF CloseLoader
  <2>2. delivered' \in Seq([seq : Nat, item : Nat])
    BY DEF CloseLoader
  <2>3. requests' \in Seq(Nat \cup {Close})
    BY DEF CloseLoader
  <2>4. results' \in Seq(Result \cup {Close})
    BY DEF CloseLoader
  <2>5. daemon' \in [pc : DaemonPc, seq : Nat \cup {Close}, result : Result]
    BY DEF CloseLoader
  <2>6. trainer' \in [pc : TrainerPc, seq : Nat, result : Result \cup {Close}]
    BY DEF CloseLoader
  <2> QED BY <2>1, <2>2, <2>3, <2>4, <2>5, <2>6
<1>2. BeforeStart'
  BY DEF CloseLoader
<1>3. Counted'
  BY DEF CloseLoader
<1>4. OneQueued'
  BY DEF CloseLoader
<1>5. DaemonHolds'
  BY DEF CloseLoader
<1>6. OneReady'
  BY DEF CloseLoader
<1>7. TrainerHolds'
  BY DEF CloseLoader
<1>8. DeliveredInOrder'
  BY DEF CloseLoader
<1> QED BY <1>1, <1>2, <1>3, <1>4, <1>5, <1>6, <1>7, <1>8

LEMMA CloseByOwnerKeeps == ASSUME OneRequest, CloseByOwner PROVE OneRequest'
<1>1. started /\ CloseStep(closer)
  BY DEF CloseByOwner, CloseStep
<1> QED BY <1>1, ClosingKeeps DEF CloseByOwner

LEMMA NextKeeps == OneRequest /\ [Next]_vars => OneRequest'
<1> SUFFICES ASSUME OneRequest, [Next]_vars PROVE OneRequest'
  OBVIOUS
<1>1. CASE UNCHANGED vars
  BY <1>1 DEF vars
<1>2. CASE Next
  BY <1>2, StartKeeps, IterateKeeps, EnterKeeps, ReceiveKeeps, TimeoutKeeps, ExamineKeeps,
     RequestKeeps, SubmitKeeps, NextBatchKeeps, CloseOnTimeoutKeeps, TakeKeeps, BuildKeeps,
     CheckKeeps, PutKeeps, CloseLoaderKeeps, CloseByOwnerKeeps
  DEF Next, TrainerStep, DaemonStep
<1> QED BY <1>1, <1>2

(* The one request is in one place: the inductive invariant of this module. *)
THEOREM OneRequestCorrect == Spec => []OneRequest
<1> HIDE DEF OneRequest
<1> QED BY InitOneRequest, NextKeeps, PTL DEF Spec

(* The trainer gets the batches the packing iterator yields in order, each  *)
(* once, under the sequence number it was packed with (get_batch, _run).    *)
THEOREM DeliveredInOrderCorrect == Spec => []DeliveredInOrder
<1>1. OneRequest => DeliveredInOrder
  OBVIOUS
<1> HIDE DEF OneRequest, DeliveredInOrder
<1> QED BY <1>1, OneRequestCorrect, PTL

(* The packing iterator is at most one batch ahead of the trainer           *)
(* (request_batch accepts one request at a time).                           *)
THEOREM OneAheadCorrect == Spec => []OneAhead
<1>1. OneRequest => OneAhead
  OBVIOUS
<1> HIDE DEF OneRequest, OneAhead
<1> QED BY <1>1, OneRequestCorrect, PTL

(* The trainer reads global_id for its next request only while the daemon   *)
(* is outside the packing loop, which writes it.                            *)
THEOREM PackingExclusiveCorrect == Spec => []PackingExclusive
<1>1. OneRequest => PackingExclusive
  BY DEF PackingExclusive
<1> HIDE DEF OneRequest, PackingExclusive
<1> QED BY <1>1, OneRequestCorrect, PTL

(* On an open builder no result has been replaced by the closing message:   *)
(* closed is set before either queue is woken.                              *)
Waking == {"closeRequests", "closeResults"}
OpenUnmarked ==
  /\ trainer.pc \in Waking \/ closer \in Waking => closed
  /\ ~closed => \A i \in 1..Len(results) : results[i] # Close
  /\ ~closed /\ trainer.pc = "examine" => trainer.result # Close

(* Once a wait has timed out, the trainer is closing the builder or is past *)
(* that, outside get_batch.                                                 *)
TimedOutCloses ==
  timedOut => \/ trainer.pc \in {"closeTest", "closeSet"}
              \/ closed /\ trainer.pc \in Waking \cup {"loop", "enter"}

Guarded == OneRequest /\ OpenUnmarked /\ TimedOutCloses

LEMMA InitGuarded == Init => Guarded
<1> HIDE DEF OneRequest
<1> QED BY InitOneRequest DEF Guarded, Init, OpenUnmarked, TimedOutCloses, Waking

LEMMA NextGuarded == Guarded /\ [Next]_vars => Guarded'
<1> SUFFICES ASSUME Guarded, [Next]_vars PROVE Guarded'
  OBVIOUS
<1>1. Types /\ BeforeStart
  BY DEF Guarded, OneRequest
<1>2. OneRequest'
  <2> HIDE DEF OneRequest
  <2> QED BY NextKeeps DEF Guarded
<1>3. OpenUnmarked /\ TimedOutCloses
  BY DEF Guarded
<1> HIDE DEF OneRequest, Guarded
<1> SUFFICES OpenUnmarked' /\ TimedOutCloses'
  BY <1>2 DEF Guarded
<1> USE DEF Types
<1>4. ASSUME UNCHANGED <<closed, closer, results, timedOut>>,
             \/ trainer' = trainer
             \/ \E pc \in {"loop", "enter", "wait", "request", "submit", "train", "closeTest"} :
                  trainer'.pc = pc /\ ~timedOut
             \/ closed /\ trainer'.pc = "loop"
             \/ trainer.pc = "loop" /\ trainer'.pc = "enter"
      PROVE  OpenUnmarked' /\ TimedOutCloses'
  BY <1>3, <1>4 DEF OpenUnmarked, TimedOutCloses, Waking
<1>5. CASE UNCHANGED vars
  BY <1>4, <1>5 DEF vars, queueVars, flagVars, historyVars
<1>6. CASE \E n \in Starts : SetStartIteration(n)
  BY <1>1, <1>3, <1>4, <1>6 DEF SetStartIteration, TimedOutCloses, Waking
<1>7. CASE Iterate
  BY <1>4, <1>7 DEF Iterate, StartBuilder, historyVars
<1>8. CASE EnterGetBatch
  <2>1. /\ UNCHANGED <<closed, closer, results, timedOut>> /\ trainer.pc = "enter"
        /\ \/ trainer'.pc = "loop" /\ (closed \/ ~timedOut)
           \/ trainer'.pc = "wait" /\ ~closed
    BY <1>1, <1>3, <1>8 DEF EnterGetBatch, Raise, queueVars, flagVars, historyVars, TimedOutCloses, Waking
  <2>2. ~closed => ~timedOut
    BY <1>3, <2>1 DEF TimedOutCloses, Waking
  <2> QED BY <1>4, <2>1, <2>2
<1>9. CASE ReceiveResult
  <2>1. /\ Head(results) = results[1] /\ Len(results) > 0 /\ Len(results) \in Nat
        /\ Len(Tail(results)) = Len(results) - 1
        /\ \A i \in 1..Len(Tail(results)) : Tail(results)[i] = results[i + 1]
    BY <1>1, <1>9 DEF ReceiveResult
  <2>2. ~closed => Head(results) # Close /\ \A i \in 1..Len(Tail(results)) : Tail(results)[i] # Close
    BY <1>3, <2>1 DEF OpenUnmarked
  <2>3. ~timedOut
    BY <1>3, <1>9 DEF ReceiveResult, TimedOutCloses, Waking
  <2> QED BY <1>1, <1>3, <1>9, <2>2, <2>3 DEF ReceiveResult, flagVars, historyVars, OpenUnmarked,
         TimedOutCloses, Waking
<1>10. CASE Timeout
  BY <1>1, <1>3, <1>10 DEF Timeout, queueVars, flagVars, OpenUnmarked, TimedOutCloses, Waking
<1>11. CASE ExamineResult \/ RequestNext \/ SubmitAndYield \/ NextBatch
  <2>1. trainer.pc \in {"examine", "request", "submit", "train"}
    BY <1>11 DEF ExamineResult, RequestNext, SubmitAndYield, NextBatch
  <2>2. ~timedOut
    BY <1>3, <2>1 DEF TimedOutCloses, Waking
  <2>3. /\ UNCHANGED <<closed, closer, results, timedOut>>
        /\ trainer'.pc \in {"loop", "request", "submit", "train", "enter"}
    BY <1>1, <1>11 DEF ExamineResult, RequestNext, SubmitAndYield, NextBatch, Raise, queueVars, flagVars, historyVars
  <2> QED BY <1>4, <2>2, <2>3
<1>12. CASE TakeRequest \/ BuildBatch \/ CheckClosed
  BY <1>4, <1>12 DEF TakeRequest, BuildBatch, CheckClosed, queueVars, flagVars, historyVars
<1>13. CASE PutResult
  <2>1. daemon.result \in Result /\ daemon.result # Close
    BY <1>1, CloseAssumption
  <2>2. /\ results' = Append(results, daemon.result) /\ results \in Seq(Result \cup {Close})
        /\ UNCHANGED <<closed, closer, trainer, timedOut>>
    BY <1>1, <1>13 DEF PutResult, flagVars, historyVars
  <2>3. ~closed => \A i \in 1..Len(results') : results'[i] # Close
    <3>1. /\ Len(results') = Len(results) + 1 /\ Len(results) \in Nat
          /\ \A i \in 1..Len(results) : results'[i] = results[i]
          /\ results'[Len(results) + 1] = daemon.result
      BY <2>1, <2>2
    <3> QED BY <1>3, <2>1, <3>1 DEF OpenUnmarked
  <2> QED BY <1>3, <2>2, <2>3 DEF OpenUnmarked, TimedOutCloses
<1>14. CASE CloseLoader
  BY <1>3, <1>14 DEF CloseLoader, queueVars, flagVars, historyVars, OpenUnmarked, TimedOutCloses, Waking
<1>15. ASSUME NEW pc \in ClosePc, CloseStep(pc),
              pc \in {"closeResults"} => closed,
              UNCHANGED timedOut
       PROVE  /\ closed => closed'
              /\ pc = "closeSet" => closed'
              /\ ~closed' => UNCHANGED results
  BY <1>15 DEF CloseStep, ClosePc
<1>16. CASE CloseOnTimeout
  <2>1. /\ trainer.pc \in ClosePc /\ CloseStep(trainer.pc)
        /\ trainer'.pc = AfterClose(trainer.pc, "loop") /\ UNCHANGED <<closer, timedOut>>
    BY <1>1, <1>16 DEF CloseOnTimeout, CloseStep, historyVars
  <2>2. /\ closed => closed'
        /\ trainer.pc = "closeSet" => closed'
        /\ ~closed' => UNCHANGED results
    BY <1>3, <1>15, <2>1 DEF OpenUnmarked, Waking
  <2>3. CASE trainer.pc = "closeTest"
    <3>1. trainer'.pc = IF closed THEN "loop" ELSE "closeSet"
      BY <2>1, <2>3 DEF AfterClose
    <3> QED BY <1>3, <2>1, <2>2, <2>3, <3>1 DEF OpenUnmarked, TimedOutCloses, Waking
  <2>4. CASE trainer.pc = "closeSet"
    <3>1. trainer'.pc = "closeRequests"
      BY <2>1, <2>4 DEF AfterClose
    <3> QED BY <1>3, <2>1, <2>2, <2>4, <3>1 DEF OpenUnmarked, TimedOutCloses, Waking
  <2>5. CASE trainer.pc = "closeRequests"
    <3>1. trainer'.pc = "closeResults"
      BY <2>1, <2>5 DEF AfterClose
    <3> QED BY <1>3, <2>1, <2>2, <2>5, <3>1 DEF OpenUnmarked, TimedOutCloses, Waking
  <2>6. CASE trainer.pc = "closeResults"
    <3>1. trainer'.pc = "loop"
      BY <2>1, <2>6 DEF AfterClose
    <3> QED BY <1>3, <2>1, <2>2, <2>6, <3>1 DEF OpenUnmarked, TimedOutCloses, Waking
  <2> QED BY <2>1, <2>3, <2>4, <2>5, <2>6 DEF ClosePc
<1>17. CASE CloseByOwner
  <2>1. /\ closer \in ClosePc /\ CloseStep(closer)
        /\ closer' = AfterClose(closer, "done") /\ UNCHANGED <<trainer, timedOut>>
    BY <1>17 DEF CloseByOwner, CloseStep, historyVars
  <2>2. /\ closed => closed'
        /\ closer = "closeSet" => closed'
        /\ ~closed' => UNCHANGED results
    BY <1>3, <1>15, <2>1 DEF OpenUnmarked, Waking
  <2>3. closer' \in Waking => closer \in Waking \/ closer = "closeSet"
    BY <2>1 DEF AfterClose, ClosePc, Waking
  <2> QED BY <1>3, <2>1, <2>2, <2>3 DEF OpenUnmarked, TimedOutCloses
<1> QED BY <1>5, <1>6, <1>7, <1>8, <1>9, <1>10, <1>11, <1>12, <1>13, <1>14, <1>16, <1>17
        DEF Next, TrainerStep, DaemonStep

LEMMA GuardedCorrect == Spec => []Guarded
BY InitGuarded, NextGuarded, PTL DEF Spec

(* A result the trainer takes from an open builder is a result, and that of *)
(* the request it waits for: the check of the sequence number in get_batch  *)
(* never fails, whoever closes the builder and when.                        *)
THEOREM AnswersItsRequestCorrect == Spec => []AnswersItsRequest
<1>1. Guarded => AnswersItsRequest
  BY DEF Guarded, OneRequest, OpenUnmarked, AnswersItsRequest, TrainerHolds, InHand, Answers
<1> QED BY <1>1, GuardedCorrect, PTL

(* After a TimeoutError no batch is handed out again, even to a client that *)
(* iterates once more.                                                      *)
THEOREM TimeoutTerminalCorrect == Spec => TimeoutTerminal
<1>1. Guarded /\ [Next]_vars => [timedOut => delivered' = delivered]_vars
  <2> SUFFICES ASSUME Guarded, Next, timedOut PROVE delivered' = delivered
    OBVIOUS
  <2>1. trainer.pc # "submit" /\ trainer.pc # "new"
    BY DEF Guarded, TimedOutCloses, Waking
  <2> QED BY <2>1 DEF Next, TrainerStep, DaemonStep, SetStartIteration, Iterate, EnterGetBatch,
         ReceiveResult, Timeout, ExamineResult, RequestNext, SubmitAndYield, NextBatch,
         CloseOnTimeout, TakeRequest, CheckClosed, PutResult, BuildBatch, CloseLoader, CloseByOwner,
         historyVars
<1> QED BY <1>1, GuardedCorrect, PTL DEF Spec, TimeoutTerminal
=============================================================================
