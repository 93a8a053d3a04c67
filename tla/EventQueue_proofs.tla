--------------------------- MODULE EventQueue_proofs ---------------------------
(***************************************************************************)
(* Proofs about EventQueue, for any number of producers and items, any     *)
(* capacity and any batch size.                                            *)
(***************************************************************************)
EXTENDS EventQueue, SequenceTheorems, TLAPS

(* Cutting the first n items off a sequence. *)
LEMMA CutProperties ==
  ASSUME NEW S, NEW seq \in Seq(S), NEW n \in 0..Len(seq)
  PROVE  /\ SubSeq(seq, 1, n) \in Seq(S)
         /\ SubSeq(seq, n + 1, Len(seq)) \in Seq(S)
         /\ Len(SubSeq(seq, n + 1, Len(seq))) = Len(seq) - n
<1>1. Len(seq) \in Nat /\ \A i \in 1..Len(seq) : seq[i] \in S
  BY LenProperties, ElementOfSeq
<1>2. SubSeq(seq, 1, n) \in Seq(S)
  BY <1>1, SubSeqProperties
<1>3. /\ SubSeq(seq, n + 1, Len(seq)) \in Seq(S)
      /\ Len(SubSeq(seq, n + 1, Len(seq)))
           = IF n + 1 <= Len(seq) THEN Len(seq) - (n + 1) + 1 ELSE 0
  <2>1. \A i \in (n + 1)..Len(seq) : seq[i] \in S
    BY <1>1
  <2> QED
    BY <1>1, <2>1, SubSeqProperties
<1> QED
  BY <1>1, <1>2, <1>3

LEMMA ItemsConcat ==
  ASSUME NEW s \in Seq(Items), NEW t \in Seq(Items), NEW u \in Seq(Items)
  PROVE  (s \o t) \o u = s \o (t \o u)
  BY ConcatAssociative, Z3

LEMMA TakeType ==
  ASSUME TypeOK, NEW n \in 0..Len(queue), TakeForCallback(n)
  PROVE  /\ queue' \in Seq(Items) /\ Len(queue') <= Len(queue)
         /\ current' \in Seq(Items)
         /\ taken' \in Seq(Items)
<1>1. Len(queue) \in Nat
  BY LenProperties DEF TypeOK
<1>2. /\ current' \in Seq(Items) /\ queue' \in Seq(Items)
      /\ Len(queue') = Len(queue) - n
  BY CutProperties DEF TakeForCallback, TypeOK
<1>3. taken' \in Seq(Items)
  BY <1>2, ConcatProperties DEF TakeForCallback, TypeOK
<1> QED
  BY <1>1, <1>2, <1>3

LEMMA BatchLimitType ==
  ASSUME TypeOK
  PROVE  BatchLimit \in 0..Len(queue) /\ Len(queue) \in Nat
  BY LenProperties DEF TypeOK, BatchLimit

LEMMA TypeInit == Init => TypeOK
<1> SUFFICES ASSUME Init PROVE TypeOK
  OBVIOUS
<1>1. <<>> \in Seq(Items) /\ Len(<<>>) = 0
  BY EmptySeq
<1>2. batchMode \in BOOLEAN /\ batchSize \in Nat
  <2>1. batchMode \in BOOLEAN
    BY Zenon DEF Init
  <2>2. batchSize = 0 \/ batchSize \in BatchSizes
    BY Zenon DEF Init
  <2>3. CASE batchSize = 0
    BY <2>1, <2>3
  <2>4. CASE batchSize \in BatchSizes
    BY <2>1, <2>4, BatchSizesAssumption
  <2> QED
    BY <2>2, <2>3, <2>4
<1>3. /\ queue \in Seq(Items) /\ (Cap > 0 => Len(queue) <= Cap)
      /\ current \in Seq(Items) /\ taken \in Seq(Items) /\ handled \in Seq(Items)
  BY <1>1, CapAssumption DEF Init
<1>4. /\ producer \in [Producers -> {"idle", "notify"}]
      /\ tried \in [Producers -> 0..MaxPush]
  BY MaxPushAssumption DEF Init
<1> QED
  BY <1>2, <1>3, <1>4 DEF Init, TypeOK, LoopStates, StopStates

LEMMA TypeStep == TypeOK /\ [Next]_vars => TypeOK'
<1> SUFFICES ASSUME TypeOK, [Next]_vars
             PROVE  TypeOK'
  OBVIOUS
<1>0. Len(queue) \in Nat
  BY LenProperties DEF TypeOK
<1> USE CapAssumption, MaxPushAssumption
<1>1. ASSUME NEW p \in Producers, Push(p)
      PROVE  TypeOK'
  <2>1. tried' \in [Producers -> 0..MaxPush] /\ tried'[p] \in 1..MaxPush
    BY <1>1 DEF Push, TypeOK
  <2>2. CASE UNCHANGED <<queue, producer>>
    BY <1>1, <2>1, <2>2 DEF Push, TypeOK, loopVars
  <2>3. CASE /\ HasRoom
             /\ queue' = Append(queue, <<p, tried'[p]>>)
             /\ producer' = [producer EXCEPT ![p] = "notify"]
    <3>1. <<p, tried'[p]>> \in Items
      BY <2>1 DEF Items
    <3>2. queue' \in Seq(Items) /\ (Cap > 0 => Len(queue') <= Cap)
      BY <1>0, <2>3, <3>1, AppendProperties DEF TypeOK, HasRoom
    <3>3. producer' \in [Producers -> {"idle", "notify"}]
      BY <2>3 DEF TypeOK
    <3> QED
      BY <1>1, <2>1, <3>2, <3>3 DEF Push, TypeOK, loopVars
  <2> QED
    BY <1>1, <2>2, <2>3 DEF Push
<1>2. ASSUME NEW p \in Producers, Notify(p)
      PROVE  TypeOK'
  BY <1>2 DEF Notify, TypeOK, loopVars
<1>3. CASE Dispatch
  BY <1>3 DEF Dispatch, TypeOK, LoopStates
<1>4. CASE CheckBreak
  BY <1>4 DEF CheckBreak, TypeOK, LoopStates
<1>5. CASE Trigger \/ ConsumeNotify
  BY <1>5 DEF Trigger, ConsumeNotify, TypeOK, LoopStates
<1>6. CASE ProcessSingle \/ ProcessBatch
  <2>1. UNCHANGED <<batchMode, batchSize, stopped, signalled, producer, tried,
                    break, stopper, handled>>
    BY <1>6 DEF ProcessSingle, ProcessBatch
  <2>2. CASE NothingToTake
    BY <2>1, <2>2 DEF NothingToTake, TypeOK, LoopStates
  <2>3. ASSUME NEW n \in 0..Len(queue), TakeForCallback(n)
        PROVE  TypeOK'
    <3>1. /\ queue' \in Seq(Items) /\ Len(queue') <= Len(queue)
          /\ current' \in Seq(Items)
          /\ taken' \in Seq(Items)
      BY <2>3, TakeType
    <3>2. Cap > 0 => Len(queue') <= Cap
      BY <1>0, <3>1, LenProperties DEF TypeOK
    <3> QED
      BY <2>1, <2>3, <3>1, <3>2 DEF TakeForCallback, TypeOK, LoopStates
  <2>4. queue # <<>> => 1 \in 0..Len(queue)
    BY <1>0, EmptySeq DEF TypeOK
  <2> QED
    BY <1>6, <2>2, <2>3, <2>4, BatchLimitType DEF ProcessSingle, ProcessBatch
<1>7. CASE CallbackDone
  <2>1. handled' \in Seq(Items) /\ current' \in Seq(Items)
    BY <1>7, ConcatProperties, EmptySeq DEF CallbackDone, TypeOK
  <2> QED
    BY <1>7, <2>1 DEF CallbackDone, TypeOK, LoopStates
<1>8. CASE StopQueue \/ StopNotify \/ StopLoop \/ Join
  BY <1>8 DEF StopQueue, StopNotify, StopLoop, Join, TypeOK, StopStates, loopVars
<1>9. CASE UNCHANGED vars
  BY <1>9 DEF vars, loopVars, TypeOK
<1> QED
  BY <1>1, <1>2, <1>3, <1>4, <1>5, <1>6, <1>7, <1>8, <1>9 DEF Next, Consume

(* The queue never holds more than max_size_, and all state is well typed. *)
THEOREM TypeCorrect == Spec => []TypeOK
  BY TypeInit, TypeStep, PTL DEF Spec

-----------------------------------------------------------------------------
(* One step can't leave items behind an unsignalled, waiting consumer. *)
LEMMA WakeupStep == TypeOK /\ NoLostWakeup /\ [Next]_vars => NoLostWakeup'
<1> SUFFICES ASSUME TypeOK, NoLostWakeup, [Next]_vars,
                    queue' # <<>>, ~(batchMode' /\ batchSize' > 0)
             PROVE  \/ signalled'
                    \/ \E p \in Producers : producer'[p] = "notify"
                    \/ loop' = "process"
                    \/ loop' = "callback" /\ ~batchMode'
                    \/ loop' = "exited"
  BY DEF NoLostWakeup
<1>0. UNCHANGED <<batchMode, batchSize>>
  BY DEF Next, Push, Notify, Consume, Dispatch, CheckBreak, Trigger,
         ConsumeNotify, ProcessSingle, ProcessBatch, CallbackDone,
         StopQueue, StopNotify, StopLoop, Join, vars
<1>1. ASSUME NEW p \in Producers, Push(p)
      PROVE  producer'[p] = "notify" \/ UNCHANGED <<queue, producer, signalled, loop>>
  BY <1>1 DEF Push, TypeOK, loopVars
<1>2. ASSUME NEW p \in Producers, Notify(p)
      PROVE  signalled'
  BY <1>2 DEF Notify
<1>3. CASE UNCHANGED <<queue, producer, signalled, loop>>
  BY <1>0, <1>3 DEF NoLostWakeup
<1>4. CASE Dispatch \/ CheckBreak \/ Trigger
  BY <1>0, <1>4 DEF Dispatch, CheckBreak, Trigger, NoLostWakeup
<1>5. CASE ConsumeNotify
  BY <1>5 DEF ConsumeNotify
<1>6. CASE ProcessSingle
  BY <1>0, <1>6 DEF ProcessSingle, TakeForCallback, NothingToTake
<1>7. CASE ProcessBatch
  <2>1. batchSize = 0
    BY <1>0, <1>7 DEF ProcessBatch, TypeOK
  <2>2. BatchLimit = Len(queue) /\ Len(queue) \in Nat
    BY <2>1, BatchLimitType DEF BatchLimit
  <2>3. SubSeq(queue, Len(queue) + 1, Len(queue)) = <<>>
    BY <2>2, SubSeqEmpty
  <2> QED
    BY <1>7, <2>2, <2>3 DEF ProcessBatch, TakeForCallback, NothingToTake
<1>8. CASE CallbackDone
  BY <1>0, <1>8 DEF CallbackDone, NoLostWakeup
<1>9. CASE StopNotify
  BY <1>9 DEF StopNotify
<1>10. CASE StopQueue \/ StopLoop \/ Join \/ UNCHANGED vars
  BY <1>3, <1>10 DEF StopQueue, StopLoop, Join, vars, loopVars
<1> QED
  BY <1>1, <1>2, <1>3, <1>4, <1>5, <1>6, <1>7, <1>8, <1>9, <1>10 DEF Next, Consume

(* Items that wait are always about to be looked at: the notification that
   Push sends after releasing the lock is never lost. *)
THEOREM WakeupsAreNotLost == Spec => []NoLostWakeup
<1>1. Init => NoLostWakeup
  BY DEF Init, NoLostWakeup
<1> QED
  BY <1>1, TypeInit, TypeStep, WakeupStep, PTL DEF Spec

-----------------------------------------------------------------------------
(* All items that got into the queue: finished, in the callback, waiting. *)
Pushed == handled \o current \o queue

(* What the order needs besides itself: the callback has items only while it
   runs, and no pushed item is newer than its producer's last try. *)
PushedInv ==
  /\ loop # "callback" => current = <<>>
  /\ taken = handled \o current
  /\ \A i \in DOMAIN Pushed : Pushed[i][2] <= tried[Pushed[i][1]]
  /\ \A i, j \in DOMAIN Pushed :
       i < j /\ Pushed[i][1] = Pushed[j][1] => Pushed[i][2] < Pushed[j][2]

LEMMA PushedType ==
  ASSUME TypeOK
  PROVE  /\ Pushed \in Seq(Items) /\ Len(Pushed) \in Nat
         /\ DOMAIN Pushed = 1..Len(Pushed)
         /\ \A i \in DOMAIN Pushed : /\ Pushed[i][1] \in Producers
                                     /\ Pushed[i][2] \in Nat
<1>1. Pushed \in Seq(Items)
  BY ConcatProperties DEF TypeOK, Pushed
<1>2. Len(Pushed) \in Nat /\ DOMAIN Pushed = 1..Len(Pushed)
  BY <1>1, LenProperties
<1>3. \A i \in DOMAIN Pushed : Pushed[i] \in Items
  BY <1>1, <1>2, ElementOfSeq
<1> QED
  BY <1>1, <1>2, <1>3, MaxPushAssumption DEF Items

(* A step that pushes nothing and after which the items are where they were. *)
LEMMA PushedSame ==
  ASSUME PushedInv, Pushed' = Pushed, tried' = tried, taken' = handled' \o current',
         loop' # "callback" => current' = <<>>
  PROVE  PushedInv'
  BY DEF PushedInv

LEMMA PushedPush ==
  ASSUME TypeOK, TypeOK', PushedInv, NEW p \in Producers, Push(p)
  PROVE  PushedInv'
<1> DEFINE x == <<p, tried[p] + 1>>
<1>1. /\ loop' # "callback" => current' = <<>>
      /\ taken' = handled' \o current'
  BY DEF Push, PushedInv, loopVars
<1>2. tried[p] \in Nat /\ tried' = [tried EXCEPT ![p] = @ + 1]
  BY MaxPushAssumption DEF Push, TypeOK
<1>3. \A q \in Producers : tried[q] \in Nat /\ tried'[q] \in Nat /\ tried[q] <= tried'[q]
  BY <1>2, MaxPushAssumption DEF TypeOK
<1>4. CASE queue' = queue
  <2>1. Pushed' = Pushed
    BY <1>4 DEF Pushed, Push, loopVars
  <2>2. \A i \in DOMAIN Pushed : Pushed[i][2] <= tried'[Pushed[i][1]]
    BY <1>3, PushedType DEF PushedInv
  <2> QED
    BY <1>1, <2>1, <2>2 DEF PushedInv
<1>5. CASE queue' = Append(queue, <<p, tried'[p]>>)
  <2>1. queue' = Append(queue, x) /\ x \in Items
    BY <1>2, <1>5, MaxPushAssumption DEF TypeOK, Items, Push
  <2>2. Pushed' = Append(Pushed, x)
    <3> HIDE DEF x
    <3>1. queue' = queue \o <<x>> /\ <<x>> \in Seq(Items)
      <4>1. queue \in Seq(Items)
        BY DEF TypeOK
      <4>2. Append(queue, x) = queue \o <<x>>
        BY <2>1, <4>1, AppendIsConcat
      <4> QED
        BY <2>1, <4>2
    <3>2. handled \o current \in Seq(Items) /\ queue \in Seq(Items)
      BY ConcatProperties DEF TypeOK
    <3>3. Pushed' = (handled \o current) \o (queue \o <<x>>)
      BY <3>1 DEF Pushed, Push, loopVars
    <3>4. ((handled \o current) \o queue) \o <<x>> = (handled \o current) \o (queue \o <<x>>)
      <4> DEFINE front == handled \o current
      <4> HIDE DEF front
      <4> SUFFICES (front \o queue) \o <<x>> = front \o (queue \o <<x>>)
        BY DEF front
      <4>1. front \in Seq(Items) /\ queue \in Seq(Items) /\ <<x>> \in Seq(Items)
        BY <3>1, <3>2 DEF front
      <4> QED
        BY <4>1, ItemsConcat
    <3>5. Pushed' = Pushed \o <<x>>
      BY <3>3, <3>4 DEF Pushed
    <3> QED
      BY <2>1, <3>5, AppendIsConcat, PushedType
  <2>3. /\ DOMAIN Pushed' = 1..(Len(Pushed) + 1)
        /\ \A i \in DOMAIN Pushed : Pushed'[i] = Pushed[i]
        /\ Pushed'[Len(Pushed) + 1] = x
    BY <2>1, <2>2, PushedType, AppendProperties, LenProperties
  <2>4. \A i \in DOMAIN Pushed' : i \in DOMAIN Pushed \/ i = Len(Pushed) + 1
    BY <2>3, PushedType
  <2>5. x[1] = p /\ x[2] = tried[p] + 1 /\ tried'[p] = tried[p] + 1
    BY <1>2 DEF TypeOK
  <2> HIDE DEF x
  <2>6. \A i \in DOMAIN Pushed' : Pushed'[i][2] <= tried'[Pushed'[i][1]]
    <3> SUFFICES ASSUME NEW i \in DOMAIN Pushed'
                 PROVE  Pushed'[i][2] <= tried'[Pushed'[i][1]]
      OBVIOUS
    <3>1. CASE i \in DOMAIN Pushed
      <4>1. Pushed[i][2] <= tried[Pushed[i][1]] /\ Pushed[i][1] \in Producers
            /\ Pushed[i][2] \in Nat
        BY <3>1, PushedType DEF PushedInv
      <4> QED
        BY <1>3, <2>3, <3>1, <4>1
    <3>2. CASE i = Len(Pushed) + 1
      BY <1>3, <2>3, <2>5, <3>2
    <3> QED
      BY <2>4, <3>1, <3>2
  <2>7. \A i, j \in DOMAIN Pushed' :
          i < j /\ Pushed'[i][1] = Pushed'[j][1] => Pushed'[i][2] < Pushed'[j][2]
    <3> SUFFICES ASSUME NEW i \in DOMAIN Pushed', NEW j \in DOMAIN Pushed',
                        i < j, Pushed'[i][1] = Pushed'[j][1]
                 PROVE  Pushed'[i][2] < Pushed'[j][2]
      OBVIOUS
    <3>1. i \in DOMAIN Pushed
      BY <2>3, PushedType
    <3>2. CASE j \in DOMAIN Pushed
      BY <2>3, <3>1, <3>2 DEF PushedInv
    <3>3. CASE j = Len(Pushed) + 1
      <4>1. Pushed[i][1] = p
        BY <2>3, <2>5, <3>1, <3>3
      <4>2. Pushed[i][2] <= tried[p] /\ Pushed[i][2] \in Nat
        BY <3>1, <4>1, PushedType DEF PushedInv
      <4> QED
        BY <1>2, <2>3, <2>5, <3>1, <3>3, <4>2
    <3> QED
      BY <2>4, <3>2, <3>3
  <2> QED
    BY <1>1, <2>6, <2>7 DEF PushedInv
<1> QED
  BY <1>4, <1>5 DEF Push

(* Taking n items leaves them where they were, behind the finished ones. *)
LEMMA PushedTake ==
  ASSUME TypeOK, PushedInv, loop # "callback", NEW n \in 0..Len(queue),
         TakeForCallback(n), UNCHANGED <<tried, handled>>
  PROVE  PushedInv'
<1>1. current = <<>> /\ taken = handled
  BY ConcatEmptySeq DEF PushedInv, TypeOK
<1>2. /\ current' \in Seq(Items) /\ queue' \in Seq(Items)
      /\ current' \o queue' = queue
  <2>1. Len(queue) \in Nat
    BY LenProperties DEF TypeOK
  <2>2. SubSeq(queue, 1, n) \o SubSeq(queue, n + 1, Len(queue)) = SubSeq(queue, 1, Len(queue))
    <3>1. /\ queue \in Seq(Items)
          /\ 1 \in 1..(Len(queue) + 1) /\ n \in (1 - 1)..Len(queue)
          /\ Len(queue) \in n..Len(queue)
      BY <2>1 DEF TypeOK
    <3> QED
      BY <3>1, ConcatAdjacentSubSeq
  <2> QED
    BY <2>2, CutProperties, SubSeqFull DEF TakeForCallback, TypeOK
<1>3. taken' = handled' \o current'
  BY <1>1 DEF TakeForCallback
<1>4. Pushed' = handled \o queue
  <2>1. handled \in Seq(Items) /\ handled' = handled
    BY DEF TypeOK
  <2>2. (handled \o current') \o queue' = handled \o (current' \o queue')
    BY <1>2, <2>1, ItemsConcat
  <2> QED
    BY <1>2, <2>1, <2>2 DEF Pushed
<1>5. Pushed = handled \o queue
  BY <1>1, ConcatEmptySeq DEF Pushed, TypeOK
<1> QED
  BY <1>3, <1>4, <1>5, PushedSame DEF TakeForCallback

LEMMA PushedStep ==
  ASSUME TypeOK, TypeOK', PushedInv, [Next]_vars
  PROVE  PushedInv'
<1>1. CASE \E p \in Producers : Push(p)
  BY <1>1, PushedPush
<1>2. CASE UNCHANGED <<queue, current, handled, taken, tried>>
           /\ (loop' = "callback" <=> loop = "callback")
  <2>1. Pushed' = Pushed
    BY <1>2 DEF Pushed
  <2> QED
    BY <1>2, <2>1, PushedSame DEF PushedInv
<1>3. CASE \/ \E p \in Producers : Notify(p)
           \/ Dispatch \/ CheckBreak \/ Trigger \/ ConsumeNotify
           \/ StopQueue \/ StopNotify \/ StopLoop \/ Join \/ UNCHANGED vars
  BY <1>2, <1>3 DEF Notify, Dispatch, CheckBreak, Trigger, ConsumeNotify, StopQueue,
                    StopNotify, StopLoop, Join, vars, loopVars
<1>4. CASE ProcessSingle \/ ProcessBatch
  <2>1. loop = "process" /\ UNCHANGED <<tried, handled>>
    BY <1>4 DEF ProcessSingle, ProcessBatch
  <2>2. CASE NothingToTake
    BY <1>2, <2>1, <2>2 DEF NothingToTake
  <2>3. ASSUME NEW n \in 0..Len(queue), TakeForCallback(n)
        PROVE  PushedInv'
    BY <2>1, <2>3, PushedTake
  <2>4. queue # <<>> => 1 \in 0..Len(queue)
    BY EmptySeq DEF TypeOK
  <2> QED
    BY <1>4, <2>2, <2>3, <2>4, BatchLimitType DEF ProcessSingle, ProcessBatch
<1>5. CASE CallbackDone
  <2>1. handled' = handled \o current /\ current' = <<>> /\ UNCHANGED <<queue, taken, tried>>
    BY <1>5 DEF CallbackDone
  <2>2. handled' \o current' = handled \o current
    <3>1. handled \o current \in Seq(Items)
      BY ConcatProperties DEF TypeOK
    <3> QED
      BY <2>1, <3>1, ConcatEmptySeq
  <2>3. Pushed' = Pushed /\ taken' = handled' \o current'
    BY <2>1, <2>2 DEF Pushed, PushedInv
  <2> QED
    BY <2>1, <2>3, PushedSame
<1> QED
  BY <1>1, <1>3, <1>4, <1>5 DEF Next, Consume

LEMMA PushedInit == Init => PushedInv
<1> SUFFICES ASSUME Init PROVE PushedInv
  OBVIOUS
<1>1. handled = <<>> /\ current = <<>> /\ queue = <<>> /\ taken = <<>>
  BY DEF Init
<1>2. handled \o current = <<>> /\ Pushed = <<>>
  BY <1>1, EmptySeq, ConcatEmptySeq DEF Pushed
<1>3. DOMAIN Pushed = {}
  BY <1>2
<1> QED
  BY <1>1, <1>2, <1>3 DEF PushedInv

(* Whatever producers, batches and the stop do in between, items reach the
   callback in the order of their pushes, none twice. *)
THEOREM ItemsKeepTheirOrder == Spec => []HandledInPushOrder
<1>1. PushedInv => HandledInPushOrder
  BY DEF PushedInv, HandledInPushOrder, Pushed
<1> QED
  BY <1>1, TypeInit, TypeStep, PushedInit, PushedStep, PTL DEF Spec

-----------------------------------------------------------------------------
(* EventQueue implements BoundedFifo. *)
LEMMA ImplementsPush ==
  ASSUME TypeOK, TypeOK', NEW p \in Producers, Push(p)
  PROVE  Abstract!Next \/ UNCHANGED Abstract!vars
<1>1. UNCHANGED <<taken, stopped>>
  BY DEF Push
<1>2. CASE /\ ~stopped /\ HasRoom
           /\ queue' = Append(queue, <<p, tried'[p]>>)
  <2>1. <<p, tried'[p]>> \in Items
    BY MaxPushAssumption DEF TypeOK, Push, Items
  <2> QED
    BY <1>1, <1>2, <2>1 DEF HasRoom, Abstract!Next, Abstract!Put
<1>3. CASE UNCHANGED queue
  BY <1>1, <1>3 DEF Abstract!vars
<1> QED
  BY <1>2, <1>3 DEF Push

LEMMA ImplementsTake ==
  ASSUME NEW n \in 1..Len(queue), TakeForCallback(n), UNCHANGED stopped
  PROVE  Abstract!Next
  BY DEF TakeForCallback, Abstract!Next, Abstract!Take

LEMMA ImplementsProcess ==
  ASSUME TypeOK, ProcessSingle \/ ProcessBatch
  PROVE  Abstract!Next \/ UNCHANGED Abstract!vars
<1>1. UNCHANGED stopped
  BY DEF ProcessSingle, ProcessBatch
<1>2. CASE NothingToTake
  BY <1>1, <1>2 DEF NothingToTake, Abstract!vars
<1>3. queue # <<>> => 1 \in 1..Len(queue) /\ BatchLimit \in 1..Len(queue)
  BY EmptySeq DEF TypeOK, BatchLimit
<1>4. CASE queue # <<>> /\ (TakeForCallback(1) \/ TakeForCallback(BatchLimit))
  BY <1>1, <1>3, <1>4, ImplementsTake
<1> QED
  BY <1>2, <1>4 DEF ProcessSingle, ProcessBatch

LEMMA ImplementsStep ==
  TypeOK /\ TypeOK' /\ [Next]_vars => [Abstract!Next]_(Abstract!vars)
<1> SUFFICES ASSUME TypeOK, TypeOK', [Next]_vars
             PROVE  Abstract!Next \/ UNCHANGED Abstract!vars
  OBVIOUS
<1>1. CASE UNCHANGED <<queue, taken, stopped>>
  BY <1>1 DEF Abstract!vars
<1>2. CASE \/ \E p \in Producers : Notify(p)
           \/ Dispatch \/ CheckBreak \/ Trigger \/ ConsumeNotify \/ CallbackDone
           \/ StopNotify \/ StopLoop \/ Join \/ UNCHANGED vars
  BY <1>1, <1>2 DEF Notify, Dispatch, CheckBreak, Trigger, ConsumeNotify, CallbackDone,
                    StopNotify, StopLoop, Join, vars, loopVars
<1>3. CASE StopQueue
  BY <1>3 DEF StopQueue, Abstract!Next, Abstract!Close
<1>4. CASE \E p \in Producers : Push(p)
  BY <1>4, ImplementsPush
<1>5. CASE ProcessSingle \/ ProcessBatch
  BY <1>5, ImplementsProcess
<1> QED
  BY <1>2, <1>3, <1>4, <1>5 DEF Next, Consume

(* Seen by its users, the queue with its loop is a bounded FIFO: what Push takes
   is given to the callback in order, and a stopped queue takes nothing. *)
THEOREM QueueImplementsBoundedFifo == Spec => Implements
<1>1. Init => Abstract!Init
  BY DEF Init, Abstract!Init
<1> QED
  BY <1>1, TypeInit, TypeStep, ImplementsStep, PTL DEF Spec, Implements, Abstract!Spec
=============================================================================
