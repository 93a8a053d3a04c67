------------------------- MODULE ReceiverCenter_proofs -------------------------
(***************************************************************************)
(* Proofs about ReceiverCenter, for every set of streams and every size of *)
(* its queue and heap; and in the end about ReceiveSide, which extends it, *)
(* for any symbols, K, threads and sizes of their queues.                  *)
(***************************************************************************)
EXTENDS ReceiveSide, FiniteSetTheorems, SequenceTheorems, WellFoundedInduction, TLAPS

(* A nonempty set of numbers has a least element. *)
LEMMA LeastExists ==
  ASSUME NEW S \in SUBSET Nat, S # {}
  PROVE  \E s \in S : \A t \in S : s <= t
<1> DEFINE R == {ss \in Nat \X Nat : ss[1] < ss[2]}
<1>1. IsWellFoundedOn(R, Nat)
  BY NatLessThanWellFounded DEF OpToRel
<1>2. PICK s \in S : \A t \in S : <<t, s>> \notin R
  <2> HIDE DEF R
  <2> QED
    BY <1>1, WFMin
<1>3. \A t \in S : ~(t < s)
  BY <1>2
<1> QED
  BY <1>3

(* The top of the heap is its least stream. *)
LEMMA TopIsLeast ==
  ASSUME NEW heap \in SUBSET Streams, heap # {}
  PROVE  Top(heap) \in heap /\ \A t \in heap : Top(heap) <= t
<1>1. heap \in SUBSET Nat
  BY StreamsAssumption
<1>2. \E s \in heap : \A t \in heap : s <= t
  BY <1>1, LeastExists
<1> QED
  BY <1>2 DEF Top

-----------------------------------------------------------------------------
(* What the callback's two outcomes do to the types. *)
LEMMA CallbackType ==
  ASSUME TypeOK, NEW s \in Streams, CallbackReturns(s) \/ CallbackThrows(s)
  PROVE  /\ next' \in Nat
         /\ threw' \in SUBSET Streams
         /\ delivered' \in Seq(Streams)
<1>1. CASE CallbackReturns(s)
  <2>1. Append(delivered, s) \in Seq(Streams)
    BY AppendProperties DEF TypeOK
  <2> QED
    BY <1>1, <2>1 DEF TypeOK, CallbackReturns
<1>2. CASE CallbackThrows(s)
  BY <1>2 DEF TypeOK, CallbackThrows
<1> QED
  BY <1>1, <1>2

LEMMA TypeStep == TypeOK /\ [Next]_vars => TypeOK'
<1> SUFFICES ASSUME TypeOK, [Next]_vars
             PROVE  TypeOK'
  OBVIOUS
<1> USE DEF TypeOK
<1>1. CASE CreateQueue
  BY <1>1 DEF CreateQueue
<1>2. ASSUME NEW s \in Streams, OnDecodeComplete(s)
      PROVE  TypeOK'
  <2>1. queue' \in Seq(Streams) /\ Len(queue') <= QueueCap
    <3>1. CASE QueueHasRoom /\ queue' = Append(queue, s)
      BY <3>1, AppendProperties, LenProperties, QueueCapAssumption DEF QueueHasRoom
    <3>2. CASE queue' = queue
      BY <3>2
    <3> QED
      BY <1>2, <3>1, <3>2 DEF OnDecodeComplete
  <2>2. decoded' \in SUBSET Streams /\ refused' \in SUBSET Streams
    BY <1>2 DEF OnDecodeComplete
  <2>3. UNCHANGED <<qstate, next, pending, pc, stale, threw, delivered>>
    BY <1>2 DEF OnDecodeComplete
  <2> QED
    BY <2>1, <2>2, <2>3
<1>3. CASE processDecodedItem
  <2> DEFINE s == Head(queue)
  <2>1. s \in Streams /\ queue' \in Seq(Streams) /\ Len(queue') <= QueueCap
    BY <1>3, HeadTailProperties, QueueCapAssumption DEF processDecodedItem
  <2>2. UNCHANGED <<qstate, decoded, refused>>
    BY <1>3 DEF processDecodedItem
  <2> HIDE DEF s
  <2>3. CASE DeliverNext(s)
    BY <1>3, <2>1, <2>2, <2>3, CallbackType DEF DeliverNext, processDecodedItem
  <2>4. CASE KeepEarly(s)
    <3>1. pending' \in SUBSET Streams /\ pending' # {}
      BY <2>1, <2>4 DEF KeepEarly
    <3>2. Top(pending') \in Nat
      BY <3>1, TopIsLeast, StreamsAssumption
    <3> QED
      BY <1>3, <2>1, <2>2, <2>4, <3>1, <3>2 DEF KeepEarly, processDecodedItem
  <2>5. CASE DropStale(s)
    BY <1>3, <2>1, <2>2, <2>5 DEF DropStale, processDecodedItem
  <2> QED
    BY <1>3, <2>3, <2>4, <2>5 DEF processDecodedItem, s
<1>4. CASE HandlePendingItems
  <2>1. CASE next \in pending /\ Top(pending) = next
    BY <1>4, <2>1, CallbackType DEF HandlePendingItems
  <2>2. CASE ~(next \in pending /\ Top(pending) = next)
    BY <1>4, <2>2 DEF HandlePendingItems
  <2> QED
    BY <2>1, <2>2
<1>5. CASE Stop
  BY <1>5 DEF Stop
<1>6. CASE ExitLoop
  BY <1>6 DEF ExitLoop
<1>7. CASE UNCHANGED vars
  BY <1>7 DEF vars
<1> QED
  BY <1>1, <1>2, <1>3, <1>4, <1>5, <1>6, <1>7 DEF Next

LEMMA TypeInit == Init => TypeOK
  BY EmptySeq, QueueCapAssumption DEF Init, TypeOK

(* The thread's state, the queue's bound and the histories keep their types. *)
THEOREM TypeCorrect == Spec => []TypeOK
  BY TypeInit, TypeStep, PTL DEF Spec

-----------------------------------------------------------------------------
(* Elements of a sequence that grows at its end or shrinks at its head. *)
LEMMA IdsOfAppend ==
  ASSUME NEW seq \in Seq(Streams), NEW s \in Streams
  PROVE  Ids(Append(seq, s)) = Ids(seq) \cup {s}
<1>1. /\ DOMAIN Append(seq, s) = 1..(Len(seq) + 1)
      /\ DOMAIN seq = 1..Len(seq)
      /\ Len(seq) \in Nat
      /\ \A i \in 1..Len(seq) : Append(seq, s)[i] = seq[i]
      /\ Append(seq, s)[Len(seq) + 1] = s
  BY AppendProperties, LenProperties
<1> QED
  BY <1>1 DEF Ids

Distinct(seq) == \A i, j \in DOMAIN seq : i # j => seq[i] # seq[j]

LEMMA DistinctAppend ==
  ASSUME NEW seq \in Seq(Streams), Distinct(seq), NEW s \in Streams,
         s \notin Ids(seq)
  PROVE  Distinct(Append(seq, s))
<1>1. /\ DOMAIN Append(seq, s) = 1..(Len(seq) + 1)
      /\ DOMAIN seq = 1..Len(seq)
      /\ Len(seq) \in Nat
      /\ \A i \in 1..Len(seq) : Append(seq, s)[i] = seq[i]
      /\ Append(seq, s)[Len(seq) + 1] = s
  BY AppendProperties, LenProperties
<1> QED
  BY <1>1 DEF Ids, Distinct

LEMMA DistinctTail ==
  ASSUME NEW seq \in Seq(Streams), seq # <<>>, Distinct(seq)
  PROVE  /\ Distinct(Tail(seq))
         /\ Head(seq) \in Ids(seq)
         /\ Ids(Tail(seq)) = Ids(seq) \ {Head(seq)}
<1>1. /\ DOMAIN Tail(seq) = 1..(Len(seq) - 1)
      /\ DOMAIN seq = 1..Len(seq)
      /\ Len(seq) \in Nat \ {0}
      /\ \A i \in 1..(Len(seq) - 1) : Tail(seq)[i] = seq[i + 1]
      /\ Head(seq) = seq[1]
  BY HeadTailProperties, LenProperties, EmptySeq
<1>2. Distinct(Tail(seq))
  BY <1>1 DEF Distinct
<1>3. Head(seq) \in Ids(seq)
  BY <1>1 DEF Ids
<1>4. ASSUME NEW s \in Ids(Tail(seq))
      PROVE  s \in Ids(seq) \ {Head(seq)}
  <2>1. PICK i \in 1..(Len(seq) - 1) : s = seq[i + 1]
    BY <1>1, <1>4 DEF Ids
  <2> QED
    BY <1>1, <2>1 DEF Ids, Distinct
<1>5. ASSUME NEW s \in Ids(seq), s # Head(seq)
      PROVE  s \in Ids(Tail(seq))
  <2>1. PICK i \in 1..Len(seq) : s = seq[i] /\ i # 1
    BY <1>1, <1>5 DEF Ids
  <2>2. i - 1 \in 1..(Len(seq) - 1) /\ Tail(seq)[i - 1] = s
    BY <1>1, <2>1
  <2> QED
    BY <1>1, <2>2 DEF Ids
<1> QED
  BY <1>2, <1>3, <1>4, <1>5

-----------------------------------------------------------------------------
(* Accounted, written out. *)
Cover == decoded = refused \cup InQueue \cup pending \cup Delivered
                     \cup stale \cup Lost

Apart ==
  /\ refused \cap (InQueue \cup pending \cup Delivered \cup stale \cup Lost) = {}
  /\ InQueue \cap (pending \cup Delivered \cup stale \cup Lost) = {}
  /\ pending \cap (Delivered \cup stale \cup Lost) = {}
  /\ Delivered \cap (stale \cup Lost) = {}
  /\ stale \cap Lost = {}

PlacesInv == Cover /\ Apart /\ Distinct(queue)

LEMMA PlacesAreAccounted == PlacesInv => Accounted
<1> SUFFICES ASSUME PlacesInv PROVE Accounted
  OBVIOUS
<1> DEFINE places == <<refused, InQueue, pending, Delivered, stale, Lost>>
<1>1. DOMAIN places = 1..6
  OBVIOUS
<1>2. UNION Ids(places) = places[1] \cup places[2] \cup places[3] \cup places[4]
                            \cup places[5] \cup places[6]
  <2> HIDE DEF places
  <2>1. Ids(places) = {places[1], places[2], places[3], places[4], places[5],
                       places[6]}
    BY <1>1 DEF Ids
  <2> QED
    BY <2>1
<1>3. decoded = UNION Ids(places)
  BY <1>2 DEF PlacesInv, Cover
<1>4. ASSUME NEW i \in 1..6, NEW j \in 1..6, i # j
      PROVE  places[i] \cap places[j] = {}
  BY <1>4 DEF PlacesInv, Apart
<1> QED
  BY <1>1, <1>3, <1>4 DEF Accounted

LEMMA PlacesInit == Init => PlacesInv
<1> SUFFICES ASSUME Init PROVE PlacesInv
  OBVIOUS
<1>1. InQueue = {} /\ Delivered = {} /\ Lost = {} /\ Distinct(queue)
  BY DEF Init, InQueue, Delivered, Lost, Ids, Distinct
<1> QED
  BY <1>1 DEF Init, PlacesInv, Cover, Apart

(* A newly decoded stream is put in the queue or refused. *)
LEMMA PlacesOnDecode ==
  ASSUME TypeOK, PlacesInv, NEW s \in Streams, OnDecodeComplete(s)
  PROVE  PlacesInv'
<1>1. /\ s \notin decoded
      /\ UNCHANGED <<pending, Delivered, stale, threw, Lost>>
      /\ decoded' = decoded \cup {s}
  BY DEF OnDecodeComplete, Delivered, Lost
<1>2. s \notin refused \cup InQueue \cup pending \cup Delivered \cup stale \cup Lost
  BY <1>1 DEF PlacesInv, Cover
<1>3. CASE queue' = Append(queue, s) /\ UNCHANGED refused
  <2>1. InQueue' = InQueue \cup {s}
    BY <1>3, IdsOfAppend DEF InQueue, TypeOK
  <2>2. Distinct(queue')
    BY <1>2, <1>3, DistinctAppend DEF InQueue, TypeOK, PlacesInv
  <2>3. Cover'
    BY <1>1, <1>3, <2>1 DEF PlacesInv, Cover
  <2>4. Apart'
    BY <1>1, <1>2, <1>3, <2>1 DEF PlacesInv, Apart
  <2> QED
    BY <2>2, <2>3, <2>4 DEF PlacesInv
<1>4. CASE refused' = refused \cup {s} /\ UNCHANGED queue
  <2>1. UNCHANGED InQueue /\ Distinct(queue')
    BY <1>4 DEF InQueue, PlacesInv
  <2>2. Cover'
    BY <1>1, <1>4, <2>1 DEF PlacesInv, Cover
  <2>3. Apart'
    BY <1>1, <1>2, <1>4, <2>1 DEF PlacesInv, Apart
  <2> QED
    BY <2>1, <2>2, <2>3 DEF PlacesInv
<1> QED
  BY <1>3, <1>4 DEF OnDecodeComplete

(* A callback that returns puts its stream among the delivered ones. *)
LEMMA DeliveredGrows ==
  ASSUME TypeOK, NEW s \in Streams, CallbackReturns(s)
  PROVE  Delivered' = Delivered \cup {s} /\ UNCHANGED threw
  BY IdsOfAppend DEF TypeOK, CallbackReturns, Delivered

(* The thread moves the queue's first stream to another place. *)
LEMMA PlacesProcess ==
  ASSUME TypeOK, PlacesInv, processDecodedItem
  PROVE  PlacesInv'
<1> DEFINE s == Head(queue)
<1>1. /\ s \in Streams /\ s \in InQueue
      /\ InQueue' = InQueue \ {s}
      /\ Distinct(queue')
      /\ UNCHANGED <<decoded, refused>>
  BY DistinctTail, HeadTailProperties
     DEF processDecodedItem, InQueue, PlacesInv, TypeOK
<1>2. DeliverNext(s) \/ KeepEarly(s) \/ DropStale(s)
  BY DEF processDecodedItem
<1> HIDE DEF s
<1>3. /\ s \notin refused \cup pending \cup Delivered \cup stale \cup Lost
      /\ s \notin threw
  BY <1>1 DEF PlacesInv, Apart, Lost
<1>4. CASE DeliverNext(s) /\ CallbackReturns(s)
  <2>1. /\ Delivered' = Delivered \cup {s}
        /\ UNCHANGED <<threw, pending, stale>>
    BY <1>1, <1>4, DeliveredGrows DEF DeliverNext
  <2>2. UNCHANGED Lost
    BY <1>3, <2>1 DEF Lost
  <2>3. Cover'
    BY <1>1, <2>1, <2>2 DEF PlacesInv, Cover
  <2>4. Apart'
    BY <1>1, <1>3, <2>1, <2>2 DEF PlacesInv, Apart
  <2> QED
    BY <1>1, <2>3, <2>4 DEF PlacesInv
<1>5. CASE DeliverNext(s) /\ CallbackThrows(s)
  <2>1. /\ threw' = threw \cup {s}
        /\ UNCHANGED <<Delivered, pending, stale>>
    BY <1>5 DEF DeliverNext, CallbackThrows, Delivered
  <2>2. Lost' = Lost \cup {s}
    BY <1>3, <2>1 DEF Lost
  <2>3. Cover'
    BY <1>1, <2>1, <2>2 DEF PlacesInv, Cover
  <2>4. Apart'
    BY <1>1, <1>3, <2>1, <2>2 DEF PlacesInv, Apart
  <2> QED
    BY <1>1, <2>3, <2>4 DEF PlacesInv
<1>6. CASE KeepEarly(s)
  <2>1. /\ pending' = pending \cup {s}
        /\ UNCHANGED <<Delivered, threw, stale>>
    BY <1>6 DEF KeepEarly, Delivered
  <2>2. UNCHANGED Lost
    BY <1>3, <2>1 DEF Lost
  <2>3. Cover'
    BY <1>1, <2>1, <2>2 DEF PlacesInv, Cover
  <2>4. Apart'
    BY <1>1, <1>3, <2>1, <2>2 DEF PlacesInv, Apart
  <2> QED
    BY <1>1, <2>3, <2>4 DEF PlacesInv
<1>7. CASE DropStale(s)
  <2>1. /\ stale' = stale \cup {s}
        /\ UNCHANGED <<Delivered, threw, pending, Lost>>
    BY <1>7 DEF DropStale, Delivered, Lost
  <2>2. Cover'
    BY <1>1, <2>1 DEF PlacesInv, Cover
  <2>3. Apart'
    BY <1>1, <1>3, <2>1 DEF PlacesInv, Apart
  <2> QED
    BY <1>1, <2>2, <2>3 DEF PlacesInv
<1> QED
  BY <1>2, <1>4, <1>5, <1>6, <1>7 DEF DeliverNext

(* Serving the heap moves its top to the delivered streams, or marks it. *)
LEMMA PlacesDrain ==
  ASSUME TypeOK, PlacesInv, HandlePendingItems
  PROVE  PlacesInv'
<1>1. /\ UNCHANGED <<decoded, refused, stale, InQueue>>
      /\ Distinct(queue')
  BY DEF HandlePendingItems, InQueue, PlacesInv
<1>2. CASE /\ next \in pending
           /\ CallbackReturns(next)
           /\ pending' = pending \ {next}
  <2>1. Delivered' = Delivered \cup {next} /\ UNCHANGED threw
    BY <1>2, DeliveredGrows DEF TypeOK
  <2>2. UNCHANGED Lost
    BY <1>2, <2>1 DEF Lost
  <2>3. Cover'
    BY <1>1, <1>2, <2>1, <2>2 DEF PlacesInv, Cover
  <2>4. Apart'
    BY <1>1, <1>2, <2>1, <2>2 DEF PlacesInv, Apart
  <2> QED
    BY <1>1, <2>3, <2>4 DEF PlacesInv
<1>3. CASE next \in pending /\ CallbackThrows(next) /\ UNCHANGED pending
  <2>1. UNCHANGED <<Delivered, Lost>>
    BY <1>3 DEF CallbackThrows, Delivered, Lost
  <2> QED
    BY <1>1, <1>3, <2>1 DEF PlacesInv, Cover, Apart
<1>4. CASE UNCHANGED <<pending, threw, delivered>>
  <2>1. UNCHANGED <<Delivered, Lost>>
    BY <1>4 DEF Delivered, Lost
  <2> QED
    BY <1>1, <1>4, <2>1 DEF PlacesInv, Cover, Apart
<1> QED
  BY <1>2, <1>3, <1>4 DEF HandlePendingItems

LEMMA PlacesStep == TypeOK /\ PlacesInv /\ [Next]_vars => PlacesInv'
<1> SUFFICES ASSUME TypeOK, PlacesInv, [Next]_vars
             PROVE  PlacesInv'
  OBVIOUS
<1>1. CASE UNCHANGED <<queue, pending, decoded, refused, stale, threw, delivered>>
  <2>1. UNCHANGED <<InQueue, Delivered, Lost>>
    BY <1>1 DEF InQueue, Delivered, Lost
  <2> QED
    BY <1>1, <2>1 DEF PlacesInv, Cover, Apart
<1>2. CASE CreateQueue \/ Stop \/ ExitLoop \/ UNCHANGED vars
  BY <1>1, <1>2 DEF CreateQueue, Stop, ExitLoop, vars
<1> QED
  BY <1>2, PlacesOnDecode, PlacesProcess, PlacesDrain DEF Next

(* Every decoded stream is refused, queued, held, delivered, dropped late or
   lost by its callback, and only one of these. *)
THEOREM NoStreamUnaccounted == Spec => []Accounted
  BY PlacesInit, PlacesStep, TypeStep, TypeInit, PlacesAreAccounted, PTL DEF Spec

-----------------------------------------------------------------------------
(* Nothing held is behind the next stream, everything delivered is. *)
BelowNext == \A i \in DOMAIN delivered : delivered[i] < next

OrderInv == HeldIsAhead /\ BelowNext /\ InOrder

LEMMA DeliveredAreNaturals ==
  ASSUME TypeOK
  PROVE  \A i \in DOMAIN delivered : delivered[i] \in Nat
  BY ElementOfSeq, LenProperties, StreamsAssumption DEF TypeOK

(* Delivering the next stream keeps the delivered ones ordered. *)
LEMMA DeliverKeepsOrder ==
  ASSUME TypeOK, BelowNext, InOrder, next \in Streams, CallbackReturns(next)
  PROVE  BelowNext' /\ InOrder'
<1>1. /\ delivered'[Len(delivered) + 1] = next
      /\ \A i \in 1..Len(delivered) : delivered'[i] = delivered[i]
      /\ DOMAIN delivered' = 1..(Len(delivered) + 1)
      /\ DOMAIN delivered = 1..Len(delivered)
      /\ Len(delivered) \in Nat
      /\ next' = next + 1
  BY AppendProperties, LenProperties DEF TypeOK, CallbackReturns
<1>2. \A i \in 1..Len(delivered) : delivered'[i] \in Nat /\ delivered'[i] < next
  BY <1>1, DeliveredAreNaturals DEF BelowNext
<1>3. BelowNext'
  BY <1>1, <1>2 DEF TypeOK, BelowNext
<1>4. ASSUME NEW i \in DOMAIN delivered', NEW j \in DOMAIN delivered', i < j
      PROVE  delivered'[i] < delivered'[j]
  <2>1. CASE j = Len(delivered) + 1
    <3>1. i \in 1..Len(delivered)
      BY <1>1, <1>4, <2>1
    <3> QED
      BY <1>1, <1>2, <2>1, <3>1
  <2>2. CASE j # Len(delivered) + 1
    <3>1. i \in DOMAIN delivered /\ j \in DOMAIN delivered
      BY <1>1, <1>4, <2>2
    <3>2. delivered[i] < delivered[j]
      BY <3>1, <1>4 DEF InOrder
    <3> QED
      BY <1>1, <3>1, <3>2
  <2> QED
    BY <2>1, <2>2
<1> QED
  BY <1>3, <1>4 DEF InOrder

(* When nothing is delivered, a next stream that doesn't go back keeps it. *)
LEMMA GrowthKeepsOrder ==
  ASSUME TypeOK, BelowNext, InOrder, UNCHANGED delivered,
         next' \in Nat, next <= next'
  PROVE  BelowNext' /\ InOrder'
  BY DeliveredAreNaturals DEF TypeOK, BelowNext, InOrder

LEMMA OrderProcess ==
  ASSUME TypeOK, PlacesInv, OrderInv, processDecodedItem
  PROVE  OrderInv'
<1> DEFINE s == Head(queue)
<1>1. s \in Streams /\ s \in Nat /\ s \notin pending
  BY DistinctTail, HeadTailProperties, StreamsAssumption
     DEF processDecodedItem, InQueue, PlacesInv, Apart, TypeOK
<1>2. (DeliverNext(s) \/ KeepEarly(s) \/ DropStale(s)) /\ pc = "idle"
  BY DEF processDecodedItem
<1>3. \A t \in pending : t \in Nat
  BY StreamsAssumption DEF TypeOK
<1> HIDE DEF s
<1>4. CASE DeliverNext(s) /\ CallbackReturns(s) /\ pc' = "drain"
  <2>1. BelowNext' /\ InOrder'
    BY <1>1, <1>4, DeliverKeepsOrder DEF DeliverNext, OrderInv
  <2>2. \A t \in pending' : t >= next'
    BY <1>1, <1>3, <1>4 DEF DeliverNext, CallbackReturns, OrderInv, HeldIsAhead, TypeOK
  <2> QED
    BY <1>4, <2>1, <2>2 DEF OrderInv, HeldIsAhead
<1>5. CASE DeliverNext(s) /\ CallbackThrows(s)
  <2>1. BelowNext' /\ InOrder'
    BY <1>5, GrowthKeepsOrder DEF CallbackThrows, OrderInv, TypeOK
  <2>2. HeldIsAhead'
    BY <1>2, <1>5 DEF DeliverNext, CallbackThrows, OrderInv, HeldIsAhead
  <2> QED
    BY <2>1, <2>2 DEF OrderInv
<1>6. CASE KeepEarly(s) /\ next' = Top(pending') /\ pc' = "drain"
  <2>1. pending' \in SUBSET Streams /\ pending' # {}
    BY <1>1, <1>6 DEF KeepEarly, TypeOK
  <2>2. next' \in pending' /\ \A t \in pending' : next' <= t
    BY <1>6, <2>1, TopIsLeast
  <2>3. next' \in Nat /\ next <= next'
    <3>1. \A t \in pending' : t \in Nat /\ next <= t
      BY <1>1, <1>3, <1>6 DEF KeepEarly, Early, OrderInv, HeldIsAhead, TypeOK
    <3> QED
      BY <2>2, <3>1
  <2>4. BelowNext' /\ InOrder'
    BY <1>6, <2>3, GrowthKeepsOrder DEF KeepEarly, OrderInv
  <2>5. HeldIsAhead'
    <3>1. \A t \in pending' : t \in Nat
      BY <2>1, StreamsAssumption
    <3> QED
      BY <1>6, <2>2, <2>3, <3>1 DEF HeldIsAhead
  <2> QED
    BY <2>4, <2>5 DEF OrderInv
<1>7. CASE KeepEarly(s) /\ UNCHANGED <<next, pc>>
  <2>1. BelowNext' /\ InOrder'
    BY <1>7, GrowthKeepsOrder DEF KeepEarly, OrderInv, TypeOK
  <2>2. HeldIsAhead'
    BY <1>1, <1>3, <1>7 DEF KeepEarly, Early, OrderInv, HeldIsAhead, TypeOK
  <2> QED
    BY <2>1, <2>2 DEF OrderInv
<1>8. CASE DropStale(s)
  BY <1>8, GrowthKeepsOrder DEF DropStale, OrderInv, HeldIsAhead, TypeOK
<1> QED
  BY <1>2, <1>4, <1>5, <1>6, <1>7, <1>8 DEF DeliverNext, KeepEarly

LEMMA NextIsOnTop ==
  ASSUME TypeOK, HeldIsAhead, next \in pending
  PROVE  Top(pending) = next
<1>1. Top(pending) \in pending /\ Top(pending) <= next
  BY TopIsLeast DEF TypeOK
<1>2. Top(pending) \in Nat /\ Top(pending) >= next /\ next \in Nat
  BY <1>1, StreamsAssumption DEF HeldIsAhead, TypeOK
<1> QED
  BY <1>1, <1>2

LEMMA OrderDrain ==
  ASSUME TypeOK, OrderInv, HandlePendingItems
  PROVE  OrderInv'
<1>1. \A t \in pending : t \in Nat
  BY StreamsAssumption DEF TypeOK
<1>2. CASE /\ next \in pending /\ CallbackReturns(next)
           /\ pending' = pending \ {next} /\ UNCHANGED pc
  <2>1. BelowNext' /\ InOrder'
    BY <1>2, DeliverKeepsOrder DEF OrderInv, TypeOK
  <2>2. \A t \in pending' : t >= next'
    BY <1>1, <1>2 DEF CallbackReturns, OrderInv, HeldIsAhead, TypeOK
  <2> QED
    BY <1>2, <2>1, <2>2 DEF HandlePendingItems, OrderInv, HeldIsAhead
<1>3. CASE next \in pending /\ CallbackThrows(next) /\ UNCHANGED pending
  <2>1. BelowNext' /\ InOrder'
    BY <1>3, GrowthKeepsOrder DEF CallbackThrows, OrderInv, TypeOK
  <2>2. HeldIsAhead'
    BY <1>3 DEF CallbackThrows, OrderInv, HeldIsAhead
  <2> QED
    BY <2>1, <2>2 DEF OrderInv
<1>4. CASE /\ ~(next \in pending /\ Top(pending) = next)
           /\ UNCHANGED <<pending, next, threw, delivered>>
  <2>1. BelowNext' /\ InOrder'
    BY <1>4, GrowthKeepsOrder DEF OrderInv, TypeOK
  <2>2. next \notin pending
    BY <1>4, NextIsOnTop DEF OrderInv
  <2>3. HeldIsAhead'
    BY <1>4, <2>2 DEF OrderInv, HeldIsAhead
  <2> QED
    BY <2>1, <2>3 DEF OrderInv
<1> QED
  BY <1>2, <1>3, <1>4 DEF HandlePendingItems

LEMMA OrderStep == TypeOK /\ PlacesInv /\ OrderInv /\ [Next]_vars => OrderInv'
<1> SUFFICES ASSUME TypeOK, PlacesInv, OrderInv, [Next]_vars
             PROVE  OrderInv'
  OBVIOUS
<1>1. CASE UNCHANGED <<next, delivered, pending, threw>>
           /\ (pc' = pc \/ pc # "drain")
  BY <1>1 DEF OrderInv, HeldIsAhead, BelowNext, InOrder
<1>2. CASE \/ CreateQueue \/ Stop \/ ExitLoop \/ UNCHANGED vars
           \/ \E s \in Streams : OnDecodeComplete(s)
  BY <1>1, <1>2 DEF CreateQueue, Stop, ExitLoop, OnDecodeComplete, vars
<1> QED
  BY <1>2, OrderProcess, OrderDrain DEF Next

LEMMA OrderInit == Init => OrderInv
  BY DEF Init, OrderInv, HeldIsAhead, BelowNext, InOrder

(* The callback gets the streams in increasing order, each at most once, for
   every order in which the decoding threads report them. *)
THEOREM StreamsDeliveredInOrder == Spec => []InOrder
  BY TypeInit, TypeStep, PlacesInit, PlacesStep, OrderInit, OrderStep, PTL
     DEF Spec, OrderInv

(* Between two items, every held stream is ahead of the next expected one or
   is that one and its callback has thrown: nothing deliverable is left. *)
THEOREM NothingDeliverableIsHeld == Spec => []HeldIsAhead
  BY TypeInit, TypeStep, PlacesInit, PlacesStep, OrderInit, OrderStep, PTL
     DEF Spec, OrderInv

-----------------------------------------------------------------------------
(* Why a stream may be passed over: the heap that made next jump held
   MaxPending accepted streams, all of them later. *)
LEMMA AcceptedGrows ==
  ASSUME TypeOK, [Next]_vars
  PROVE  Accepted \subseteq Accepted'
  BY DEF Next, CreateQueue, OnDecodeComplete, processDecodedItem,
         HandlePendingItems, Stop, ExitLoop, vars, Accepted

LEMMA HeldAreAccepted ==
  ASSUME PlacesInv
  PROVE  pending \subseteq Accepted /\ InQueue \subseteq Accepted
  BY DEF PlacesInv, Cover, Apart, Accepted

(* The streams already passed over stay so, with as many later ones. *)
LEMMA ToleranceKept ==
  ASSUME TypeOK, TypeOK', ReorderTolerance, [Next]_vars,
         NEW s \in Streams, s < next, s \notin Delivered
  PROVE  Cardinality({t \in Accepted' : t > s}) >= MaxPending
<1> DEFINE before == {t \in Accepted : t > s}
           after == {t \in Accepted' : t > s}
<1>1. before \in SUBSET after
  BY AcceptedGrows
<1>2. IsFiniteSet(before) /\ IsFiniteSet(after)
  BY FS_Subset, StreamsAssumption DEF TypeOK, Accepted
<1>3. Cardinality(before) >= MaxPending
  BY DEF ReorderTolerance
<1> HIDE DEF before, after
<1>4. Cardinality(before) <= Cardinality(after)
  BY <1>1, <1>2, FS_Subset
<1>5. Cardinality(before) \in Nat /\ Cardinality(after) \in Nat
  BY <1>2, FS_CardinalityType
<1>6. Cardinality(after) >= MaxPending
  BY <1>3, <1>4, <1>5, MaxPendingAssumption
<1> QED
  BY <1>6 DEF after

(* A step that moves next past undelivered streams fills the heap. *)
LEMMA JumpNeedsFullHeap ==
  ASSUME TypeOK, [Next]_vars, next' # next
  PROVE  \/ next' = next + 1 /\ next \in Delivered'
         \/ /\ pending' # {} /\ pending' \in SUBSET Streams
            /\ next' = Top(pending')
            /\ Cardinality(pending') >= MaxPending
<1>1. CASE \E s \in Streams : CallbackReturns(s) /\ s = next
  <2>1. next' = next + 1 /\ Delivered' = Delivered \cup {next}
    BY <1>1, DeliveredGrows DEF CallbackReturns
  <2> QED
    BY <2>1
<1>2. CASE processDecodedItem
  <2> DEFINE s == Head(queue)
  <2>1. s \in Streams /\ (DeliverNext(s) \/ KeepEarly(s) \/ DropStale(s))
    BY <1>2, HeadTailProperties DEF processDecodedItem, TypeOK
  <2> HIDE DEF s
  <2>2. CASE DeliverNext(s)
    BY <1>1, <2>1, <2>2 DEF DeliverNext, CallbackThrows
  <2>3. CASE KeepEarly(s)
    BY <2>1, <2>3 DEF KeepEarly, HeapFull, TypeOK
  <2>4. CASE DropStale(s)
    BY <2>4 DEF DropStale
  <2> QED
    BY <2>1, <2>2, <2>3, <2>4
<1>3. CASE HandlePendingItems
  BY <1>1, <1>3 DEF HandlePendingItems, CallbackThrows, TypeOK
<1> QED
  BY <1>2, <1>3 DEF Next, CreateQueue, OnDecodeComplete, Stop, ExitLoop, vars

LEMMA ToleranceStep ==
  TypeOK /\ PlacesInv /\ OrderInv /\ ReorderTolerance /\ [Next]_vars
    => ReorderTolerance'
<1> SUFFICES ASSUME TypeOK, PlacesInv, OrderInv, ReorderTolerance, [Next]_vars,
                    NEW s \in Streams, s < next', s \notin Delivered'
             PROVE  Cardinality({t \in Accepted' : t > s}) >= MaxPending
  BY DEF ReorderTolerance
<1>1. TypeOK' /\ PlacesInv' /\ OrderInv'
  BY TypeStep, PlacesStep, OrderStep
<1>2. Delivered \subseteq Delivered'
  <2>1. CASE UNCHANGED delivered
    BY <2>1 DEF Delivered
  <2>2. CASE \E t \in Streams : CallbackReturns(t)
    BY <2>2, DeliveredGrows
  <2>3. CASE processDecodedItem
    <3>1. Head(queue) \in Streams
      BY <2>3, HeadTailProperties DEF processDecodedItem, TypeOK
    <3> QED
      BY <2>1, <2>2, <2>3, <3>1
         DEF processDecodedItem, DeliverNext, KeepEarly, DropStale, CallbackThrows
  <2>4. CASE HandlePendingItems
    BY <2>1, <2>2, <2>4 DEF HandlePendingItems, CallbackThrows, TypeOK
  <2> QED
    BY <2>1, <2>3, <2>4 DEF Next, CreateQueue, OnDecodeComplete, Stop, ExitLoop, vars
<1>3. CASE s < next
  BY <1>1, <1>2, <1>3, ToleranceKept
<1>4. CASE ~(s < next)
  <2>1. s \in Nat /\ next \in Nat /\ next' \in Nat
    BY <1>1, StreamsAssumption DEF TypeOK
  <2>2. next' # next /\ ~(next' = next + 1 /\ next \in Delivered')
    BY <1>4, <2>1
  <2>3. /\ pending' # {} /\ pending' \in SUBSET Streams
        /\ next' = Top(pending')
        /\ Cardinality(pending') >= MaxPending
    BY <2>2, JumpNeedsFullHeap
  <2> DEFINE later == {t \in Accepted' : t > s}
  <2>4. pending' \in SUBSET later
    <3>1. pending' \subseteq Accepted'
      BY <1>1, HeldAreAccepted DEF PlacesInv, Cover, Apart, Accepted
    <3>2. \A t \in pending' : t \in Nat /\ next' <= t
      BY <2>3, TopIsLeast, StreamsAssumption
    <3> QED
      BY <2>1, <3>1, <3>2
  <2>5. IsFiniteSet(later) /\ IsFiniteSet(pending')
    BY <1>1, FS_Subset, StreamsAssumption DEF TypeOK, Accepted
  <2> HIDE DEF later
  <2>6. Cardinality(pending') <= Cardinality(later)
    BY <2>4, <2>5, FS_Subset
  <2>7. Cardinality(pending') \in Nat /\ Cardinality(later) \in Nat
    BY <2>5, FS_CardinalityType
  <2>8. Cardinality(later) >= MaxPending
    BY <2>3, <2>6, <2>7, MaxPendingAssumption
  <2> QED
    BY <2>8 DEF later
<1> QED
  BY <1>3, <1>4

LEMMA ToleranceInit == Init => ReorderTolerance
  BY StreamsAssumption DEF Init, ReorderTolerance

(* A stream is passed over undelivered only after MaxPending later streams
   were accepted: displacement by fewer never loses a stream. *)
THEOREM FewerLaterStreamsLoseNothing == Spec => []ReorderTolerance
  BY TypeInit, TypeStep, PlacesInit, PlacesStep, OrderInit, OrderStep,
     ToleranceInit, ToleranceStep, PTL DEF Spec

-----------------------------------------------------------------------------
(* The heap reaches max_priority_queue_size_ only while it is being served,
   and then its top is delivered. *)
HeapInv ==
  threw = {} =>
    \/ Cardinality(pending) < MaxPending
    \/ /\ pc = "drain" /\ next \in pending
       /\ Cardinality(pending) <= MaxPending

LEMMA HeldIsFinite ==
  ASSUME TypeOK
  PROVE  IsFiniteSet(pending) /\ Cardinality(pending) \in Nat
  BY FS_Subset, FS_CardinalityType, StreamsAssumption DEF TypeOK

LEMMA HeapProcess ==
  ASSUME TypeOK, HeapInv, processDecodedItem
  PROVE  HeapInv'
<1> DEFINE s == Head(queue)
<1>1. /\ s \in Streams /\ pc = "idle"
      /\ DeliverNext(s) \/ KeepEarly(s) \/ DropStale(s)
  BY HeadTailProperties DEF processDecodedItem, TypeOK
<1> HIDE DEF s
<1>2. CASE UNCHANGED pending /\ (threw' = {} => threw = {})
  BY <1>1, <1>2 DEF HeapInv
<1>3. CASE KeepEarly(s) /\ threw = {}
  <2>1. Cardinality(pending) < MaxPending
    BY <1>1, <1>3 DEF HeapInv
  <2>2. /\ IsFiniteSet(pending') /\ Cardinality(pending') \in Nat
        /\ Cardinality(pending') <= MaxPending
    BY <1>3, <2>1, HeldIsFinite, FS_AddElement, MaxPendingAssumption DEF KeepEarly
  <2>3. CASE HeapFull(pending')
    <3>1. pending' \in SUBSET Streams /\ pending' # {}
      BY <1>1, <1>3 DEF KeepEarly, TypeOK
    <3>2. next' \in pending' /\ pc' = "drain"
      BY <1>3, <2>3, <3>1, TopIsLeast DEF KeepEarly
    <3> QED
      BY <2>2, <3>2 DEF HeapInv
  <2>4. CASE ~HeapFull(pending')
    BY <2>2, <2>4, MaxPendingAssumption DEF HeapFull, HeapInv
  <2> QED
    BY <2>3, <2>4
<1> QED
  BY <1>1, <1>2, <1>3
     DEF DeliverNext, KeepEarly, DropStale, CallbackReturns, CallbackThrows, HeapInv

LEMMA HeapDrain ==
  ASSUME TypeOK, HeldIsAhead, HeapInv, HandlePendingItems
  PROVE  HeapInv'
<1>1. CASE /\ next \in pending /\ CallbackReturns(next)
           /\ pending' = pending \ {next}
  <2>1. Cardinality(pending') = Cardinality(pending) - 1
    BY <1>1, HeldIsFinite, FS_RemoveElement
  <2>2. threw' = {} => Cardinality(pending') < MaxPending
    BY <1>1, <2>1, HeldIsFinite, MaxPendingAssumption DEF HeapInv, CallbackReturns
  <2> QED
    BY <2>2 DEF HeapInv
<1>2. CASE CallbackThrows(next)
  BY <1>2 DEF CallbackThrows, HeapInv
<1>3. CASE /\ ~(next \in pending /\ Top(pending) = next)
           /\ UNCHANGED <<pending, threw>>
  BY <1>3, NextIsOnTop DEF HeapInv
<1> QED
  BY <1>1, <1>2, <1>3 DEF HandlePendingItems

LEMMA HeapStep == TypeOK /\ HeldIsAhead /\ HeapInv /\ [Next]_vars => HeapInv'
<1> SUFFICES ASSUME TypeOK, HeldIsAhead, HeapInv, [Next]_vars
             PROVE  HeapInv'
  OBVIOUS
<1>1. CASE /\ UNCHANGED <<next, pending, threw>>
           /\ (pc' = pc \/ pc # "drain")
  BY <1>1 DEF HeapInv
<1>2. CASE \/ CreateQueue \/ Stop \/ ExitLoop \/ UNCHANGED vars
           \/ \E s \in Streams : OnDecodeComplete(s)
  BY <1>1, <1>2 DEF CreateQueue, Stop, ExitLoop, OnDecodeComplete, vars
<1> QED
  BY <1>2, HeapProcess, HeapDrain DEF Next

LEMMA HeapInit == Init => HeapInv
  BY FS_EmptySet, MaxPendingAssumption DEF Init, HeapInv

(* Between two items fewer than max_priority_queue_size_ streams are held, as
   long as no callback has thrown. *)
THEOREM HeapStaysBelowItsLimit == Spec => []HeapBounded
<1>1. HeapInv => HeapBounded
  BY DEF HeapInv, HeapBounded
<1> QED
  BY <1>1, TypeInit, TypeStep, PlacesInit, PlacesStep, OrderInit, OrderStep,
     HeapInit, HeapStep, PTL DEF Spec, OrderInv

-----------------------------------------------------------------------------
(* The center implements InOrderDelivery. *)
(* InOrderDelivery's Cardinality is the one of FiniteSets. *)
LEMMA SameCardinality == \A S : Abstract!Cardinality(S) = Cardinality(S)
  BY DEF Abstract!Cardinality, Cardinality

LEMMA ImplementsOnDecode ==
  ASSUME TypeOK, PlacesInv, NEW s \in Streams, OnDecodeComplete(s)
  PROVE  Abstract!Offer(s) \/ UNCHANGED Abstract!vars
<1>1. s \notin Accepted /\ UNCHANGED <<next, delivered>>
  BY DEF OnDecodeComplete, Accepted
<1>2. Accepted' = Accepted \cup {s} \/ UNCHANGED Accepted
  BY DEF OnDecodeComplete, Accepted, PlacesInv, Cover
<1> QED
  BY <1>1, <1>2 DEF Abstract!Offer, Abstract!vars

LEMMA ImplementsDeliver ==
  ASSUME PlacesInv, next \in Accepted, CallbackReturns(next),
         UNCHANGED <<decoded, refused>>
  PROVE  Abstract!Deliver
  BY DEF CallbackReturns, Abstract!Deliver, Accepted

LEMMA ImplementsProcess ==
  ASSUME TypeOK, TypeOK', PlacesInv, PlacesInv', OrderInv, processDecodedItem
  PROVE  Abstract!Next \/ UNCHANGED Abstract!vars
<1> DEFINE s == Head(queue)
<1>1. s \in Streams /\ s \in Accepted
  BY DistinctTail, HeadTailProperties, HeldAreAccepted
     DEF processDecodedItem, InQueue, PlacesInv, TypeOK
<1>2. /\ DeliverNext(s) \/ KeepEarly(s) \/ DropStale(s)
      /\ UNCHANGED <<decoded, refused, Accepted>>
  BY DEF processDecodedItem, Accepted
<1> HIDE DEF s
<1>3. CASE DeliverNext(s) /\ CallbackReturns(s)
  BY <1>1, <1>2, <1>3, ImplementsDeliver DEF DeliverNext, Abstract!Next
<1>4. CASE UNCHANGED <<next, delivered>>
  BY <1>2, <1>4 DEF Abstract!vars
<1>5. CASE KeepEarly(s) /\ next' = Top(pending') /\ HeapFull(pending')
  <2>1. pending' # {} /\ pending' \in SUBSET Streams /\ pending' \subseteq Accepted
    <3>1. pending \subseteq Accepted
      BY HeldAreAccepted
    <3> QED
      BY <1>1, <1>5, <3>1 DEF KeepEarly, TypeOK
  <2>2. next' \in pending' /\ \A t \in pending' : t >= next'
    <3>1. Top(pending') \in pending' /\ \A t \in pending' : Top(pending') <= t
      BY <2>1, TopIsLeast
    <3>2. \A t \in pending' : t \in Nat
      BY <2>1, StreamsAssumption
    <3> QED
      BY <1>5, <3>1, <3>2
  <2>3. next' >= next /\ next' \in Nat /\ next \in Nat
    BY <1>1, <1>5, <2>2, StreamsAssumption
       DEF KeepEarly, Early, OrderInv, HeldIsAhead, TypeOK
  <2> DEFINE later == {t \in Accepted : t >= next'}
  <2>4. Cardinality(later) >= MaxPending
    <3>1. pending' \in SUBSET later
      BY <2>1, <2>2
    <3>2. IsFiniteSet(later) /\ IsFiniteSet(pending')
      BY <2>1, FS_Subset, StreamsAssumption DEF TypeOK, Accepted
    <3> HIDE DEF later
    <3>3. Cardinality(pending') <= Cardinality(later)
      BY <3>1, <3>2, FS_Subset
    <3>4. Cardinality(pending') \in Nat /\ Cardinality(later) \in Nat
      BY <3>2, FS_CardinalityType
    <3> QED
      BY <1>5, <3>3, <3>4, MaxPendingAssumption DEF HeapFull
  <2>5. CASE next' = next
    BY <1>2, <1>5, <2>5 DEF KeepEarly, Abstract!vars
  <2>6. CASE next' # next
    <3>1. Abstract!GiveUpBelow(next')
      BY <1>2, <1>5, <2>1, <2>2, <2>3, <2>4, <2>6, SameCardinality
         DEF KeepEarly, Abstract!GiveUpBelow
    <3>2. next' \in Streams
      BY <2>1, <2>2
    <3> QED
      BY <3>1, <3>2 DEF Abstract!Next
  <2> QED
    BY <2>5, <2>6
<1> QED
  BY <1>2, <1>3, <1>4, <1>5 DEF DeliverNext, KeepEarly, DropStale, CallbackThrows

LEMMA ImplementsDrain ==
  ASSUME TypeOK, PlacesInv, HandlePendingItems
  PROVE  Abstract!Next \/ UNCHANGED Abstract!vars
<1>1. UNCHANGED <<decoded, refused, Accepted>>
  BY DEF HandlePendingItems, Accepted
<1>2. CASE next \in pending /\ CallbackReturns(next)
  <2>1. next \in Accepted
    BY <1>2, HeldAreAccepted
  <2> QED
    BY <1>1, <1>2, <2>1, ImplementsDeliver DEF Abstract!Next
<1>3. CASE UNCHANGED <<next, delivered>>
  BY <1>1, <1>3 DEF Abstract!vars
<1> QED
  BY <1>2, <1>3 DEF HandlePendingItems, CallbackThrows

LEMMA ImplementsStep ==
  TypeOK /\ PlacesInv /\ OrderInv /\ [Next]_vars
    => [Abstract!Next]_(Abstract!vars)
<1> SUFFICES ASSUME TypeOK, PlacesInv, OrderInv, [Next]_vars
             PROVE  Abstract!Next \/ UNCHANGED Abstract!vars
  OBVIOUS
<1>1. TypeOK' /\ PlacesInv'
  BY TypeStep, PlacesStep
<1>2. CASE UNCHANGED <<decoded, refused, next, delivered>>
  BY <1>2 DEF Abstract!vars, Accepted
<1>3. CASE CreateQueue \/ Stop \/ ExitLoop \/ UNCHANGED vars
  BY <1>2, <1>3 DEF CreateQueue, Stop, ExitLoop, vars
<1>4. CASE \E s \in Streams : OnDecodeComplete(s)
  BY <1>4, ImplementsOnDecode DEF Abstract!Next
<1> QED
  BY <1>1, <1>3, <1>4, ImplementsProcess, ImplementsDrain DEF Next

(* Every behaviour of the center is one of InOrderDelivery: streams go out in
   order and a gap is skipped only for MaxPending later streams. *)
THEOREM CenterImplementsInOrderDelivery == Spec => Implements
<1>1. Init => Abstract!Init
  BY DEF Init, Abstract!Init, Accepted
<1> QED
  BY <1>1, TypeInit, TypeStep, PlacesInit, PlacesStep, OrderInit, OrderStep,
     ImplementsStep, PTL DEF Spec, Implements, Abstract!Spec
-----------------------------------------------------------------------------
(* ReceiveSide.  The types of what the Receiver's threads hold. *)
PacketTypes ==
  /\ queues \in [Packets!Threads -> Seq(Packets!Datagrams)]
  /\ symbols \in [Packets!Threads -> [Streams -> SUBSET Symbols]]
  /\ done \in [Packets!Threads -> SUBSET Streams]
  /\ reports \in Seq(Streams)

AcceptedOf(s) == {i \in Symbols : <<s, i>> \in accepted}

(* What the queues and decoders hold was accepted and is of the thread's own
   streams; who is decoded had enough. *)
PacketQueues ==
  \A t \in Packets!Threads : \A i \in DOMAIN queues[t] :
    queues[t][i].kind = "symbol" =>
      /\ t = queues[t][i].stream % N
      /\ <<queues[t][i].stream, queues[t][i].symbol>> \in accepted

PacketDecoders ==
  /\ \A t \in Packets!Threads, s \in Streams :
       /\ {s} \X symbols[t][s] \subseteq accepted
       /\ s \in done[t] => t = s % N
  /\ \A s \in Packets!Decoded : Cardinality(AcceptedOf(s)) >= K

PacketInv == PacketTypes /\ PacketQueues /\ PacketDecoders

LEMMA OwnThread ==
  ASSUME NEW n \in Nat
  PROVE  n % N \in Packets!Threads
  BY NAssumption DEF Packets!Threads

LEMMA DatagramParts ==
  ASSUME NEW d \in Packets!Datagrams, d.kind = "symbol"
  PROVE  d.stream \in Streams /\ d.symbol \in Symbols
  BY DEF Packets!Datagrams

LEMMA FirstDatagram ==
  ASSUME NEW q \in Seq(Packets!Datagrams), q # <<>>
  PROVE  /\ Head(q) \in Packets!Datagrams
         /\ Head(q) = q[1] /\ 1 \in DOMAIN q
         /\ Tail(q) \in Seq(Packets!Datagrams)
         /\ \A i \in DOMAIN Tail(q) : i + 1 \in DOMAIN q /\ Tail(q)[i] = q[i + 1]
<1>1. Len(q) \in Nat \ {0} /\ DOMAIN q = 1..Len(q)
  BY EmptySeq, LenProperties
<1>2. /\ Tail(q) \in Seq(Packets!Datagrams) /\ Len(Tail(q)) = Len(q) - 1
      /\ \A i \in 1..Len(Tail(q)) : Tail(q)[i] = q[i + 1]
      /\ Head(q) \in Packets!Datagrams
  BY HeadTailProperties
<1>3. DOMAIN Tail(q) = 1..(Len(q) - 1)
  BY <1>2, LenProperties
<1>4. Head(q) = q[1]
  OBVIOUS
<1> QED
  BY <1>1, <1>2, <1>3, <1>4

LEMMA SameCount == \A S : Packets!Cardinality(S) = Cardinality(S)
  BY DEF Packets!Cardinality, Cardinality

(* More symbols can only be more. *)
LEMMA MoreAccepted ==
  ASSUME NEW A, NEW B \in SUBSET Symbols, A \subseteq B, Cardinality(A) >= K
  PROVE  Cardinality(B) >= K
<1>1. IsFiniteSet(A) /\ IsFiniteSet(B) /\ Cardinality(A) <= Cardinality(B)
  BY SymbolsAssumption, FS_Subset
<1>2. Cardinality(A) \in Nat /\ Cardinality(B) \in Nat
  BY <1>1, FS_CardinalityType
<1> QED
  BY <1>1, <1>2, KAssumption

-----------------------------------------------------------------------------
(* The queues: what the network puts in, and what a worker leaves. *)
LEMMA QueuesReceive ==
  ASSUME PacketTypes, PacketQueues, NEW d \in Packets!Datagrams, Packets!onReceive(d)
  PROVE  queues' \in [Packets!Threads -> Seq(Packets!Datagrams)] /\ PacketQueues'
<1> DEFINE t == Packets!selectQueue(d)
<1>1. CASE UNCHANGED <<queues, accepted>>
  BY <1>1 DEF PacketTypes, PacketQueues
<1>2. CASE /\ t \in open /\ Packets!HasRoom(t)
           /\ queues' = [queues EXCEPT ![t] = Append(@, d)]
           /\ accepted' = IF d.kind = "symbol"
                          THEN accepted \cup {<<d.stream, d.symbol>>} ELSE accepted
  <2>1. d.kind = "symbol" => t = d.stream % N
    BY DEF Packets!selectQueue
  <2> HIDE DEF t
  <2>2. accepted \subseteq accepted'
        /\ (d.kind = "symbol" => <<d.stream, d.symbol>> \in accepted')
    BY <1>2
  <2>3. CASE t \notin Packets!Threads
    <3>1. queues' = queues
      BY <1>2, <2>3 DEF PacketTypes
    <3> QED
      BY <2>2, <3>1 DEF PacketTypes, PacketQueues
  <2>4. CASE t \in Packets!Threads
    <3>1. queues[t] \in Seq(Packets!Datagrams)
      BY <2>4 DEF PacketTypes
    <3>2. /\ Append(queues[t], d) \in Seq(Packets!Datagrams)
          /\ Len(queues[t]) \in Nat /\ DOMAIN queues[t] = 1..Len(queues[t])
          /\ DOMAIN Append(queues[t], d) = 1..(Len(queues[t]) + 1)
          /\ \A i \in 1..Len(queues[t]) : Append(queues[t], d)[i] = queues[t][i]
          /\ Append(queues[t], d)[Len(queues[t]) + 1] = d
      BY <3>1, AppendProperties, LenProperties
    <3>3. queues' \in [Packets!Threads -> Seq(Packets!Datagrams)]
      BY <1>2, <2>4, <3>2 DEF PacketTypes
    <3> SUFFICES ASSUME NEW u \in Packets!Threads, NEW i \in DOMAIN queues'[u],
                        queues'[u][i].kind = "symbol"
                 PROVE  /\ u = queues'[u][i].stream % N
                        /\ <<queues'[u][i].stream, queues'[u][i].symbol>> \in accepted'
      BY <3>3 DEF PacketQueues
    <3>4. CASE u = t /\ i = Len(queues[t]) + 1
      <4>1. queues'[u][i] = d
        BY <1>2, <3>2, <3>4 DEF PacketTypes
      <4> QED
        BY <2>1, <2>2, <3>4, <4>1
    <3>5. CASE ~(u = t /\ i = Len(queues[t]) + 1)
      <4>1. i \in DOMAIN queues[u] /\ queues'[u][i] = queues[u][i]
        BY <1>2, <3>2, <3>5 DEF PacketTypes
      <4> QED
        BY <2>2, <4>1 DEF PacketQueues
    <3> QED
      BY <3>4, <3>5
  <2> QED
    BY <2>3, <2>4
<1> QED
  BY <1>1, <1>2 DEF Packets!onReceive

LEMMA QueuesTake ==
  ASSUME PacketTypes, PacketQueues, NEW t \in Packets!Threads, Packets!processPacket(t)
  PROVE  queues' \in [Packets!Threads -> Seq(Packets!Datagrams)] /\ PacketQueues'
<1>1. /\ queues' = [queues EXCEPT ![t] = Tail(queues[t])] /\ accepted' = accepted
      /\ queues[t] \in Seq(Packets!Datagrams) /\ queues[t] # <<>>
  BY DEF Packets!processPacket, PacketTypes
<1>2. /\ Tail(queues[t]) \in Seq(Packets!Datagrams)
      /\ \A i \in DOMAIN Tail(queues[t]) :
           i + 1 \in DOMAIN queues[t] /\ Tail(queues[t])[i] = queues[t][i + 1]
  BY <1>1, FirstDatagram
<1>3. queues' \in [Packets!Threads -> Seq(Packets!Datagrams)]
  BY <1>1, <1>2 DEF PacketTypes
<1>4. ASSUME NEW u \in Packets!Threads, NEW i \in DOMAIN queues'[u]
      PROVE  \E j \in DOMAIN queues[u] : queues'[u][i] = queues[u][j]
  <2>1. CASE u = t
    BY <1>1, <1>2, <1>4, <2>1 DEF PacketTypes
  <2>2. CASE u # t
    BY <1>1, <1>4, <2>2 DEF PacketTypes
  <2> QED
    BY <2>1, <2>2
<1> QED
  BY <1>1, <1>3, <1>4 DEF PacketQueues

(* The datagram that a worker takes. *)
LEMMA TakenSymbol ==
  ASSUME PacketTypes, PacketQueues, NEW t \in Packets!Threads, queues[t] # <<>>,
         Head(queues[t]).kind = "symbol"
  PROVE  LET d == Head(queues[t]) IN
         /\ d.stream \in Streams /\ d.symbol \in Symbols
         /\ t = d.stream % N /\ <<d.stream, d.symbol>> \in accepted
<1>1. /\ Head(queues[t]) \in Packets!Datagrams /\ Head(queues[t]) = queues[t][1]
      /\ 1 \in DOMAIN queues[t]
  BY FirstDatagram DEF PacketTypes
<1>2. /\ t = queues[t][1].stream % N
      /\ <<queues[t][1].stream, queues[t][1].symbol>> \in accepted
  BY <1>1 DEF PacketQueues
<1> QED
  BY <1>1, <1>2, DatagramParts

-----------------------------------------------------------------------------
(* The decoders: what AddSymbol may do to those of its thread. *)
LEMMA AddSymbolEffect ==
  ASSUME PacketTypes, NEW t \in Packets!Threads, NEW s \in Streams, NEW i \in Symbols,
         Packets!AddSymbol(t, s, i)
  PROVE  /\ symbols' \in {symbols, [symbols EXCEPT ![t][s] = @ \cup {i}]}
         /\ \/ UNCHANGED <<done, reports>>
            \/ /\ s \notin done[t]
               /\ \/ Packets!canDecode(symbols[t][s])
                  \/ Packets!canDecode(symbols[t][s] \cup {i})
               /\ done' = [done EXCEPT ![t] = @ \cup {s}]
               /\ reports' = Append(reports, s)
  BY DEF Packets!AddSymbol, Packets!TryDecode, Packets!IsNew

LEMMA SymbolsKept ==
  ASSUME PacketTypes, PacketDecoders, NEW t \in Packets!Threads, NEW s \in Streams,
         NEW i \in Symbols, <<s, i>> \in accepted, Packets!AddSymbol(t, s, i)
  PROVE  /\ symbols' \in [Packets!Threads -> [Streams -> SUBSET Symbols]]
         /\ \A u \in Packets!Threads, r \in Streams : {r} \X symbols'[u][r] \subseteq accepted
<1>1. symbols \in [Packets!Threads -> [Streams -> SUBSET Symbols]]
  BY DEF PacketTypes
<1>2. \A u \in Packets!Threads, r \in Streams : {r} \X symbols[u][r] \subseteq accepted
  BY DEF PacketDecoders
<1>3. CASE symbols' = symbols
  BY <1>1, <1>2, <1>3
<1>4. CASE symbols' = [symbols EXCEPT ![t][s] = @ \cup {i}]
  <2>1. symbols' \in [Packets!Threads -> [Streams -> SUBSET Symbols]]
    BY <1>1, <1>4
  <2>2. ASSUME NEW u \in Packets!Threads, NEW r \in Streams
        PROVE  {r} \X symbols'[u][r] \subseteq accepted
    <3>1. \/ symbols'[u][r] = symbols[u][r]
          \/ r = s /\ symbols'[u][r] = symbols[u][r] \cup {i}
      BY <1>1, <1>4
    <3> QED
      BY <1>2, <3>1
  <2> QED
    BY <2>1, <2>2
<1>5. symbols' = symbols \/ symbols' = [symbols EXCEPT ![t][s] = @ \cup {i}]
  BY AddSymbolEffect
<1> QED
  BY <1>3, <1>4, <1>5

(* A worker reports a stream only when it is new and enough of it came. *)
LEMMA DecodingKept ==
  ASSUME PacketTypes, PacketDecoders, NEW t \in Packets!Threads, NEW s \in Streams,
         NEW i \in Symbols, t = s % N, <<s, i>> \in accepted, accepted' = accepted,
         Packets!AddSymbol(t, s, i)
  PROVE  /\ PacketDecoders'
         /\ done' \in [Packets!Threads -> SUBSET Streams] /\ reports' \in Seq(Streams)
         /\ \/ Packets!Decoded' = Packets!Decoded /\ reports' = reports
            \/ /\ s \notin Packets!Decoded
               /\ Packets!Decoded' = Packets!Decoded \cup {s}
               /\ reports' = Append(reports, s)
<1>1. /\ \A u \in Packets!Threads, r \in Streams : r \in done[u] => u = r % N
      /\ \A r \in Packets!Decoded : Cardinality(AcceptedOf(r)) >= K
      /\ done \in [Packets!Threads -> SUBSET Streams] /\ reports \in Seq(Streams)
  BY DEF PacketDecoders, PacketTypes
<1>2. \A u \in Packets!Threads, r \in Streams : {r} \X symbols'[u][r] \subseteq accepted'
  BY SymbolsKept
<1>3. \A r : AcceptedOf(r)' = AcceptedOf(r)
  BY DEF AcceptedOf
<1>4. CASE UNCHANGED <<done, reports>>
  <2>1. Packets!Decoded' = Packets!Decoded
    BY <1>4 DEF Packets!Decoded
  <2> QED
    BY <1>1, <1>2, <1>3, <1>4, <2>1 DEF PacketDecoders
<1>5. CASE /\ s \notin done[t]
           /\ Packets!canDecode(symbols[t][s]) \/ Packets!canDecode(symbols[t][s] \cup {i})
           /\ done' = [done EXCEPT ![t] = @ \cup {s}]
           /\ reports' = Append(reports, s)
  <2>1. s \notin Packets!Decoded
    BY <1>1, <1>5 DEF Packets!Decoded
  <2>2. Packets!Decoded' = Packets!Decoded \cup {s}
    BY <1>1, <1>5 DEF Packets!Decoded
  <2>3. Cardinality(AcceptedOf(s)) >= K
    <3>1. /\ symbols[t][s] \in SUBSET Symbols
          /\ {s} \X symbols[t][s] \subseteq accepted
      BY DEF PacketTypes, PacketDecoders
    <3>2. /\ symbols[t][s] \subseteq AcceptedOf(s) /\ symbols[t][s] \cup {i} \subseteq AcceptedOf(s)
          /\ AcceptedOf(s) \in SUBSET Symbols
      BY <3>1 DEF AcceptedOf
    <3>3. Cardinality(symbols[t][s]) >= K \/ Cardinality(symbols[t][s] \cup {i}) >= K
      BY <1>5, SameCount DEF Packets!canDecode
    <3> QED
      BY <3>2, <3>3, MoreAccepted
  <2>4. \A r \in Packets!Decoded' : Cardinality(AcceptedOf(r)') >= K
    BY <1>1, <1>3, <2>2, <2>3
  <2>5. ASSUME NEW u \in Packets!Threads, NEW r \in Streams, r \in done'[u]
        PROVE  u = r % N
    <3>1. r \in done[u] \/ (u = t /\ r = s)
      <4>1. done \in [Packets!Threads -> SUBSET Streams]
        BY <1>1
      <4>2. done' = [done EXCEPT ![t] = @ \cup {s}] /\ r \in done'[u]
        BY <1>5, <2>5
      <4> QED
        BY <4>1, <4>2
    <3>2. CASE r \in done[u]
      BY <1>1, <3>2
    <3>3. CASE u = t /\ r = s
      BY <3>3
    <3> QED
      BY <3>1, <3>2, <3>3
  <2>6. PacketDecoders'
    BY <1>2, <2>4, <2>5 DEF PacketDecoders
  <2>7. done' \in [Packets!Threads -> SUBSET Streams] /\ reports' \in Seq(Streams)
    BY <1>1, <1>5, AppendProperties
  <2> QED
    BY <1>5, <2>1, <2>2, <2>6, <2>7
<1> QED
  BY <1>4, <1>5, AddSymbolEffect

-----------------------------------------------------------------------------
(* The three kinds of steps of the Receiver. *)
LEMMA WorkerKeeps ==
  ASSUME PacketInv, NEW t \in Packets!Threads, Packets!processPacket(t)
  PROVE  /\ PacketInv'
         /\ \/ Packets!Decoded' = Packets!Decoded /\ reports' = reports
            \/ \E s \in Streams : /\ s \notin Packets!Decoded
                                  /\ Packets!Decoded' = Packets!Decoded \cup {s}
                                  /\ reports' = Append(reports, s)
<1> DEFINE d == Head(queues[t])
<1>1. queues' \in [Packets!Threads -> Seq(Packets!Datagrams)] /\ PacketQueues'
  BY QueuesTake DEF PacketInv
<1>2. queues[t] # <<>> /\ accepted' = accepted
  BY DEF Packets!processPacket
<1>3. CASE UNCHANGED <<symbols, done, reports>>
  <2>1. Packets!Decoded' = Packets!Decoded
    BY <1>3 DEF Packets!Decoded
  <2>2. PacketDecoders'
    BY <1>2, <1>3, <2>1 DEF PacketInv, PacketDecoders, AcceptedOf
  <2> QED
    BY <1>1, <1>3, <2>1, <2>2 DEF PacketInv, PacketTypes
<1>4. CASE d.kind = "symbol" /\ Packets!AddSymbol(t, d.stream, d.symbol)
  <2>1. /\ d.stream \in Streams /\ d.symbol \in Symbols
        /\ t = d.stream % N /\ <<d.stream, d.symbol>> \in accepted
    BY <1>2, <1>4, TakenSymbol DEF PacketInv
  <2> HIDE DEF d
  <2>2. symbols' \in [Packets!Threads -> [Streams -> SUBSET Symbols]]
    BY <1>4, <2>1, SymbolsKept DEF PacketInv
  <2>3. /\ PacketDecoders'
        /\ done' \in [Packets!Threads -> SUBSET Streams] /\ reports' \in Seq(Streams)
        /\ \/ Packets!Decoded' = Packets!Decoded /\ reports' = reports
           \/ /\ d.stream \notin Packets!Decoded
              /\ Packets!Decoded' = Packets!Decoded \cup {d.stream}
              /\ reports' = Append(reports, d.stream)
    BY <1>2, <1>4, <2>1, DecodingKept DEF PacketInv
  <2> QED
    BY <1>1, <2>1, <2>2, <2>3 DEF PacketInv, PacketTypes
<1> QED
  BY <1>3, <1>4 DEF Packets!processPacket, Packets!DecoderNotMade

LEMMA NetworkKeeps ==
  ASSUME PacketInv,
         \/ \E t \in Packets!Threads : Packets!CreateQueue(t)
         \/ \E d \in Packets!Datagrams : Packets!onReceive(d)
         \/ UNCHANGED packetVars
         \/ /\ queues' = [t \in Packets!Threads |-> <<>>]
            /\ UNCHANGED <<symbols, done, reports, accepted>>
  PROVE  PacketInv' /\ Packets!Decoded' = Packets!Decoded
<1>1. UNCHANGED <<symbols, done, reports>> /\ accepted \subseteq accepted'
  BY DEF Packets!CreateQueue, Packets!onReceive, packetVars
<1>2. Packets!Decoded' = Packets!Decoded
  BY <1>1 DEF Packets!Decoded
<1>3. queues' \in [Packets!Threads -> Seq(Packets!Datagrams)] /\ PacketQueues'
  <2>1. CASE UNCHANGED <<queues, accepted>>
    BY <2>1 DEF PacketInv, PacketTypes, PacketQueues
  <2>2. CASE \E d \in Packets!Datagrams : Packets!onReceive(d)
    BY <2>2, QueuesReceive DEF PacketInv
  <2>3. CASE queues' = [t \in Packets!Threads |-> <<>>]
    <3>1. <<>> \in Seq(Packets!Datagrams) /\ DOMAIN <<>> = {}
      BY EmptySeq
    <3> QED
      BY <2>3, <3>1 DEF PacketQueues
  <2> QED
    BY <2>1, <2>2, <2>3 DEF Packets!CreateQueue, packetVars
<1>4. ASSUME NEW s \in Packets!Decoded'
      PROVE  Cardinality(AcceptedOf(s)') >= K
  <2>1. Cardinality(AcceptedOf(s)) >= K
    BY <1>2, <1>4 DEF PacketInv, PacketDecoders
  <2>2. AcceptedOf(s) \subseteq AcceptedOf(s)' /\ AcceptedOf(s)' \in SUBSET Symbols
    BY <1>1 DEF AcceptedOf
  <2> QED
    BY <2>1, <2>2, MoreAccepted
<1>5. PacketDecoders'
  BY <1>1, <1>4 DEF PacketInv, PacketDecoders
<1> QED
  BY <1>1, <1>2, <1>3, <1>5 DEF PacketInv, PacketTypes

-----------------------------------------------------------------------------
(* Both together: the center has what the workers decoded, and ReceiverCenter::stop
   comes after the Receiver's. *)
SideInv ==
  /\ TypeOK /\ PlacesInv /\ OrderInv /\ PacketInv
  /\ decoded = Packets!Decoded
  /\ qstate = "stopped" => ~receiving

LEMMA LastReport ==
  ASSUME NEW s \in Streams, reports \in Seq(Streams), reports' = Append(reports, s)
  PROVE  reports' # reports /\ reports'[Len(reports')] = s
<1>1. /\ Len(reports) \in Nat /\ Len(reports') = Len(reports) + 1
      /\ reports'[Len(reports) + 1] = s
  BY AppendProperties
<1> QED
  BY <1>1

(* For the center every step is one of its own or none. *)
LEMMA SideStep ==
  ASSUME SideInv, [SideNext]_sideVars
  PROVE  /\ [Next]_vars /\ PacketInv' /\ decoded' = Packets!Decoded'
         /\ qstate' = "stopped" => ~receiving'
<1>1. CASE UNCHANGED sideVars
  BY <1>1, NetworkKeeps DEF SideInv, sideVars, vars
<1>2. CASE ReceiverStep
  BY <1>2, NetworkKeeps DEF SideInv, ReceiverStep, vars
<1>3. CASE StopReceiver
  BY <1>3, NetworkKeeps DEF SideInv, StopReceiver, vars
<1>4. CASE CenterStep
  <2>1. Next /\ decoded' = decoded /\ (qstate' = "stopped" => qstate = "stopped")
    BY <1>4 DEF CenterStep, Next, CreateQueue, processDecodedItem, HandlePendingItems, ExitLoop
  <2> QED
    BY <1>4, <2>1, NetworkKeeps DEF SideInv, CenterStep
<1>5. CASE StopCenter
  <2>1. Next /\ decoded' = decoded
    BY <1>5 DEF StopCenter, Next, Stop
  <2> QED
    BY <1>5, <2>1, NetworkKeeps DEF SideInv, StopCenter
<1>6. ASSUME NEW t \in Packets!Threads, HandlePacket(t)
      PROVE  /\ [Next]_vars /\ PacketInv' /\ decoded' = Packets!Decoded'
             /\ qstate' = "stopped" => ~receiving'
  <2>1. PacketInv'
    BY <1>6, WorkerKeeps DEF SideInv, HandlePacket
  <2>2. CASE Packets!Decoded' = Packets!Decoded /\ reports' = reports
    BY <1>6, <2>1, <2>2 DEF SideInv, HandlePacket, vars
  <2>3. ASSUME NEW s \in Streams, Packets!Decoded' = Packets!Decoded \cup {s},
               reports' = Append(reports, s)
        PROVE  /\ [Next]_vars /\ decoded' = Packets!Decoded'
               /\ qstate' = "stopped" => ~receiving'
    <3>1. OnDecodeComplete(s)
      BY <1>6, <2>3, LastReport DEF HandlePacket, SideInv, PacketInv, PacketTypes
    <3> QED
      BY <1>6, <2>3, <3>1 DEF OnDecodeComplete, Next, SideInv, HandlePacket
  <2> QED
    BY <1>6, <2>1, <2>2, <2>3, WorkerKeeps DEF SideInv, HandlePacket
<1> QED
  BY <1>1, <1>2, <1>3, <1>4, <1>5, <1>6 DEF SideNext

LEMMA SideKeeps == SideInv /\ [SideNext]_sideVars => SideInv'
<1> SUFFICES ASSUME SideInv, [SideNext]_sideVars PROVE SideInv'
  OBVIOUS
<1>1. TypeOK /\ PlacesInv /\ OrderInv /\ [Next]_vars
  BY SideStep DEF SideInv
<1>2. TypeOK' /\ PlacesInv' /\ OrderInv'
  BY <1>1, TypeStep, PlacesStep, OrderStep
<1> QED
  BY <1>2, SideStep DEF SideInv

LEMMA SideStart == SideInit => SideInv
<1> SUFFICES ASSUME SideInit PROVE SideInv
  OBVIOUS
<1>1. TypeOK /\ PlacesInv /\ OrderInv
  BY TypeInit, PlacesInit, OrderInit DEF SideInit
<1>2. /\ queues = [t \in Packets!Threads |-> <<>>] /\ reports = <<>>
      /\ symbols = [t \in Packets!Threads |-> [s \in Streams |-> {}]]
      /\ done = [t \in Packets!Threads |-> {}]
      /\ decoded = {} /\ qstate = "none"
  BY DEF SideInit, Packets!Init, Init
<1>3. <<>> \in Seq(Packets!Datagrams) /\ <<>> \in Seq(Streams) /\ DOMAIN <<>> = {}
  BY EmptySeq
<1>4. PacketTypes /\ PacketQueues
  BY <1>2, <1>3 DEF PacketTypes, PacketQueues
<1>5. Packets!Decoded = {}
  BY <1>2 DEF Packets!Decoded
<1>6. PacketDecoders
  BY <1>2, <1>5 DEF PacketDecoders
<1> QED
  BY <1>1, <1>2, <1>4, <1>5, <1>6 DEF SideInv, PacketInv

(* From datagrams to callbacks, for any loss, repetition and order: the user is
   given what K different symbols came of, in order, and the center was told of
   exactly the streams that were decoded. *)
THEOREM OnlyReceivedIsHandedOver == SideSpec => []HandedOverWasReceived
<1>1. SideInv => HandedOverWasReceived
  <2> SUFFICES ASSUME SideInv, NEW s \in Delivered \cup threw
               PROVE  Enough(s)
    BY DEF SideInv, OrderInv, HandedOverWasReceived
  <2>1. s \in Packets!Decoded
    BY DEF SideInv, PlacesInv, Cover, Lost
  <2>2. Cardinality(AcceptedOf(s)) >= K
    BY <2>1 DEF SideInv, PacketInv, PacketDecoders
  <2> QED
    BY <2>2, SameCount DEF Enough, Packets!Enough, AcceptedOf
<1> QED
  BY <1>1, SideStart, SideKeeps, PTL DEF SideSpec

(* ReceiverCenter::stop takes the Receiver down first: once its own queue is
   stopped no worker reports a stream. *)
THEOREM StopRefusesNoReport == SideSpec => NoReportAfterStop
<1>1. SideInv /\ [SideNext]_sideVars
        => [qstate = "stopped" => decoded' = decoded]_sideVars
  <2> SUFFICES ASSUME SideInv, SideNext, qstate = "stopped"
               PROVE  decoded' = decoded
    OBVIOUS
  <2>1. ~receiving
    BY DEF SideInv
  <2>2. CenterStep \/ StopCenter
    BY <2>1 DEF SideNext, HandlePacket, ReceiverStep, StopReceiver
  <2> QED
    BY <2>2 DEF CenterStep, StopCenter, CreateQueue, processDecodedItem,
                HandlePendingItems, ExitLoop, Stop
<1> QED
  BY <1>1, SideStart, SideKeeps, PTL DEF SideSpec, NoReportAfterStop

(* OnDecodeComplete's precondition is no restriction: whatever a worker reports
   has not been reported before. *)
THEOREM ReportsAreNews ==
  ASSUME SideInv, NEW t \in Packets!Threads, Packets!processPacket(t),
         reports' # reports
  PROVE  reports'[Len(reports')] \notin decoded
<1>1. PICK s \in Streams : s \notin Packets!Decoded /\ reports' = Append(reports, s)
  BY WorkerKeeps DEF SideInv
<1> QED
  BY <1>1, LastReport DEF SideInv, PacketInv, PacketTypes

(* The receiving process as a whole implements InOrderDelivery, by which
   MediaTransfer represents it. *)
THEOREM SideImplementsInOrderDelivery == SideSpec => Implements
<1>1. SideInit => Abstract!Init
  BY DEF SideInit, Init, Abstract!Init, Accepted
<1>2. SideInv /\ [SideNext]_sideVars => [Abstract!Next]_(Abstract!vars)
  <2> SUFFICES ASSUME SideInv, [SideNext]_sideVars
               PROVE  [Abstract!Next]_(Abstract!vars)
    OBVIOUS
  <2>1. TypeOK /\ PlacesInv /\ OrderInv /\ [Next]_vars
    BY SideStep DEF SideInv
  <2> QED
    BY <2>1, ImplementsStep
<1> QED
  BY <1>1, <1>2, SideStart, SideKeeps, PTL DEF SideSpec, Implements, Abstract!Spec
=============================================================================
