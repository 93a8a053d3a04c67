----------------------------- MODULE Sender_proofs -----------------------------
(***************************************************************************)
(* Proofs about RqPack, for every table of block sizes, every size of data *)
(* and symbols and every number of repair symbols, and about Sender, for   *)
(* any callers, any number of threads and any size of their queues.        *)
(***************************************************************************)
EXTENDS Sender, FiniteSetTheorems, SequenceTheorems, WellFoundedInduction, TLAPS

(* A nonempty set of numbers has a least element. *)
LEMMA LeastExists ==
  ASSUME NEW S \in SUBSET Nat, S # {}
  PROVE  \E s \in S : \A t \in S : s <= t
<1> DEFINE R == {ss \in Nat \X Nat : ss[1] < ss[2]}
<1>1. IsWellFoundedOn(R, Nat)
  BY NatLessThanWellFounded DEF OpToRel
<1>2. PICK s \in S : \A t \in S : <<t, s>> \notin R
  <2> HIDE DEF R
  <2> QED
    BY <1>1, WFMin
<1>3. \A t \in S : ~(t < s)
  BY <1>2
<1> QED
  BY <1>3

(* k symbols hold the data exactly if k is at least symbols_needed. *)
LEMMA SymbolsHoldData ==
  ASSUME NEW d \in Nat, NEW s \in Nat \ {0}, NEW k \in Nat
  PROVE  /\ symbols_needed(d, s) \in Nat
         /\ k >= symbols_needed(d, s) <=> k * s >= d
<1> DEFINE q == (d + s - 1) \div s
           r == (d + s - 1) % s
<1>1. q \in Nat /\ r \in 0..(s - 1) /\ d + s - 1 = s * q + r
  OBVIOUS
<1> HIDE DEF q, r
<1>2. ASSUME k >= q PROVE k * s >= d
  <2>1. s * k >= s * q
    BY <1>1, <1>2
  <2> QED
    BY <1>1, <2>1
<1>3. ASSUME k < q PROVE k * s < d
  <2>1. k + 1 <= q
    BY <1>1, <1>3
  <2>2. s * (k + 1) <= s * q
    BY <1>1, <2>1
  <2>3. s * (k + 1) = s * k + s
    OBVIOUS
  <2> QED
    BY <1>1, <2>2, <2>3
<1> QED
  BY <1>1, <1>2, <1>3 DEF symbols_needed, q

(* What calculateBlockSize chooses: a block of the table, the smallest of those
   that hold the data if one of them does, and the largest of all if none. *)
THEOREM BlockFits ==
  ASSUME NEW d \in Nat, NEW s \in Nat \ {0}
  PROVE  LET K == calculateBlockSize(d, s) IN
         /\ \E i \in DOMAIN RQ_blocks : K = RQ_blocks[i]
         /\ \A i \in DOMAIN RQ_blocks :
              RQ_blocks[i] * s >= d => K * s >= d /\ K <= RQ_blocks[i]
<1> DEFINE n == symbols_needed(d, s)
           large == {i \in DOMAIN RQ_blocks : RQ_blocks[i] >= n}
           K == calculateBlockSize(d, s)
           first == CHOOSE i \in large : \A j \in large : i <= j
<1>1. /\ DOMAIN RQ_blocks = 1..Len(RQ_blocks) /\ Len(RQ_blocks) \in Nat \ {0}
      /\ \A i \in DOMAIN RQ_blocks : RQ_blocks[i] \in Nat \ {0}
  BY BlocksAssumption
<1>2. \A i, j \in DOMAIN RQ_blocks : i < j => RQ_blocks[i] < RQ_blocks[j]
  BY BlocksAssumption
<1>3. /\ n \in Nat
      /\ \A i \in DOMAIN RQ_blocks : RQ_blocks[i] >= n <=> RQ_blocks[i] * s >= d
  BY <1>1, SymbolsHoldData
<1>4. K = IF large = {} THEN MaxSymbols ELSE RQ_blocks[first]
  BY DEF calculateBlockSize
<1> HIDE DEF n, K
<1>5. CASE large = {}
  <2>1. K = RQ_blocks[Len(RQ_blocks)] /\ Len(RQ_blocks) \in DOMAIN RQ_blocks
    BY <1>1, <1>4, <1>5 DEF MaxSymbols
  <2>2. \A i \in DOMAIN RQ_blocks : ~(RQ_blocks[i] * s >= d)
    BY <1>3, <1>5
  <2> QED
    BY <2>1, <2>2 DEF K
<1>6. CASE large # {}
  <2>1. large \in SUBSET Nat
    BY <1>1
  <2>2. \E i \in large : \A j \in large : i <= j
    <3> HIDE DEF large
    <3> QED
      BY <1>6, <2>1, LeastExists
  <2>3. first \in large /\ \A j \in large : first <= j
    BY <2>2
  <2> HIDE DEF first
  <2>4. K = RQ_blocks[first] /\ first \in DOMAIN RQ_blocks /\ K * s >= d
    BY <1>3, <1>4, <1>6, <2>3
  <2>5. ASSUME NEW i \in DOMAIN RQ_blocks, RQ_blocks[i] * s >= d
        PROVE  K <= RQ_blocks[i]
    <3>1. first <= i
      BY <1>3, <2>3, <2>5
    <3>2. first = i \/ first < i
      BY <1>1, <2>4, <3>1
    <3> QED
      BY <1>1, <1>2, <2>4, <3>2
  <2> QED
    BY <2>4, <2>5 DEF K
<1> QED
  BY <1>5, <1>6

LEMMA BlockSizeType ==
  ASSUME NEW d \in Nat, NEW s \in Nat \ {0}
  PROVE  calculateBlockSize(d, s) \in Nat \ {0}
<1>1. PICK i \in DOMAIN RQ_blocks : calculateBlockSize(d, s) = RQ_blocks[i]
  BY BlockFits
<1> QED
  BY <1>1, BlocksAssumption

(* Data is refused by the Encoder exactly if no block holds it; and of what is
   encoded decode() gives all bytes and no more. *)
THEOREM NothingIsCut ==
  ASSUME NEW d \in Nat, NEW s \in Nat \ {0}
  PROVE  /\ Encodable(d, s) <=> \E i \in DOMAIN RQ_blocks : d <= RQ_blocks[i] * s
         /\ Encodable(d, s) => DecodedSize(d, s) = d
<1> DEFINE K == calculateBlockSize(d, s)
           n == symbols_needed(d, s)
<1>1. K \in Nat \ {0}
  BY BlockSizeType
<1>2. \A i \in DOMAIN RQ_blocks : RQ_blocks[i] \in Nat \ {0}
  BY BlocksAssumption
<1>3. n \in Nat /\ n * s \in Nat /\ n * s >= d
  BY SymbolsHoldData
<1>4. Encodable(d, s) <=> d <= K * s
  BY DEF Encodable
<1>5. \E i \in DOMAIN RQ_blocks : K = RQ_blocks[i]
  BY BlockFits
<1>6. \A i \in DOMAIN RQ_blocks : RQ_blocks[i] * s >= d => K * s >= d
  BY BlockFits
<1>7. K * s \in Nat
  BY <1>1
<1>8. DecodedSize(d, s) = LET written == IF n * s < K * s THEN n * s ELSE K * s
                          IN  IF written > d THEN d ELSE written
  BY DEF DecodedSize
<1> HIDE DEF K, n
<1>9. Encodable(d, s) => DecodedSize(d, s) = d
  BY <1>3, <1>4, <1>7, <1>8
<1>10. \A i \in DOMAIN RQ_blocks : d <= RQ_blocks[i] * s <=> RQ_blocks[i] * s >= d
  BY <1>2
<1> QED
  BY <1>4, <1>5, <1>6, <1>7, <1>9, <1>10

-----------------------------------------------------------------------------
SentIds(count, repairs) ==
  {encodeAll(count, repairs)[n] : n \in DOMAIN encodeAll(count, repairs)}

LEMMA RepairCountType ==
  ASSUME NEW K \in Nat \ {0}, NEW r \in Nat
  PROVE  RepairCount(K, r) \in Nat \ {0} /\ (r > 0 => RepairCount(K, r) = r)
<1>1. K >= 10 => K \div 10 \in Nat \ {0}
  OBVIOUS
<1> QED
  BY <1>1 DEF RepairCount

(* A block of K symbols is sent as K + RepairCount symbols with different ids,
   and whichever of these are lost, not more than RepairCount, K are left. *)
THEOREM RepairCoversLoss ==
  ASSUME NEW K \in Nat \ {0}, NEW r \in Nat, NEW missing \in SUBSET SentIds(K, r),
         Cardinality(missing) <= RepairCount(K, r)
  PROVE  /\ Cardinality(SentIds(K, r)) = Len(encodeAll(K, r))
         /\ Cardinality(SentIds(K, r) \ missing) >= K
<1> DEFINE m == RepairCount(K, r)
           ids == SentIds(K, r)
<1>1. m \in Nat \ {0}
  BY RepairCountType
<1>2. encodeAll(K, r) = [n \in 1..(K + m) |-> n - 1]
  BY DEF encodeAll
<1> HIDE DEF m
<1>3. ids = 0..(K + m - 1)
  <2>1. ids = {n - 1 : n \in 1..(K + m)}
    BY <1>2 DEF SentIds
  <2> QED
    BY <1>1, <2>1
<1>4. Len(encodeAll(K, r)) = K + m
  BY <1>1, <1>2
<1>5. IsFiniteSet(ids) /\ Cardinality(ids) = K + m
  BY <1>1, <1>3, FS_Interval
<1>6. missing \in SUBSET ids
  OBVIOUS
<1> HIDE DEF ids
<1>7. /\ Cardinality(ids \ missing) = Cardinality(ids) - Cardinality(missing)
      /\ Cardinality(missing) \in Nat
  <2>1. IsFiniteSet(missing) /\ ids \cap missing = missing
    BY <1>5, <1>6, FS_Subset
  <2>2. Cardinality(missing) \in Nat
    BY <2>1, FS_CardinalityType
  <2>3. Cardinality(ids \ missing) = Cardinality(ids) - Cardinality(ids \cap missing)
    BY <1>5, FS_Difference
  <2> QED
    BY <2>1, <2>2, <2>3
<1> QED
  BY <1>1, <1>4, <1>5, <1>7 DEF ids, m

-----------------------------------------------------------------------------
(* The symbols of an item are numbered from 0, source symbols first. *)
LEMMA SymbolsOf ==
  ASSUME NEW id \in Ids
  PROVE  LET K == calculateBlockSize(DataSize[id], symbol_size) IN
         /\ DataSize[id] \in Nat \ {0}
         /\ K \in Nat \ {0} /\ RepairCount(K, repair_count(id)) \in Nat \ {0}
         /\ Len(symbols(id)) = K + RepairCount(K, repair_count(id))
         /\ \A n \in 1..Len(symbols(id)) : symbols(id)[n] = n - 1
<1> DEFINE K == calculateBlockSize(DataSize[id], symbol_size)
           m == RepairCount(K, repair_count(id))
<1>1. DataSize[id] \in Nat \ {0} /\ symbol_size \in Nat \ {0}
  BY MaxIdsAssumption, SizesAssumption DEF Ids
<1>2. K \in Nat \ {0}
  BY <1>1, BlockSizeType
<1>3. repair_count(id) \in Nat
  <2> HIDE DEF K
  <2>1. RepairPercent \in Nat /\ K * RepairPercent \in Nat
    BY <1>2, SizesAssumption
  <2>2. (K * RepairPercent) \div 100 \in Nat
    BY <2>1
  <2> QED
    BY <2>2 DEF repair_count, RatioCount, K
<1>4. m \in Nat \ {0}
  BY <1>2, <1>3, RepairCountType
<1>5. symbols(id) = [n \in 1..(K + m) |-> n - 1]
  BY DEF symbols, encodeAll
<1> HIDE DEF K, m
<1>6. Len(symbols(id)) = K + m
  BY <1>2, <1>4, <1>5
<1>7. \A n \in 1..Len(symbols(id)) : symbols(id)[n] = n - 1
  BY <1>5, <1>6
<1> QED
  BY <1>1, <1>2, <1>4, <1>6, <1>7 DEF K, m

LEMMA CallerAt ==
  ASSUME TypeOK, NEW c \in Callers, caller[c] # <<>>
  PROVE  /\ caller[c][1] \in {"allocated", "checked"} /\ caller[c][2] \in Ids
         /\ caller[c] = <<caller[c][1], caller[c][2]>>
<1>1. caller[c] \in {"allocated", "checked"} \X Ids
  BY DEF TypeOK
<1> QED
  BY <1>1

LEMMA WorkerAt ==
  ASSUME TypeOK, NEW t \in Threads, encoding[t] # <<>>
  PROVE  /\ encoding[t][1] \in Ids /\ encoding[t][2] \in Nat
         /\ encoding[t] = <<encoding[t][1], encoding[t][2]>>
<1>1. encoding[t] \in Ids \X Nat
  BY DEF TypeOK
<1> QED
  BY <1>1

LEMMA QueueAt ==
  ASSUME TypeOK, NEW t \in Threads, queues[t] # <<>>
  PROVE  /\ Head(queues[t]) \in Ids /\ Head(queues[t]) = queues[t][1]
         /\ Len(queues[t]) \in Nat \ {0} /\ DOMAIN queues[t] = 1..Len(queues[t])
         /\ Tail(queues[t]) \in Seq(Ids) /\ Len(Tail(queues[t])) = Len(queues[t]) - 1
         /\ DOMAIN Tail(queues[t]) = 1..(Len(queues[t]) - 1)
         /\ \A i \in 1..(Len(queues[t]) - 1) : Tail(queues[t])[i] = queues[t][i + 1]
<1> DEFINE q == queues[t]
<1>1. q \in Seq(Ids) /\ q # <<>>
  BY DEF TypeOK
<1> HIDE DEF q
<1>2. Len(q) \in Nat \ {0} /\ DOMAIN q = 1..Len(q)
  BY <1>1, EmptySeq, LenProperties
<1>3. /\ Tail(q) \in Seq(Ids) /\ Len(Tail(q)) = Len(q) - 1
      /\ \A i \in 1..Len(Tail(q)) : Tail(q)[i] = q[i + 1]
      /\ Head(q) \in Ids
  BY <1>1, HeadTailProperties
<1>4. DOMAIN Tail(q) = 1..(Len(q) - 1)
  BY <1>3, LenProperties
<1>5. Head(q) = q[1]
  BY <1>1
<1> QED
  BY <1>2, <1>3, <1>4, <1>5 DEF q

-----------------------------------------------------------------------------
LEMMA TypeInit == Init => TypeOK
<1> SUFFICES ASSUME Init PROVE TypeOK
  OBVIOUS
<1>1. <<>> \in Seq(Ids) /\ Len(<<>>) = 0
  BY EmptySeq
<1>2. queues \in [Threads -> Seq(Ids)] /\ \A t \in Threads : Len(queues[t]) <= QueueCap
  BY <1>1, QueueCapAssumption DEF Init
<1>3. counter \in 0..MaxIds
  BY MaxIdsAssumption DEF Init
<1> QED
  BY <1>2, <1>3 DEF Init, TypeOK, Lives

(* A caller's steps: its id is in Ids, and a full queue gets no item. *)
LEMMA TypeRefuse ==
  ASSUME TypeOK, NEW c \in Callers, caller[c] # <<>>, Refuse(c)
  PROVE  /\ caller' \in [Callers -> {<<>>} \cup {"allocated", "checked"} \X Ids]
         /\ refused' \subseteq Ids
<1>1. caller[c][2] \in Ids
  BY CallerAt
<1>2. refused' \subseteq Ids
  BY <1>1 DEF TypeOK, Refuse
<1>3. caller' \in [Callers -> {<<>>} \cup {"allocated", "checked"} \X Ids]
  BY DEF TypeOK, Refuse
<1> QED
  BY <1>2, <1>3

LEMMA TypeCall ==
  ASSUME TypeOK, NEW c \in Callers, AllocateId(c) \/ CheckRunning(c) \/ UseDestroyedQueue(c)
  PROVE  TypeOK'
<1>1. CASE AllocateId(c)
  <2>1. counter \in Ids /\ counter' \in 0..MaxIds
    BY <1>1, MaxIdsAssumption DEF TypeOK, AllocateId, Ids
  <2>2. caller' \in [Callers -> {<<>>} \cup {"allocated", "checked"} \X Ids]
    BY <1>1, <2>1 DEF TypeOK, AllocateId
  <2> QED
    BY <1>1, <2>1, <2>2 DEF TypeOK, AllocateId, workVars, stopVars
<1>2. CASE CheckRunning(c)
  <2>1. caller[c] # <<>>
    BY <1>2 DEF CheckRunning
  <2>2. /\ caller' \in [Callers -> {<<>>} \cup {"allocated", "checked"} \X Ids]
        /\ refused' \subseteq Ids
    <3>1. CASE /\ caller' = [caller EXCEPT ![c] = <<"checked", @[2]>>]
               /\ UNCHANGED refused
      <4>1. <<"checked", caller[c][2]>> \in {"allocated", "checked"} \X Ids
        BY <2>1, CallerAt
      <4> QED
        BY <3>1, <4>1 DEF TypeOK
    <3> QED
      BY <1>2, <2>1, <3>1, TypeRefuse DEF CheckRunning
  <2> QED
    BY <1>2, <2>2 DEF TypeOK, CheckRunning, workVars, stopVars
<1>3. CASE UseDestroyedQueue(c)
  <2>1. /\ caller' \in [Callers -> {<<>>} \cup {"allocated", "checked"} \X Ids]
        /\ refused' \subseteq Ids
    BY <1>3, TypeRefuse DEF UseDestroyedQueue
  <2> QED
    BY <1>3, <2>1 DEF TypeOK, UseDestroyedQueue, workVars, stopVars
<1> QED
  BY <1>1, <1>2, <1>3

LEMMA TypePush ==
  ASSUME TypeOK, NEW c \in Callers, PushItem(c)
  PROVE  TypeOK'
<1> DEFINE id == caller[c][2]
           t == selectQueue(id)
<1>1. caller[c] # <<>> /\ id \in Ids
  BY CallerAt DEF PushItem
<1>2. UNCHANGED <<counter, workVars, stopVars, wild>>
  BY DEF PushItem
<1>3. CASE ~Accepts(t) /\ Refuse(c) /\ UNCHANGED queues
  <2>1. /\ caller' \in [Callers -> {<<>>} \cup {"allocated", "checked"} \X Ids]
        /\ refused' \subseteq Ids
    BY <1>1, <1>3, TypeRefuse
  <2> QED
    BY <1>2, <1>3, <2>1 DEF TypeOK, workVars, stopVars
<1>4. CASE /\ Accepts(t)
           /\ queues' = [queues EXCEPT ![t] = Append(@, id)]
           /\ caller' = [caller EXCEPT ![c] = <<>>]
           /\ UNCHANGED refused
  <2>1. t \in Threads /\ queues[t] \in Seq(Ids)
    BY <1>4 DEF TypeOK, Accepts
  <2>2. caller' \in [Callers -> {<<>>} \cup {"allocated", "checked"} \X Ids]
    BY <1>4 DEF TypeOK
  <2> HIDE DEF id, t
  <2>3. Append(queues[t], id) \in Seq(Ids) /\ Len(Append(queues[t], id)) <= QueueCap
    BY <1>1, <1>4, <2>1, AppendProperties, LenProperties, QueueCapAssumption DEF Accepts
  <2>4. queues' \in [Threads -> Seq(Ids)]
    BY <1>4, <2>1, <2>3 DEF TypeOK
  <2>5. \A u \in Threads : Len(queues'[u]) <= QueueCap
    BY <1>4, <2>1, <2>3 DEF TypeOK
  <2> QED
    BY <1>2, <1>4, <2>2, <2>4, <2>5 DEF TypeOK, workVars, stopVars
<1> QED
  BY <1>3, <1>4 DEF PushItem

(* The encoding threads' steps. *)
LEMMA TypeBegin ==
  ASSUME TypeOK, NEW t \in Threads, BeginItem(t)
  PROVE  TypeOK'
<1> DEFINE id == Head(queues[t])
<1>1. /\ id \in Ids /\ Tail(queues[t]) \in Seq(Ids)
      /\ Len(Tail(queues[t])) <= QueueCap
  <2>1. queues[t] # <<>>
    BY DEF BeginItem
  <2>2. Len(queues[t]) <= QueueCap
    BY DEF TypeOK
  <2> QED
    BY <2>1, <2>2, QueueAt, QueueCapAssumption
<1>2. /\ queues' = [queues EXCEPT ![t] = Tail(@)]
      /\ UNCHANGED <<sentCount, net, finished, unsent, callVars, stopVars, wild>>
  BY DEF BeginItem
<1>3. /\ queues' \in [Threads -> Seq(Ids)]
      /\ \A u \in Threads : Len(queues'[u]) <= QueueCap
  BY <1>1, <1>2 DEF TypeOK
<1>4. \/ encoding' = [encoding EXCEPT ![t] = <<id, 0>>] /\ UNCHANGED failed
      \/ failed' = failed \cup {id} /\ UNCHANGED encoding
  BY DEF BeginItem
<1> HIDE DEF id
<1>5. encoding' \in [Threads -> {<<>>} \cup Ids \X Nat]
  <2>1. encoding \in [Threads -> {<<>>} \cup Ids \X Nat]
    BY DEF TypeOK
  <2>2. [encoding EXCEPT ![t] = <<id, 0>>] \in [Threads -> {<<>>} \cup Ids \X Nat]
    BY <1>1, <2>1
  <2> QED
    BY <1>4, <2>1, <2>2
<1>6. failed' \subseteq Ids
  BY <1>1, <1>4 DEF TypeOK
<1> QED
  BY <1>2, <1>3, <1>5, <1>6 DEF TypeOK, callVars, stopVars

LEMMA TypeSend ==
  ASSUME TypeOK, NEW t \in Threads, SendSymbol(t)
  PROVE  TypeOK'
<1> DEFINE id == encoding[t][1]
           n == encoding[t][2] + 1
<1>1. id \in Ids /\ n \in Nat \ {0}
  BY WorkerAt DEF SendSymbol
<1>2. /\ n <= Len(symbols(id)) /\ encoding' = [encoding EXCEPT ![t] = <<id, n>>]
      /\ \/ /\ net' = net \cup {PacketHeader(id, symbols(id)[n])}
            /\ sentCount' = sentCount + 1 /\ UNCHANGED unsent
         \/ unsent' = [unsent EXCEPT ![id] = @ + 1] /\ UNCHANGED <<net, sentCount>>
      /\ UNCHANGED <<finished, failed, callVars, stopVars, queues, wild>>
  BY DEF SendSymbol
<1> HIDE DEF id, n
<1>3. encoding' \in [Threads -> {<<>>} \cup Ids \X Nat]
  BY <1>1, <1>2 DEF TypeOK
<1>4. sentCount' \in Nat
  BY <1>2 DEF TypeOK
<1>5. unsent' \in [Ids -> Nat]
  <2>1. unsent \in [Ids -> Nat]
    BY DEF TypeOK
  <2>2. [unsent EXCEPT ![id] = @ + 1] \in [Ids -> Nat]
    BY <1>1, <2>1
  <2> QED
    BY <1>2, <2>1, <2>2
<1>6. symbols(id)[n] \in 0..(Len(symbols(id)) - 1)
  BY <1>1, <1>2, SymbolsOf
<1>7. net' \subseteq UNION {{PacketHeader(i, j) : j \in 0..(Len(symbols(i)) - 1)} : i \in Ids}
  <2>1. PacketHeader(id, symbols(id)[n])
          \in UNION {{PacketHeader(i, j) : j \in 0..(Len(symbols(i)) - 1)} : i \in Ids}
    BY <1>1, <1>6
  <2> QED
    BY <1>2, <2>1 DEF TypeOK
<1> QED
  BY <1>2, <1>3, <1>4, <1>5, <1>7 DEF TypeOK, callVars, stopVars

LEMMA TypeFinish ==
  ASSUME TypeOK, NEW t \in Threads, FinishItem(t)
  PROVE  TypeOK'
<1>1. encoding[t][1] \in Ids
  BY WorkerAt DEF FinishItem
<1>2. encoding' \in [Threads -> {<<>>} \cup Ids \X Nat]
  BY DEF TypeOK, FinishItem
<1>3. finished' \subseteq Ids
  BY <1>1 DEF TypeOK, FinishItem
<1> QED
  BY <1>2, <1>3 DEF TypeOK, FinishItem, callVars, stopVars

LEMMA TypeJoin ==
  ASSUME TypeOK, JoinThreads
  PROVE  TypeOK'
<1>1. lost' \subseteq Ids
  BY DEF JoinThreads
<1>2. <<>> \in Seq(Ids) /\ Len(<<>>) = 0
  BY EmptySeq
<1>3. /\ queues' = [t \in Threads |-> <<>>] /\ encoding' = [t \in Threads |-> <<>>]
      /\ open' = {} /\ closed' = {} /\ life' = "stopped"
      /\ UNCHANGED <<exited, drained, callVars, sentCount, net, finished, failed, unsent,
                     wild>>
  BY DEF JoinThreads
<1>4. /\ queues' \in [Threads -> Seq(Ids)]
      /\ \A t \in Threads : Len(queues'[t]) <= QueueCap
  BY <1>2, <1>3, QueueCapAssumption
<1>5. encoding' \in [Threads -> {<<>>} \cup Ids \X Nat]
  BY <1>3
<1> QED
  BY <1>1, <1>3, <1>4, <1>5 DEF TypeOK, callVars, Lives

LEMMA TypeStop ==
  ASSUME TypeOK, \/ Start \/ StopCalled \/ BreakLoops
                 \/ \E t \in Threads : CreateQueue(t) \/ ThreadExit(t) \/ CloseQueue(t)
  PROVE  TypeOK'
<1>1. UNCHANGED <<callVars, workVars, queues, wild, lost>>
  BY DEF Start, StopCalled, BreakLoops, CreateQueue, ThreadExit, CloseQueue
<1>2. life' \in Lives /\ drained' \in BOOLEAN
  BY DEF TypeOK, Lives, Start, StopCalled, BreakLoops, CreateQueue, ThreadExit, CloseQueue,
         Drained
<1>3. open' \in SUBSET Threads /\ closed' \in SUBSET Threads /\ exited' \in SUBSET Threads
  BY DEF TypeOK, Start, StopCalled, BreakLoops, CreateQueue, ThreadExit, CloseQueue
<1> QED
  BY <1>1, <1>2, <1>3 DEF TypeOK, callVars, workVars

LEMMA TypeStep ==
  ASSUME TypeOK, [Next]_vars
  PROVE  TypeOK'
<1>1. CASE UNCHANGED vars
  BY <1>1 DEF TypeOK, vars, callVars, workVars, stopVars
<1> QED
  BY <1>1, TypeCall, TypePush, TypeBegin, TypeSend, TypeFinish, TypeJoin, TypeStop DEF Next

(* No queue is longer than its limit, and the datagrams on the net have the
   headers of symbols that the items' blocks have. *)
THEOREM TypeCorrect == Spec => []TypeOK
  BY TypeInit, TypeStep, PTL DEF Spec

-----------------------------------------------------------------------------
(* The ids with a caller, in a queue and with an encoding thread. *)
InCall == {id \in Ids : \E c \in Callers : caller[c] # <<>> /\ caller[c][2] = id}

InQueues == {id \in Ids : \E t \in Threads : \E i \in DOMAIN queues[t] : queues[t][i] = id}

InWork == {id \in Ids : \E t \in Threads : encoding[t] # <<>> /\ encoding[t][1] = id}

(* Every id that was allocated is somewhere ... *)
Cover ==
  Ids \cap (0..(counter - 1)) =
    InCall \cup InQueues \cup InWork \cup refused \cup finished \cup failed \cup lost

(* ... but not in two of these places ... *)
Apart ==
  /\ InCall \cap (InQueues \cup InWork \cup refused \cup finished \cup failed \cup lost) = {}
  /\ InQueues \cap (InWork \cup refused \cup finished \cup failed \cup lost) = {}
  /\ InWork \cap (refused \cup finished \cup failed \cup lost) = {}
  /\ refused \cap (finished \cup failed \cup lost) = {}
  /\ finished \cap (failed \cup lost) = {}
  /\ failed \cap lost = {}

(* ... nor with two callers, twice in the queues or with two threads. *)
AloneInCall ==
  \A c, d \in Callers :
    caller[c] # <<>> /\ caller[d] # <<>> /\ caller[c][2] = caller[d][2] => c = d

AloneInQueues ==
  \A t, u \in Threads : \A i \in DOMAIN queues[t], j \in DOMAIN queues[u] :
    queues[t][i] = queues[u][j] => t = u /\ i = j

AloneInWork ==
  \A t, u \in Threads :
    encoding[t] # <<>> /\ encoding[u] # <<>> /\ encoding[t][1] = encoding[u][1] => t = u

FateInv ==
  /\ Cover /\ Apart
  /\ AloneInCall /\ AloneInQueues /\ AloneInWork
  /\ life # "stopped" => lost = {}

(* A caller ends. *)
LEMMA CallEnds ==
  ASSUME TypeOK, AloneInCall, NEW c \in Callers, caller[c] # <<>>,
         caller' = [caller EXCEPT ![c] = <<>>]
  PROVE  /\ caller[c][2] \in InCall /\ InCall' = InCall \ {caller[c][2]}
         /\ AloneInCall'
<1> DEFINE id == caller[c][2]
<1>1. id \in Ids
  BY CallerAt
<1>2. \A d \in Callers : caller'[d] = IF d = c THEN <<>> ELSE caller[d]
  BY DEF TypeOK
<1>3. id \in InCall
  BY <1>1 DEF InCall
<1>4. AloneInCall'
  BY <1>2 DEF AloneInCall
<1>5. ASSUME NEW i \in InCall'
      PROVE  i \in InCall \ {id}
  BY <1>2, <1>5 DEF InCall, AloneInCall
<1>6. ASSUME NEW i \in InCall \ {id}
      PROVE  i \in InCall'
  BY <1>2, <1>6 DEF InCall
<1> QED
  BY <1>3, <1>4, <1>5, <1>6

(* An item is put at the end of a queue, or taken from its head. *)
LEMMA QueueGrows ==
  ASSUME TypeOK, AloneInQueues, NEW t \in Threads, NEW id \in Ids \ InQueues,
         queues' = [queues EXCEPT ![t] = Append(@, id)]
  PROVE  InQueues' = InQueues \cup {id} /\ AloneInQueues'
<1> DEFINE q == queues[t]
<1>1. q \in Seq(Ids) /\ \A u \in Threads : u # t => queues'[u] = queues[u]
  BY DEF TypeOK
<1>2. queues'[t] = Append(q, id)
  BY DEF TypeOK
<1> HIDE DEF q
<1>3. /\ Len(q) \in Nat /\ DOMAIN q = 1..Len(q)
      /\ DOMAIN Append(q, id) = 1..(Len(q) + 1)
      /\ \A i \in 1..Len(q) : Append(q, id)[i] = q[i]
      /\ Append(q, id)[Len(q) + 1] = id
  BY <1>1, AppendProperties, LenProperties
<1>4. \A u \in Threads : \A i \in DOMAIN queues[u] :
        i \in DOMAIN queues'[u] /\ queues'[u][i] = queues[u][i]
  BY <1>1, <1>2, <1>3 DEF q
<1>5. \A u \in Threads : \A i \in DOMAIN queues'[u] :
        \/ i \in DOMAIN queues[u] /\ queues'[u][i] = queues[u][i]
        \/ u = t /\ i = Len(q) + 1 /\ queues'[u][i] = id
  BY <1>1, <1>2, <1>3 DEF q
<1>6. Len(q) + 1 \in DOMAIN queues'[t] /\ queues'[t][Len(q) + 1] = id
  BY <1>2, <1>3
<1>7. \A u \in Threads : \A i \in DOMAIN queues[u] : queues[u][i] # id
  BY DEF InQueues
<1>8. InQueues' = InQueues \cup {id}
  <2>1. InQueues \cup {id} \subseteq InQueues'
    BY <1>4, <1>6 DEF InQueues
  <2>2. InQueues' \subseteq InQueues \cup {id}
    BY <1>5 DEF InQueues
  <2> QED
    BY <2>1, <2>2
<1>9. AloneInQueues'
  BY <1>5, <1>7 DEF AloneInQueues
<1> QED
  BY <1>8, <1>9

LEMMA QueueShrinks ==
  ASSUME TypeOK, AloneInQueues, NEW t \in Threads, queues[t] # <<>>,
         queues' = [queues EXCEPT ![t] = Tail(@)]
  PROVE  /\ Head(queues[t]) \in InQueues
         /\ InQueues' = InQueues \ {Head(queues[t])} /\ AloneInQueues'
<1> DEFINE q == queues[t]
           id == Head(q)
<1>1. \A u \in Threads : u # t => queues'[u] = queues[u]
  BY DEF TypeOK
<1>2. queues'[t] = Tail(q)
  BY DEF TypeOK
<1>3. /\ id \in Ids /\ id = q[1] /\ Len(q) \in Nat \ {0} /\ DOMAIN q = 1..Len(q)
      /\ DOMAIN Tail(q) = 1..(Len(q) - 1)
      /\ \A i \in 1..(Len(q) - 1) : Tail(q)[i] = q[i + 1]
  BY QueueAt
<1> HIDE DEF q, id
<1>4. \A u \in Threads : \A i \in DOMAIN queues[u] :
        \/ u # t /\ i \in DOMAIN queues'[u] /\ queues'[u][i] = queues[u][i]
        \/ u = t /\ i - 1 \in DOMAIN queues'[u] /\ queues'[u][i - 1] = queues[u][i]
        \/ u = t /\ i = 1 /\ queues[u][i] = id
  <2> SUFFICES ASSUME NEW u \in Threads, NEW i \in DOMAIN queues[u], u = t, i # 1
               PROVE  i - 1 \in DOMAIN queues'[u] /\ queues'[u][i - 1] = queues[u][i]
    BY <1>1, <1>3 DEF q
  <2>1. i \in 1..Len(q)
    BY <1>3 DEF q
  <2>2. i - 1 \in 1..(Len(q) - 1) /\ (i - 1) + 1 = i
    BY <1>3, <2>1
  <2>3. Tail(q)[i - 1] = q[i]
    BY <1>3, <2>2
  <2> QED
    BY <1>2, <1>3, <2>2, <2>3 DEF q
<1>5. \A u \in Threads : \A i \in DOMAIN queues'[u] :
        \/ u # t /\ i \in DOMAIN queues[u] /\ queues'[u][i] = queues[u][i]
        \/ u = t /\ i \in 1..(Len(q) - 1) /\ i + 1 \in DOMAIN queues[u]
             /\ queues'[u][i] = queues[u][i + 1]
  <2> SUFFICES ASSUME NEW u \in Threads, NEW i \in DOMAIN queues'[u], u = t
               PROVE  i \in 1..(Len(q) - 1) /\ i + 1 \in DOMAIN queues[u]
                        /\ queues'[u][i] = queues[u][i + 1]
    BY <1>1
  <2>1. i \in 1..(Len(q) - 1)
    BY <1>2, <1>3
  <2>2. i + 1 \in 1..Len(q)
    BY <1>3, <2>1
  <2>3. Tail(q)[i] = q[i + 1]
    BY <1>3, <2>1
  <2> QED
    BY <1>2, <1>3, <2>1, <2>2, <2>3 DEF q
<1>6. id \in InQueues
  BY <1>3 DEF InQueues, q
<1>7. \A u \in Threads : \A i \in DOMAIN queues'[u] : queues'[u][i] # id
  <2> SUFFICES ASSUME NEW u \in Threads, NEW i \in DOMAIN queues'[u]
               PROVE  queues'[u][i] # id
    OBVIOUS
  <2>1. id = queues[t][1] /\ 1 \in DOMAIN queues[t]
    BY <1>3 DEF q
  <2> QED
    BY <1>3, <1>5, <2>1 DEF AloneInQueues
<1>8. InQueues' = InQueues \ {id}
  <2>1. InQueues \ {id} \subseteq InQueues'
    BY <1>4 DEF InQueues
  <2>2. InQueues' \subseteq InQueues \ {id}
    BY <1>5, <1>7 DEF InQueues
  <2> QED
    BY <2>1, <2>2
<1>9. AloneInQueues'
  BY <1>3, <1>5 DEF AloneInQueues
<1> QED
  BY <1>6, <1>8, <1>9 DEF q, id

(* A thread takes an item, goes on with it, or ends it. *)
LEMMA WorkBegins ==
  ASSUME TypeOK, AloneInWork, NEW t \in Threads, NEW id \in Ids \ InWork, encoding[t] = <<>>,
         encoding' = [encoding EXCEPT ![t] = <<id, 0>>]
  PROVE  InWork' = InWork \cup {id} /\ AloneInWork'
<1>1. \A u \in Threads : encoding'[u] = IF u = t THEN <<id, 0>> ELSE encoding[u]
  BY DEF TypeOK
<1>2. <<id, 0>> # <<>> /\ <<id, 0>>[1] = id
  OBVIOUS
<1>3. \A u \in Threads : encoding[u] # <<>> => encoding[u][1] # id
  BY DEF InWork
<1>4. AloneInWork'
  BY <1>1, <1>2, <1>3 DEF AloneInWork
<1>5. InWork \cup {id} \subseteq InWork'
  BY <1>1, <1>2 DEF InWork
<1>6. InWork' \subseteq InWork \cup {id}
  BY <1>1, <1>2 DEF InWork
<1> QED
  BY <1>4, <1>5, <1>6

LEMMA WorkGoesOn ==
  ASSUME TypeOK, AloneInWork, NEW t \in Threads, encoding[t] # <<>>, NEW n,
         encoding' = [encoding EXCEPT ![t] = <<encoding[t][1], n>>]
  PROVE  InWork' = InWork /\ AloneInWork'
<1> DEFINE id == encoding[t][1]
<1>1. \A u \in Threads : encoding'[u] = IF u = t THEN <<id, n>> ELSE encoding[u]
  BY DEF TypeOK
<1>2. <<id, n>> # <<>> /\ <<id, n>>[1] = id
  OBVIOUS
<1>3. \A u \in Threads : /\ encoding'[u] # <<>> <=> encoding[u] # <<>>
                         /\ encoding'[u][1] = encoding[u][1]
  BY <1>1, <1>2
<1> QED
  BY <1>3 DEF InWork, AloneInWork

LEMMA WorkEnds ==
  ASSUME TypeOK, AloneInWork, NEW t \in Threads, encoding[t] # <<>>,
         encoding' = [encoding EXCEPT ![t] = <<>>]
  PROVE  /\ encoding[t][1] \in InWork /\ InWork' = InWork \ {encoding[t][1]}
         /\ AloneInWork'
<1> DEFINE id == encoding[t][1]
<1>1. id \in Ids
  BY WorkerAt
<1>2. \A u \in Threads : encoding'[u] = IF u = t THEN <<>> ELSE encoding[u]
  BY DEF TypeOK
<1>3. id \in InWork
  BY <1>1 DEF InWork
<1>4. AloneInWork'
  BY <1>2 DEF AloneInWork
<1>5. InWork' \subseteq InWork \ {id}
  BY <1>2 DEF InWork, AloneInWork
<1>6. InWork \ {id} \subseteq InWork'
  BY <1>2 DEF InWork
<1> QED
  BY <1>3, <1>4, <1>5, <1>6

(* The steps of an id: a caller gets it, ... *)
LEMMA FateAllocate ==
  ASSUME TypeOK, FateInv, NEW c \in Callers, AllocateId(c)
  PROVE  FateInv'
<1>1. counter \in Ids /\ counter' = counter + 1 /\ counter \in Nat
  BY MaxIdsAssumption DEF TypeOK, AllocateId, Ids
<1>2. \A d \in Callers :
        caller'[d] = IF d = c THEN <<"allocated", counter>> ELSE caller[d]
  BY DEF TypeOK, AllocateId
<1>3. <<"allocated", counter>> # <<>> /\ <<"allocated", counter>>[2] = counter
  OBVIOUS
<1>4. /\ InQueues' = InQueues /\ InWork' = InWork
      /\ UNCHANGED <<refused, finished, failed, lost, life>>
      /\ AloneInQueues' /\ AloneInWork'
  BY DEF FateInv, AllocateId, workVars, stopVars, InQueues, InWork, AloneInQueues, AloneInWork
<1>5. counter \notin InCall \cup InQueues \cup InWork \cup refused \cup finished
                       \cup failed \cup lost
  <2>1. counter \notin 0..(counter - 1)
    BY <1>1
  <2> QED
    BY <2>1 DEF FateInv, Cover
<1>6. \A d \in Callers : caller[d] # <<>> => caller[d][2] # counter
  BY <1>1, <1>5 DEF InCall
<1>7. AloneInCall'
  BY <1>2, <1>3, <1>6 DEF AloneInCall, FateInv
<1>8. InCall' = InCall \cup {counter}
  <2>1. caller[c] = <<>>
    BY DEF AllocateId
  <2>2. InCall' \subseteq InCall \cup {counter}
    BY <1>1, <1>2, <1>3 DEF InCall
  <2>3. InCall \subseteq InCall'
    BY <1>2, <2>1 DEF InCall
  <2>4. counter \in InCall'
    BY <1>1, <1>2, <1>3 DEF InCall
  <2> QED
    BY <2>2, <2>3, <2>4
<1>9. Ids \cap (0..(counter' - 1)) = (Ids \cap (0..(counter - 1))) \cup {counter}
  BY <1>1
<1>10. Cover'
  BY <1>4, <1>8, <1>9 DEF FateInv, Cover
<1>11. Apart'
  BY <1>4, <1>5, <1>8 DEF FateInv, Apart
<1> QED
  BY <1>4, <1>7, <1>10, <1>11 DEF FateInv

(* ... is told that it is refused, ... *)
LEMMA FateRefuse ==
  ASSUME TypeOK, FateInv, NEW c \in Callers, caller[c] # <<>>, Refuse(c),
         UNCHANGED <<counter, workVars, stopVars, queues>>
  PROVE  FateInv'
<1> DEFINE id == caller[c][2]
<1>1. id \in InCall /\ InCall' = InCall \ {id} /\ AloneInCall'
  BY CallEnds DEF FateInv, Refuse
<1>2. /\ InQueues' = InQueues /\ InWork' = InWork
      /\ UNCHANGED <<counter, finished, failed, lost, life>>
      /\ AloneInQueues' /\ AloneInWork'
  BY DEF FateInv, workVars, stopVars, InQueues, InWork, AloneInQueues, AloneInWork
<1>3. refused' = refused \cup {id}
  BY DEF Refuse
<1> HIDE DEF id
<1>4. Cover'
  BY <1>1, <1>2, <1>3 DEF FateInv, Cover
<1>5. Apart'
  BY <1>1, <1>2, <1>3 DEF FateInv, Apart
<1> QED
  BY <1>1, <1>2, <1>4, <1>5 DEF FateInv

(* ... or goes on and puts it in a queue. *)
LEMMA FateCheck ==
  ASSUME TypeOK, FateInv, NEW c \in Callers, CheckRunning(c)
  PROVE  FateInv'
<1>1. CASE Refuse(c)
  BY <1>1, FateRefuse DEF CheckRunning
<1>2. CASE /\ caller' = [caller EXCEPT ![c] = <<"checked", @[2]>>]
           /\ UNCHANGED refused
  <2>1. caller[c] # <<>>
    BY DEF CheckRunning
  <2>2. \A d \in Callers : /\ caller'[d] # <<>> <=> caller[d] # <<>>
                           /\ caller[d] # <<>> => caller'[d][2] = caller[d][2]
    BY <1>2, <2>1 DEF TypeOK
  <2>3. InCall' = InCall /\ AloneInCall'
    BY <2>2 DEF FateInv, InCall, AloneInCall
  <2>4. /\ InQueues' = InQueues /\ InWork' = InWork
        /\ UNCHANGED <<counter, refused, finished, failed, lost, life>>
        /\ AloneInQueues' /\ AloneInWork'
    BY <1>2 DEF FateInv, CheckRunning, workVars, stopVars, InQueues, InWork, AloneInQueues,
                AloneInWork
  <2>5. Cover' /\ Apart'
    BY <2>3, <2>4 DEF FateInv, Cover, Apart
  <2> QED
    BY <2>3, <2>4, <2>5 DEF FateInv
<1> QED
  BY <1>1, <1>2 DEF CheckRunning

LEMMA FatePush ==
  ASSUME TypeOK, FateInv, NEW c \in Callers, PushItem(c)
  PROVE  FateInv'
<1> DEFINE id == caller[c][2]
           t == selectQueue(id)
<1>1. caller[c] # <<>> /\ UNCHANGED <<counter, workVars, stopVars>>
  BY DEF PushItem
<1>2. CASE Refuse(c) /\ UNCHANGED queues
  BY <1>1, <1>2, FateRefuse
<1>3. CASE /\ Accepts(t)
           /\ queues' = [queues EXCEPT ![t] = Append(@, id)]
           /\ caller' = [caller EXCEPT ![c] = <<>>]
           /\ UNCHANGED refused
  <2>1. id \in InCall /\ InCall' = InCall \ {id} /\ AloneInCall'
    BY <1>1, <1>3, CallEnds DEF FateInv
  <2>2. t \in Threads
    BY <1>3 DEF Accepts, TypeOK
  <2>3. id \in Ids \ InQueues
    BY <2>1 DEF FateInv, Apart, InCall
  <2>4. queues' = [queues EXCEPT ![t] = Append(@, id)]
    BY <1>3
  <2> HIDE DEF id, t
  <2>5. InQueues' = InQueues \cup {id} /\ AloneInQueues'
    BY <2>2, <2>3, <2>4, QueueGrows DEF FateInv
  <2>6. /\ InWork' = InWork /\ AloneInWork'
        /\ UNCHANGED <<counter, refused, finished, failed, lost, life>>
    BY <1>1, <1>3 DEF FateInv, workVars, stopVars, InWork, AloneInWork
  <2>7. Cover'
    BY <2>1, <2>5, <2>6 DEF FateInv, Cover
  <2>8. Apart'
    BY <2>1, <2>5, <2>6 DEF FateInv, Apart
  <2> QED
    BY <2>1, <2>5, <2>6, <2>7, <2>8 DEF FateInv
<1> QED
  BY <1>2, <1>3 DEF PushItem

(* A thread takes an item, which it sends or gives up; ... *)
LEMMA FateBegin ==
  ASSUME TypeOK, FateInv, NEW t \in Threads, BeginItem(t)
  PROVE  FateInv'
<1> DEFINE id == Head(queues[t])
<1>1. id \in InQueues /\ InQueues' = InQueues \ {id} /\ AloneInQueues'
  BY QueueShrinks DEF FateInv, BeginItem
<1>2. /\ InCall' = InCall /\ AloneInCall'
      /\ UNCHANGED <<counter, refused, finished, lost, life>>
  BY DEF FateInv, BeginItem, callVars, stopVars, InCall, AloneInCall
<1>3. id \in Ids \ InWork
  BY <1>1 DEF FateInv, Apart, InQueues
<1>4. \/ encoding' = [encoding EXCEPT ![t] = <<id, 0>>] /\ failed' = failed
      \/ encoding' = encoding /\ failed' = failed \cup {id}
  BY DEF BeginItem
<1> HIDE DEF id
<1>5. CASE encoding' = [encoding EXCEPT ![t] = <<id, 0>>] /\ failed' = failed
  <2>1. encoding[t] = <<>>
    BY DEF BeginItem
  <2>2. InWork' = InWork \cup {id} /\ AloneInWork'
    BY <1>3, <1>5, <2>1, WorkBegins DEF FateInv
  <2>3. Cover'
    BY <1>1, <1>2, <1>5, <2>2 DEF FateInv, Cover
  <2>4. Apart'
    BY <1>1, <1>2, <1>5, <2>2 DEF FateInv, Apart
  <2> QED
    BY <1>1, <1>2, <2>2, <2>3, <2>4 DEF FateInv
<1>6. CASE encoding' = encoding /\ failed' = failed \cup {id}
  <2>1. InWork' = InWork /\ AloneInWork'
    BY <1>6 DEF FateInv, InWork, AloneInWork
  <2>2. Cover'
    BY <1>1, <1>2, <1>6, <2>1 DEF FateInv, Cover
  <2>3. Apart'
    BY <1>1, <1>2, <1>6, <2>1 DEF FateInv, Apart
  <2> QED
    BY <1>1, <1>2, <2>1, <2>2, <2>3 DEF FateInv
<1> QED
  BY <1>4, <1>5, <1>6

(* ... it goes on with it and ends it. *)
LEMMA FateWork ==
  ASSUME TypeOK, FateInv, NEW t \in Threads, SendSymbol(t) \/ FinishItem(t)
  PROVE  FateInv'
<1> DEFINE id == encoding[t][1]
<1>1. /\ InCall' = InCall /\ InQueues' = InQueues /\ AloneInCall' /\ AloneInQueues'
      /\ UNCHANGED <<counter, refused, failed, lost, life>> /\ encoding[t] # <<>>
  BY DEF FateInv, SendSymbol, FinishItem, callVars, stopVars, InCall, InQueues, AloneInCall,
         AloneInQueues
<1>2. CASE SendSymbol(t)
  <2>1. \E n : encoding' = [encoding EXCEPT ![t] = <<id, n>>]
    BY <1>2 DEF SendSymbol
  <2>2. InWork' = InWork /\ AloneInWork'
    BY <1>1, <2>1, WorkGoesOn DEF FateInv
  <2>3. finished' = finished
    BY <1>2 DEF SendSymbol
  <2>4. Cover' /\ Apart'
    BY <1>1, <2>2, <2>3 DEF FateInv, Cover, Apart
  <2> QED
    BY <1>1, <2>2, <2>4 DEF FateInv
<1>3. CASE FinishItem(t)
  <2>1. encoding' = [encoding EXCEPT ![t] = <<>>] /\ finished' = finished \cup {id}
    BY <1>3 DEF FinishItem
  <2>2. id \in InWork /\ InWork' = InWork \ {id} /\ AloneInWork'
    BY <1>1, <2>1, WorkEnds DEF FateInv
  <2> HIDE DEF id
  <2>3. Cover'
    BY <1>1, <2>1, <2>2 DEF FateInv, Cover
  <2>4. Apart'
    BY <1>1, <2>1, <2>2 DEF FateInv, Apart
  <2> QED
    BY <1>1, <2>2, <2>3, <2>4 DEF FateInv
<1> QED
  BY <1>2, <1>3

(* Who joins the threads destroys what is left. *)
LEMMA FateJoin ==
  ASSUME TypeOK, FateInv, JoinThreads
  PROVE  FateInv'
<1>1. /\ InCall' = InCall /\ AloneInCall'
      /\ UNCHANGED <<counter, refused, finished, failed>> /\ life' = "stopped"
  BY DEF FateInv, JoinThreads, callVars, InCall, AloneInCall
<1>2. lost = {}
  BY DEF FateInv, JoinThreads
<1>3. lost' = InQueues \cup InWork
  BY DEF JoinThreads, InQueues, InWork
<1>4. \A t \in Threads : queues'[t] = <<>> /\ DOMAIN queues'[t] = {} /\ encoding'[t] = <<>>
  BY DEF JoinThreads
<1>5. InQueues' = {} /\ InWork' = {} /\ AloneInQueues' /\ AloneInWork'
  BY <1>4 DEF InQueues, InWork, AloneInQueues, AloneInWork
<1>6. Cover'
  BY <1>1, <1>2, <1>3, <1>5 DEF FateInv, Cover
<1>7. Apart'
  BY <1>1, <1>2, <1>3, <1>5 DEF FateInv, Apart
<1> QED
  BY <1>1, <1>5, <1>6, <1>7 DEF FateInv

(* The other steps move no id. *)
LEMMA FateStays ==
  ASSUME FateInv, UNCHANGED <<callVars, workVars, queues, lost>>,
         life' = life \/ life # "stopped"
  PROVE  FateInv'
<1>1. /\ InCall' = InCall /\ InQueues' = InQueues /\ InWork' = InWork
      /\ AloneInCall' /\ AloneInQueues' /\ AloneInWork'
      /\ UNCHANGED <<counter, refused, finished, failed, lost>>
  BY DEF FateInv, callVars, workVars, InCall, InQueues, InWork, AloneInCall, AloneInQueues,
         AloneInWork
<1> QED
  BY <1>1 DEF FateInv, Cover, Apart

LEMMA FateInit == Init => FateInv
<1> SUFFICES ASSUME Init PROVE FateInv
  OBVIOUS
<1>1. \A t \in Threads : queues[t] = <<>> /\ DOMAIN queues[t] = {} /\ encoding[t] = <<>>
  BY DEF Init
<1>2. \A c \in Callers : caller[c] = <<>>
  BY DEF Init
<1>3. /\ InCall = {} /\ InQueues = {} /\ InWork = {}
      /\ AloneInCall /\ AloneInQueues /\ AloneInWork
  BY <1>1, <1>2 DEF InCall, InQueues, InWork, AloneInCall, AloneInQueues, AloneInWork
<1>4. counter = 0 /\ refused = {} /\ finished = {} /\ failed = {} /\ lost = {}
  BY DEF Init
<1>5. Cover
  BY <1>3, <1>4 DEF Cover
<1>6. Apart
  BY <1>3, <1>4 DEF Apart
<1> QED
  BY <1>3, <1>4, <1>5, <1>6 DEF FateInv

LEMMA FateStep == TypeOK /\ FateInv /\ [Next]_vars => FateInv'
<1> SUFFICES ASSUME TypeOK, FateInv, [Next]_vars PROVE FateInv'
  OBVIOUS
<1>1. CASE UNCHANGED vars
  BY <1>1, FateStays DEF vars, callVars, workVars, stopVars
<1>2. ASSUME NEW c \in Callers, UseDestroyedQueue(c) PROVE FateInv'
  BY <1>2, FateRefuse DEF UseDestroyedQueue
<1>3. ASSUME NEW t \in Threads, CreateQueue(t) \/ ThreadExit(t) \/ CloseQueue(t)
      PROVE  FateInv'
  BY <1>3, FateStays DEF CreateQueue, ThreadExit, CloseQueue, callVars, workVars
<1>4. CASE Start \/ StopCalled \/ BreakLoops
  BY <1>4, FateStays DEF Start, StopCalled, BreakLoops, callVars, workVars
<1> QED
  BY <1>1, <1>2, <1>3, <1>4, FateAllocate, FateCheck, FatePush, FateBegin, FateWork, FateJoin
  DEF Next

-----------------------------------------------------------------------------
(* At most one index, and just one if there is one. *)
LEMMA OneOrNone ==
  ASSUME NEW S, \A x, y \in S : x = y
  PROVE  Cardinality(S) = IF S = {} THEN 0 ELSE 1
<1>1. CASE S = {}
  BY <1>1, FS_EmptySet
<1>2. ASSUME NEW x \in S PROVE S = {x}
  BY <1>2
<1>3. CASE S # {}
  <2>1. PICK x \in S : S = {x}
    BY <1>2, <1>3
  <2> QED
    BY <1>3, <2>1, FS_Singleton
<1> QED
  BY <1>1, <1>3

LEMMA FateHolds == TypeOK /\ FateInv => EveryIdHasOneFate
<1> SUFFICES ASSUME TypeOK, FateInv, NEW id \in Ids
             PROVE  Places(id) = IF id < counter THEN 1 ELSE 0
  BY DEF EveryIdHasOneFate
<1> DEFINE calls == {c \in Callers : caller[c] # <<>> /\ caller[c][2] = id}
           slots == {p \in Threads \X (1..QueueCap) :
                       p[2] \in DOMAIN queues[p[1]] /\ queues[p[1]][p[2]] = id}
           works == {t \in Threads : encoding[t] # <<>> /\ encoding[t][1] = id}
           fates == {f \in {refused, finished, failed, lost} : id \in f}
<1>1. Cardinality(calls) = IF id \in InCall THEN 1 ELSE 0
  <2>1. \A c, d \in calls : c = d
    BY DEF FateInv, AloneInCall
  <2>2. calls = {} <=> id \notin InCall
    BY DEF InCall
  <2> QED
    BY <2>1, <2>2, OneOrNone
<1>2. Cardinality(slots) = IF id \in InQueues THEN 1 ELSE 0
  <2>1. \A p \in slots : /\ p[1] \in Threads /\ p[2] \in DOMAIN queues[p[1]]
                         /\ queues[p[1]][p[2]] = id /\ p = <<p[1], p[2]>>
    OBVIOUS
  <2>2. \A p, q \in slots : p = q
    BY <2>1 DEF FateInv, AloneInQueues
  <2>3. slots # {} => id \in InQueues
    BY <2>1 DEF InQueues
  <2>4. id \in InQueues => slots # {}
    <3> SUFFICES ASSUME NEW t \in Threads, NEW i \in DOMAIN queues[t], queues[t][i] = id
                 PROVE  slots # {}
      BY DEF InQueues
    <3>1. queues[t] \in Seq(Ids) /\ Len(queues[t]) <= QueueCap
      BY DEF TypeOK
    <3>2. i \in 1..Len(queues[t]) /\ Len(queues[t]) \in Nat
      BY <3>1, LenProperties
    <3>3. i \in 1..QueueCap
      BY <3>1, <3>2, QueueCapAssumption
    <3>4. <<t, i>> \in slots
      BY <3>3
    <3> QED
      BY <3>4
  <2> HIDE DEF slots
  <2> QED
    BY <2>2, <2>3, <2>4, OneOrNone
<1>3. Cardinality(works) = IF id \in InWork THEN 1 ELSE 0
  <2>1. \A t, u \in works : t = u
    BY DEF FateInv, AloneInWork
  <2>2. works = {} <=> id \notin InWork
    BY DEF InWork
  <2> QED
    BY <2>1, <2>2, OneOrNone
<1>4. Cardinality(fates) = IF id \in refused \cup finished \cup failed \cup lost THEN 1 ELSE 0
  <2>1. \A f, g \in fates : f = g
    BY DEF FateInv, Apart
  <2>2. fates = {} <=> id \notin refused \cup finished \cup failed \cup lost
    OBVIOUS
  <2> HIDE DEF fates
  <2> QED
    BY <2>1, <2>2, OneOrNone
<1>5. id < counter <=> id \in InCall \cup InQueues \cup InWork
                               \cup refused \cup finished \cup failed \cup lost
  <2>1. id \in Nat /\ counter \in Nat
    BY MaxIdsAssumption DEF Ids, TypeOK
  <2>2. id \in Ids \cap (0..(counter - 1)) <=> id < counter
    BY <2>1
  <2> QED
    BY <2>2 DEF FateInv, Cover
<1>6. Places(id) = Cardinality(calls) + Cardinality(slots) + Cardinality(works)
                     + Cardinality(fates)
  BY DEF Places
<1> HIDE DEF calls, slots, works, fates
<1> QED
  BY <1>1, <1>2, <1>3, <1>4, <1>5, <1>6 DEF FateInv, Apart

(* Whatever callers, threads and stop() do, an id that was given out is in one
   place, or refused, sent, given up or lost, only once. *)
THEOREM OneFate == Spec => []EveryIdHasOneFate
<1>1. Init => TypeOK /\ FateInv
  BY TypeInit, FateInit
<1>2. TypeOK /\ FateInv /\ [Next]_vars => (TypeOK /\ FateInv)'
  BY TypeStep, FateStep
<1> QED
  BY <1>1, <1>2, FateHolds, PTL DEF Spec

-----------------------------------------------------------------------------
(* A thread ends between two items, and has none without a queue; stop() leaves nothing that a thread could
   take; and after a stop() with nothing waiting no caller will push. *)
StopInv ==
  /\ \A t \in exited : encoding[t] = <<>>
  /\ \A t \in Threads \ open : encoding[t] = <<>>
  /\ life # "stopped" \/ drained => lost = {}
  /\ life = "stopped" =>
       open = {} /\ \A t \in Threads : queues[t] = <<>> /\ encoding[t] = <<>>
  /\ drained =>
       /\ life \notin {"off", "running"}
       /\ \A c \in Callers : caller[c] # <<>> => caller[c][1] = "allocated"
       /\ \A t \in Threads : queues[t] = <<>>

(* A caller can be on its way to the queues only if stop() was called too early. *)
LEMMA StopCall ==
  ASSUME TypeOK, StopInv, NEW c \in Callers,
         AllocateId(c) \/ CheckRunning(c) \/ PushItem(c) \/ UseDestroyedQueue(c)
  PROVE  StopInv'
<1>1. UNCHANGED <<life, open, exited, encoding, drained, lost>>
  BY DEF AllocateId, CheckRunning, PushItem, UseDestroyedQueue, workVars, stopVars
<1>2. CASE AllocateId(c)
  <2>1. \A d \in Callers : caller'[d] # <<>> =>
          caller'[d] = caller[d] \/ caller'[d] = <<"allocated", counter>>
    BY <1>2 DEF AllocateId, TypeOK
  <2>2. queues' = queues
    BY <1>2 DEF AllocateId
  <2> QED
    BY <1>1, <2>1, <2>2 DEF StopInv
<1>3. CASE CheckRunning(c)
  <2>1. queues' = queues
    BY <1>3 DEF CheckRunning
  <2>2. life # "running" => \A d \in Callers : caller'[d] # <<>> => caller'[d] = caller[d]
    BY <1>3 DEF CheckRunning, Refuse, TypeOK
  <2> QED
    BY <1>1, <2>1, <2>2 DEF StopInv
<1>4. CASE PushItem(c) \/ UseDestroyedQueue(c)
  <2>1. caller[c] # <<>> /\ caller[c][1] = "checked"
    BY <1>4 DEF PushItem, UseDestroyedQueue
  <2>2. ~drained
    BY <2>1 DEF StopInv
  <2>3. UseDestroyedQueue(c) => queues' = queues
    BY DEF UseDestroyedQueue
  <2>4. PushItem(c) => life # "stopped"
    BY DEF PushItem
  <2> QED
    BY <1>1, <1>4, <2>2, <2>3, <2>4 DEF StopInv
<1> QED
  BY <1>2, <1>3, <1>4

LEMMA StopWork ==
  ASSUME TypeOK, StopInv, NEW t \in Threads, BeginItem(t) \/ SendSymbol(t) \/ FinishItem(t)
  PROVE  StopInv'
<1>1. UNCHANGED <<life, open, exited, drained, lost, caller>>
  BY DEF BeginItem, SendSymbol, FinishItem, callVars, stopVars
<1>2. \A u \in Threads : u # t => encoding'[u] = encoding[u]
  BY DEF BeginItem, SendSymbol, FinishItem, TypeOK
<1>3. CASE BeginItem(t)
  <2>1. t \in open /\ t \notin exited /\ queues[t] # <<>>
    BY <1>3 DEF BeginItem
  <2>2. ~drained /\ life # "stopped"
    BY <2>1 DEF StopInv
  <2>3. \A u \in exited \cup (Threads \ open) : encoding'[u] = <<>>
    BY <1>2, <2>1 DEF StopInv, TypeOK
  <2> QED
    BY <1>1, <2>2, <2>3 DEF StopInv
<1>4. CASE SendSymbol(t) \/ FinishItem(t)
  <2>1. encoding[t] # <<>> /\ queues' = queues
    BY <1>4 DEF SendSymbol, FinishItem
  <2>2. t \in open \ exited /\ life # "stopped"
    BY <2>1 DEF StopInv
  <2>3. \A u \in exited \cup (Threads \ open) : encoding'[u] = <<>>
    BY <1>2, <2>2 DEF StopInv, TypeOK
  <2> QED
    BY <1>1, <2>1, <2>2, <2>3 DEF StopInv
<1> QED
  BY <1>3, <1>4

LEMMA StopStop ==
  ASSUME TypeOK, StopInv, StopCalled
  PROVE  StopInv'
<1>1. /\ life = "running" /\ life' = "stopping" /\ drained' = Drained
      /\ UNCHANGED <<open, exited, lost, caller, encoding, queues>>
  BY DEF StopCalled, callVars, workVars
<1>2. CASE drained'
  <2>1. /\ \A c \in Callers : caller[c] = <<>>
        /\ \A t \in Threads : queues[t] = <<>>
    BY <1>1, <1>2 DEF Drained
  <2> QED
    BY <1>1, <2>1 DEF StopInv
<1> QED
  BY <1>1, <1>2 DEF StopInv

LEMMA StopJoin ==
  ASSUME TypeOK, StopInv, JoinThreads
  PROVE  StopInv'
<1>1. /\ life = "broke" /\ life' = "stopped" /\ exited = Threads /\ open' = {}
      /\ UNCHANGED <<exited, drained, caller>>
  BY DEF JoinThreads, callVars
<1>2. \A t \in Threads : queues'[t] = <<>> /\ encoding'[t] = <<>>
  BY DEF JoinThreads
<1>3. drained => lost' = {}
  <2> SUFFICES ASSUME drained, NEW id \in lost' PROVE FALSE
    OBVIOUS
  <2>1. \A t \in Threads : queues[t] = <<>> /\ encoding[t] = <<>>
    BY <1>1 DEF StopInv
  <2>2. \A t \in Threads : DOMAIN queues[t] = {}
    BY <2>1
  <2> QED
    BY <2>1, <2>2 DEF JoinThreads
<1> QED
  BY <1>1, <1>2, <1>3 DEF StopInv

LEMMA StopStep == TypeOK /\ StopInv /\ [Next]_vars => StopInv'
<1> SUFFICES ASSUME TypeOK, StopInv, [Next]_vars PROVE StopInv'
  OBVIOUS
<1>1. CASE UNCHANGED vars
  BY <1>1 DEF StopInv, vars, callVars, workVars, stopVars
<1>2. ASSUME NEW t \in Threads, CreateQueue(t) \/ CloseQueue(t) PROVE StopInv'
  <2>1. /\ UNCHANGED <<life, lost, drained, encoding, queues, caller>>
        /\ life # "stopped"
    BY <1>2 DEF CreateQueue, CloseQueue, callVars, workVars
  <2>2. /\ open \subseteq open'
        /\ exited' = exited \/ (exited' = exited \cup {t} /\ encoding[t] = <<>>)
    BY <1>2 DEF CreateQueue, CloseQueue, StopInv
  <2> QED
    BY <2>1, <2>2 DEF StopInv
<1>3. ASSUME NEW t \in Threads, ThreadExit(t) PROVE StopInv'
  <2>1. /\ UNCHANGED <<life, open, lost, drained, encoding, queues, caller>>
        /\ exited' = exited \cup {t} /\ encoding[t] = <<>>
    BY <1>3 DEF ThreadExit, callVars, workVars
  <2> QED
    BY <2>1 DEF StopInv
<1>4. CASE Start \/ BreakLoops
  <2>1. /\ UNCHANGED <<open, exited, lost, drained, encoding, queues, caller>>
        /\ \/ life = "off" /\ life' = "running"
           \/ life = "stopping" /\ life' = "broke"
    BY <1>4 DEF Start, BreakLoops, callVars, workVars
  <2> QED
    BY <2>1 DEF StopInv
<1> QED
  BY <1>1, <1>2, <1>3, <1>4, StopCall, StopWork, StopStop, StopJoin DEF Next

LEMMA StopHolds == TypeOK /\ FateInv /\ StopInv => DrainedStopLosesNothing
<1> SUFFICES ASSUME TypeOK, FateInv, StopInv, life = "stopped", drained
             PROVE  /\ lost = {}
                    /\ \A id \in Ids : id < counter =>
                         \/ id \in refused \cup finished \cup failed
                         \/ \E c \in Callers : caller[c] # <<>> /\ caller[c][2] = id
  BY DEF DrainedStopLosesNothing
<1>1. lost = {}
  BY DEF StopInv
<1>2. \A t \in Threads : queues[t] = <<>> /\ DOMAIN queues[t] = {} /\ encoding[t] = <<>>
  BY DEF StopInv
<1>3. InQueues = {} /\ InWork = {}
  BY <1>2 DEF InQueues, InWork
<1>4. ASSUME NEW id \in Ids, id < counter
      PROVE  id \in InCall \cup refused \cup finished \cup failed
  <2>1. id \in Nat /\ counter \in Nat
    BY MaxIdsAssumption DEF Ids, TypeOK
  <2>2. id \in Ids \cap (0..(counter - 1))
    BY <1>4, <2>1
  <2> QED
    BY <1>1, <1>3, <2>2 DEF FateInv, Cover
<1> QED
  BY <1>1, <1>4 DEF InCall

(* If no call of sendData goes on and the queues are empty when stop() is called,
   nothing is lost, although threads may still send their last items. *)
THEOREM DrainedStop == Spec => []DrainedStopLosesNothing
<1>1. Init => TypeOK /\ FateInv /\ StopInv
  <2>1. Init => StopInv
    BY DEF Init, StopInv
  <2> QED
    BY <2>1, TypeInit, FateInit
<1>2. TypeOK /\ FateInv /\ StopInv /\ [Next]_vars => (TypeOK /\ FateInv /\ StopInv)'
  BY TypeStep, FateStep, StopStep
<1> QED
  BY <1>1, <1>2, StopHolds, PTL DEF Spec

-----------------------------------------------------------------------------
(* n symbols of an item have been tried: so many are on the net, each once, or
   their send failed. *)
Progress(id, n) ==
  /\ n \in 0..Len(symbols(id))
  /\ SentSymbols(id) \subseteq 0..(n - 1)
  /\ Cardinality(SentSymbols(id)) + unsent[id] = n

(* While ids fit in the header: what is on the net is of items with a thread or
   finished, and for these as much has been tried as the thread has done. *)
SentInv ==
  /\ IsFiniteSet(net) /\ sentCount = Cardinality(net)
  /\ \A d \in net : \E id \in InWork \cup finished : \E i \in Nat : d = PacketHeader(id, i)
  /\ \A t \in Threads : encoding[t] # <<>> => Progress(encoding[t][1], encoding[t][2])
  /\ \A id \in finished : Progress(id, Len(symbols(id)))
  /\ \A id \in Ids \ (InWork \cup finished) : unsent[id] = 0

(* Ids below IdSpace are not cut. *)
LEMMA IdFits ==
  ASSUME TypeOK, FateInv, counter <= IdSpace, NEW id \in InWork \cup finished, NEW i
  PROVE  id \in Ids /\ PacketHeader(id, i).stream_id = id
<1>1. id \in Ids \cap (0..(counter - 1))
  BY DEF FateInv, Cover
<1>2. counter \in Nat /\ IdSpace \in Nat \ {0}
  BY MaxIdsAssumption, IdSpaceAssumption DEF TypeOK
<1>3. id \in 0..(IdSpace - 1)
  BY <1>1, <1>2
<1>4. id % IdSpace = id
  BY <1>2, <1>3
<1> QED
  BY <1>1, <1>4 DEF PacketHeader

(* A datagram more is a symbol more of its item. *)
LEMMA SentAfter ==
  ASSUME NEW id, NEW i, net' = net \cup {PacketHeader(id, i)},
         PacketHeader(id, i).stream_id = id
  PROVE  /\ SentSymbols(id)' = SentSymbols(id) \cup {i}
         /\ \A j : j # id => SentSymbols(j)' = SentSymbols(j)
<1>1. PacketHeader(id, i).symbol_id = i
  BY DEF PacketHeader
<1> DEFINE h == PacketHeader(id, i)
<1> HIDE DEF h
<1>2. SentSymbols(id)' = SentSymbols(id) \cup {i}
  BY <1>1 DEF SentSymbols, h
<1>3. ASSUME NEW j, j # id PROVE SentSymbols(j)' = SentSymbols(j)
  BY <1>3 DEF SentSymbols, h
<1> QED
  BY <1>2, <1>3

(* Of an item that no thread has taken nothing is on the net. *)
LEMMA NothingSent ==
  ASSUME TypeOK, FateInv, SentInv, counter <= IdSpace,
         NEW id \in Ids \ (InWork \cup finished)
  PROVE  SentSymbols(id) = {} /\ Progress(id, 0)
<1>1. SentSymbols(id) = {}
  <2> SUFFICES ASSUME NEW d \in net, d.stream_id = id PROVE FALSE
    BY DEF SentSymbols
  <2>1. PICK j \in InWork \cup finished, i \in Nat : d = PacketHeader(j, i)
    BY DEF SentInv
  <2> QED
    BY <2>1, IdFits
<1>2. Cardinality(SentSymbols(id)) = 0
  BY <1>1, FS_EmptySet
<1>3. unsent[id] = 0
  BY DEF SentInv
<1>4. Len(symbols(id)) \in Nat
  BY SymbolsOf
<1> QED
  BY <1>1, <1>2, <1>3, <1>4 DEF Progress

(* Steps that leave the net alone, and with it what was tried. *)
LEMMA ProgressStays ==
  ASSUME UNCHANGED <<net, unsent>>, NEW id, NEW n, Progress(id, n)
  PROVE  Progress(id, n)'
<1>1. SentSymbols(id)' = SentSymbols(id)
  BY DEF SentSymbols
<1> QED
  BY <1>1 DEF Progress

LEMMA SentBegin ==
  ASSUME TypeOK, FateInv, SentInv, counter <= IdSpace, NEW t \in Threads, BeginItem(t)
  PROVE  SentInv'
<1>1. UNCHANGED <<sentCount, net, finished, unsent>> /\ encoding[t] = <<>>
  BY DEF BeginItem
<1>2. Head(queues[t]) \in InQueues
  BY QueueShrinks DEF FateInv, BeginItem
<1>3. PICK id \in Ids \ (InWork \cup finished) : id = Head(queues[t])
  BY <1>2 DEF FateInv, Apart, InQueues
<1>4. \/ encoding' = [encoding EXCEPT ![t] = <<id, 0>>]
      \/ encoding' = encoding
  BY <1>3 DEF BeginItem
<1>5. CASE encoding' = encoding
  <2>1. InWork' = InWork
    BY <1>5 DEF InWork
  <2> QED
    BY <1>1, <1>5, <2>1, ProgressStays DEF SentInv
<1>6. CASE encoding' = [encoding EXCEPT ![t] = <<id, 0>>]
  <2>1. InWork' = InWork \cup {id}
    BY <1>1, <1>3, <1>6, WorkBegins DEF FateInv
  <2>2. Progress(id, 0)'
    BY <1>1, <1>3, NothingSent, ProgressStays
  <2>3. ASSUME NEW u \in Threads, encoding'[u] # <<>>
        PROVE  Progress(encoding[u][1], encoding[u][2])'
    <3>1. CASE u = t
      <4>1. encoding'[u] = <<id, 0>>
        BY <1>6, <3>1 DEF TypeOK
      <4> QED
        BY <2>2, <4>1
    <3>2. CASE u # t
      <4>1. encoding'[u] = encoding[u]
        BY <1>6, <3>2 DEF TypeOK
      <4>2. Progress(encoding[u][1], encoding[u][2])
        BY <2>3, <4>1 DEF SentInv
      <4> QED
        BY <1>1, <4>1, <4>2, ProgressStays
    <3> QED
      BY <3>1, <3>2
  <2>4. \A j \in finished : Progress(j, Len(symbols(j)))'
    BY <1>1, ProgressStays DEF SentInv
  <2> QED
    BY <1>1, <2>1, <2>3, <2>4 DEF SentInv
<1> QED
  BY <1>4, <1>5, <1>6

LEMMA SentSend ==
  ASSUME TypeOK, FateInv, SentInv, counter <= IdSpace, NEW t \in Threads, SendSymbol(t)
  PROVE  SentInv'
<1>1. encoding[t] # <<>> /\ finished' = finished
  BY DEF SendSymbol
<1>2. PICK id \in Ids, m \in Nat : /\ encoding[t] = <<id, m>>
                                   /\ encoding[t][1] = id /\ encoding[t][2] = m
  BY <1>1, WorkerAt
<1>3. id \in InWork \cup finished /\ id \notin finished
  <2>1. id \in InWork
    BY <1>1, <1>2 DEF InWork
  <2> QED
    BY <2>1 DEF FateInv, Apart
<1>4. encoding' = [encoding EXCEPT ![t] = <<id, m + 1>>] /\ m + 1 <= Len(symbols(id))
  BY <1>2 DEF SendSymbol
<1>5. symbols(id)[m + 1] = m
  BY <1>2, <1>4, SymbolsOf
<1>6. Progress(id, m)
  BY <1>1, <1>2 DEF SentInv
<1>7. InWork' = InWork
  BY <1>1, <1>2, <1>4, WorkGoesOn DEF FateInv
<1>8. \/ /\ net' = net \cup {PacketHeader(id, m)} /\ sentCount' = sentCount + 1
         /\ unsent' = unsent
      \/ net' = net /\ sentCount' = sentCount /\ unsent' = [unsent EXCEPT ![id] = @ + 1]
  BY <1>2, <1>5 DEF SendSymbol
<1>9. IsFiniteSet(SentSymbols(id)) /\ m \notin SentSymbols(id)
  <2>1. SentSymbols(id) \subseteq 0..(m - 1) /\ IsFiniteSet(0..(m - 1))
    <3>1. 0 \in Int /\ m - 1 \in Int
      BY <1>2
    <3>2. IsFiniteSet(0..(m - 1))
      BY <3>1, FS_Interval
    <3> QED
      BY <1>6, <3>2 DEF Progress
  <2>2. m \notin 0..(m - 1)
    BY <1>2
  <2> QED
    BY <2>1, <2>2, FS_Subset
<1>10. /\ IsFiniteSet(net') /\ sentCount' = Cardinality(net')
       /\ \A d \in net' : \E j \in InWork' \cup finished' : \E i \in Nat : d = PacketHeader(j, i)
       /\ \A j \in Ids : j # id => SentSymbols(j)' = SentSymbols(j) /\ unsent'[j] = unsent[j]
       /\ Cardinality(SentSymbols(id)') + unsent'[id] = m + 1
       /\ SentSymbols(id)' \subseteq 0..m
  <2>1. /\ Cardinality(SentSymbols(id)) + unsent[id] = m
        /\ Cardinality(SentSymbols(id)) \in Nat /\ unsent[id] \in Nat
        /\ SentSymbols(id) \subseteq 0..m
    <3>1. 0..(m - 1) \subseteq 0..m
      BY <1>2
    <3> QED
      BY <1>6, <1>9, <3>1, FS_CardinalityType DEF Progress, TypeOK
  <2>2. CASE /\ net' = net \cup {PacketHeader(id, m)} /\ sentCount' = sentCount + 1
             /\ unsent' = unsent
    <3>1. PacketHeader(id, m).stream_id = id
      BY <1>3, IdFits
    <3>2. /\ SentSymbols(id)' = SentSymbols(id) \cup {m}
          /\ \A j : j # id => SentSymbols(j)' = SentSymbols(j)
      BY <2>2, <3>1, SentAfter
    <3>3. PacketHeader(id, m) \notin net
      <4> SUFFICES ASSUME PacketHeader(id, m) \in net PROVE m \in SentSymbols(id)
        BY <1>9
      <4>1. PacketHeader(id, m).symbol_id = m
        BY DEF PacketHeader
      <4> QED
        BY <3>1, <4>1 DEF SentSymbols
    <3>4. IsFiniteSet(net') /\ Cardinality(net') = Cardinality(net) + 1
      BY <2>2, <3>3, FS_AddElement DEF SentInv
    <3>5. Cardinality(SentSymbols(id)') = Cardinality(SentSymbols(id)) + 1
      BY <1>9, <3>2, FS_AddElement
    <3>6. m \in 0..m
      BY <1>2
    <3>7. sentCount' = Cardinality(net')
      BY <2>2, <3>4 DEF SentInv
    <3>8. \A d \in net' : \E j \in InWork' \cup finished' : \E i \in Nat : d = PacketHeader(j, i)
      BY <1>1, <1>2, <1>3, <1>7, <2>2 DEF SentInv
    <3>9. Cardinality(SentSymbols(id)') + unsent'[id] = m + 1
      BY <2>1, <2>2, <3>5
    <3> QED
      BY <2>1, <2>2, <3>2, <3>4, <3>6, <3>7, <3>8, <3>9
  <2>3. CASE net' = net /\ sentCount' = sentCount /\ unsent' = [unsent EXCEPT ![id] = @ + 1]
    <3>1. \A j : SentSymbols(j)' = SentSymbols(j)
      BY <2>3 DEF SentSymbols
    <3>2. \A j \in Ids : unsent'[j] = IF j = id THEN unsent[id] + 1 ELSE unsent[j]
      BY <2>3 DEF TypeOK
    <3>3. \A d \in net' : \E j \in InWork' \cup finished' : \E i \in Nat : d = PacketHeader(j, i)
      BY <1>1, <1>7, <2>3 DEF SentInv
    <3>4. Cardinality(SentSymbols(id)') + unsent'[id] = m + 1
      BY <1>2, <2>1, <3>1, <3>2
    <3> QED
      BY <2>1, <2>3, <3>1, <3>2, <3>3, <3>4 DEF SentInv
  <2> QED
    BY <1>8, <2>2, <2>3
<1>11. Progress(id, m + 1)'
  <2>1. m + 1 \in 0..Len(symbols(id)) /\ (m + 1) - 1 = m
    BY <1>2, <1>4, SymbolsOf
  <2> QED
    BY <1>10, <2>1 DEF Progress
<1>12. ASSUME NEW j \in Ids, j # id, NEW n, Progress(j, n) PROVE Progress(j, n)'
  BY <1>10, <1>12 DEF Progress
<1>13. ASSUME NEW u \in Threads, encoding'[u] # <<>>
       PROVE  Progress(encoding[u][1], encoding[u][2])'
  <2>1. CASE u = t
    <3>1. encoding'[u] = <<id, m + 1>>
      BY <1>4, <2>1 DEF TypeOK
    <3> QED
      BY <1>11, <3>1
  <2>2. CASE u # t
    <3>1. encoding'[u] = encoding[u]
      BY <1>4, <2>2 DEF TypeOK
    <3>2. Progress(encoding[u][1], encoding[u][2]) /\ encoding[u][1] \in Ids
      BY <1>13, <3>1, WorkerAt DEF SentInv
    <3>3. encoding[u][1] # id
      BY <1>1, <1>2, <1>13, <2>2, <3>1 DEF FateInv, AloneInWork
    <3> QED
      BY <1>12, <3>1, <3>2, <3>3
  <2> QED
    BY <2>1, <2>2
<1>14. \A j \in finished : Progress(j, Len(symbols(j)))'
  <2>1. \A j \in finished : j \in Ids /\ j # id
    BY <1>3 DEF TypeOK
  <2> QED
    BY <1>12, <2>1 DEF SentInv
<1>15. \A j \in Ids \ (InWork' \cup finished') : unsent'[j] = 0
  BY <1>1, <1>3, <1>7, <1>10 DEF SentInv
<1> QED
  BY <1>1, <1>10, <1>13, <1>14, <1>15 DEF SentInv

LEMMA SentFinish ==
  ASSUME TypeOK, FateInv, SentInv, NEW t \in Threads, FinishItem(t)
  PROVE  SentInv'
<1>1. /\ encoding[t] # <<>> /\ UNCHANGED <<sentCount, net, unsent>>
      /\ encoding' = [encoding EXCEPT ![t] = <<>>]
  BY DEF FinishItem
<1>2. PICK id \in Ids : encoding[t][1] = id /\ encoding[t][2] = Len(symbols(id))
  BY <1>1, WorkerAt DEF FinishItem
<1>3. finished' = finished \cup {id}
  BY <1>2 DEF FinishItem
<1>4. InWork' = InWork \ {id} /\ id \in InWork
  BY <1>1, <1>2, WorkEnds DEF FateInv
<1>5. Progress(id, Len(symbols(id)))
  BY <1>1, <1>2 DEF SentInv
<1>6. \A j \in finished' : Progress(j, Len(symbols(j)))'
  BY <1>1, <1>3, <1>5, ProgressStays DEF SentInv
<1>7. ASSUME NEW u \in Threads, encoding'[u] # <<>>
      PROVE  Progress(encoding[u][1], encoding[u][2])'
  <2>1. encoding'[u] = encoding[u]
    BY <1>1, <1>7 DEF TypeOK
  <2>2. Progress(encoding[u][1], encoding[u][2])
    BY <1>7, <2>1 DEF SentInv
  <2> QED
    BY <1>1, <2>1, <2>2, ProgressStays
<1>8. InWork' \cup finished' = InWork \cup finished
  BY <1>3, <1>4
<1> QED
  BY <1>1, <1>6, <1>7, <1>8 DEF SentInv

(* The steps that send nothing and take no item. *)
LEMMA SentStays ==
  ASSUME SentInv, UNCHANGED <<sentCount, net, finished, unsent>>, InWork' = InWork,
         \A t \in Threads : encoding'[t] # <<>> => encoding'[t] = encoding[t]
  PROVE  SentInv'
<1>1. ASSUME NEW t \in Threads, encoding'[t] # <<>>
      PROVE  Progress(encoding[t][1], encoding[t][2])'
  <2>1. encoding'[t] = encoding[t]
    BY <1>1
  <2>2. Progress(encoding[t][1], encoding[t][2])
    BY <1>1, <2>1 DEF SentInv
  <2> QED
    BY <2>1, <2>2, ProgressStays
<1>2. \A j \in finished' : Progress(j, Len(symbols(j)))'
  BY ProgressStays DEF SentInv
<1> QED
  BY <1>1, <1>2 DEF SentInv

LEMMA SentStep ==
  TypeOK /\ FateInv /\ StopInv /\ (counter <= IdSpace => SentInv) /\ [Next]_vars
    => (counter <= IdSpace => SentInv)'
<1> SUFFICES ASSUME TypeOK, FateInv, StopInv, counter <= IdSpace => SentInv, [Next]_vars,
                    counter' <= IdSpace
             PROVE  SentInv'
  OBVIOUS
<1>1. counter <= IdSpace /\ SentInv
  <2>1. counter \in Nat /\ IdSpace \in Nat
    BY MaxIdsAssumption, IdSpaceAssumption DEF TypeOK
  <2>2. counter' = counter \/ counter' = counter + 1
    BY DEF Next, vars, callVars, AllocateId, CheckRunning, PushItem, UseDestroyedQueue,
           CreateQueue, BeginItem, SendSymbol, FinishItem, ThreadExit, CloseQueue, Start,
           StopCalled, BreakLoops, JoinThreads
  <2> QED
    BY <2>1, <2>2
<1>2. CASE UNCHANGED <<encoding, sentCount, net, finished, unsent>>
  <2>1. InWork' = InWork
    BY <1>2 DEF InWork
  <2> QED
    BY <1>1, <1>2, <2>1, SentStays
<1>3. ASSUME NEW t \in Threads, BeginItem(t) \/ SendSymbol(t) \/ FinishItem(t)
      PROVE  SentInv'
  BY <1>1, <1>3, SentBegin, SentSend, SentFinish
<1>4. CASE JoinThreads
  <2>1. /\ UNCHANGED <<sentCount, net, finished, unsent>>
        /\ \A t \in Threads : encoding[t] = <<>> /\ encoding'[t] = <<>>
    BY <1>4 DEF JoinThreads, StopInv
  <2>2. InWork' = InWork
    BY <2>1 DEF InWork
  <2> QED
    BY <1>1, <2>1, <2>2, SentStays
<1>5. CASE UNCHANGED vars
  BY <1>2, <1>5 DEF vars, workVars
<1>6. ASSUME NEW c \in Callers,
             AllocateId(c) \/ CheckRunning(c) \/ PushItem(c) \/ UseDestroyedQueue(c)
      PROVE  SentInv'
  BY <1>2, <1>6 DEF AllocateId, CheckRunning, PushItem, UseDestroyedQueue, workVars
<1>7. ASSUME NEW t \in Threads, CreateQueue(t) \/ ThreadExit(t) \/ CloseQueue(t)
      PROVE  SentInv'
  BY <1>2, <1>7 DEF CreateQueue, ThreadExit, CloseQueue, workVars
<1>8. CASE Start \/ StopCalled \/ BreakLoops
  BY <1>2, <1>8 DEF Start, StopCalled, BreakLoops, workVars
<1> QED
  BY <1>3, <1>4, <1>5, <1>6, <1>7, <1>8 DEF Next

LEMMA SentInit == Init => SentInv
<1> SUFFICES ASSUME Init PROVE SentInv
  OBVIOUS
<1>1. net = {} /\ sentCount = 0 /\ finished = {} /\ IsFiniteSet(net) /\ Cardinality(net) = 0
  BY FS_EmptySet DEF Init
<1>2. \A t \in Threads : encoding[t] = <<>>
  BY DEF Init
<1>3. \A id \in Ids : unsent[id] = 0
  BY DEF Init
<1> QED
  BY <1>1, <1>2, <1>3 DEF SentInv

LEMMA SentHolds ==
  TypeOK /\ FateInv /\ (counter <= IdSpace => SentInv) => EncodedIsDecodable
<1> SUFFICES ASSUME TypeOK, FateInv, SentInv, counter <= IdSpace
             PROVE  EncodedIsDecodable
  BY DEF EncodedIsDecodable
<1>1. ASSUME NEW id \in finished, NEW d \in net, d.stream_id = id,
             unsent[id] <= RepairCount(calculateBlockSize(DataSize[id], symbol_size),
                                       repair_count(id))
      PROVE  canDecode(SentSymbols(id), d.original_size, d.symbol_size)
  <2> DEFINE K == calculateBlockSize(DataSize[id], symbol_size)
             m == RepairCount(K, repair_count(id))
  <2>1. d.original_size = DataSize[id] /\ d.symbol_size = symbol_size
    <3>1. PICK j \in InWork \cup finished, i \in Nat : d = PacketHeader(j, i)
      BY DEF SentInv
    <3>2. j = id
      BY <1>1, <3>1, IdFits
    <3> QED
      BY <3>1, <3>2 DEF PacketHeader
  <2>2. id \in Ids /\ unsent[id] \in Nat
    BY DEF TypeOK
  <2>3. K \in Nat \ {0} /\ m \in Nat \ {0} /\ Len(symbols(id)) = K + m
    BY <2>2, SymbolsOf
  <2>4. /\ Cardinality(SentSymbols(id)) + unsent[id] = Len(symbols(id))
        /\ SentSymbols(id) \subseteq 0..(Len(symbols(id)) - 1)
    BY DEF SentInv, Progress
  <2>5. Cardinality(SentSymbols(id)) \in Nat
    <3>1. IsFiniteSet(0..(Len(symbols(id)) - 1))
      BY <2>3, FS_Interval
    <3> QED
      BY <2>4, <3>1, FS_Subset, FS_CardinalityType
  <2>6. unsent[id] <= m
    BY <1>1
  <2> HIDE DEF K, m
  <2>7. Cardinality(SentSymbols(id)) >= K
    BY <2>2, <2>3, <2>4, <2>5, <2>6
  <2> QED
    BY <2>1, <2>7 DEF canDecode, K
<1> QED
  BY <1>1 DEF EncodedIsDecodable, SentInv

(* While ids fit in the header, no symbol is sent twice, and an item for which
   no more sends failed than it has repair symbols can be decoded from what is on
   the net, whatever other threads send meanwhile. *)
THEOREM SentIsDecodable == Spec => []EncodedIsDecodable
<1>1. Init => TypeOK /\ FateInv /\ StopInv /\ (counter <= IdSpace => SentInv)
  <2>1. Init => StopInv
    BY DEF Init, StopInv
  <2> QED
    BY <2>1, TypeInit, FateInit, SentInit
<1>2. TypeOK /\ FateInv /\ StopInv /\ (counter <= IdSpace => SentInv) /\ [Next]_vars
        => (TypeOK /\ FateInv /\ StopInv /\ (counter <= IdSpace => SentInv))'
  BY TypeStep, FateStep, StopStep, SentStep
<1> QED
  BY <1>1, <1>2, SentHolds, PTL DEF Spec
=============================================================================
