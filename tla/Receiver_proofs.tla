---------------------------- MODULE Receiver_proofs ----------------------------
(***************************************************************************)
(* Proofs about Receiver, for any streams and symbols, any number of       *)
(* threads, any size of their queues and any K.                            *)
(***************************************************************************)
EXTENDS Receiver, FiniteSetTheorems, SequenceTheorems, TLAPS

(* A stream's thread is one of the threads. *)
LEMMA OwnerType ==
  ASSUME NEW n \in Nat
  PROVE  n % N \in Threads
  BY NAssumption DEF Threads

LEMMA DatagramType ==
  ASSUME NEW d \in Datagrams
  PROVE  /\ d.kind \in {"symbol", "oversized", "short"}
         /\ d.kind = "symbol" => d.stream \in Streams /\ d.symbol \in Symbols
  BY DEF Datagrams

(* What a worker finds at the head of its queue, and what it leaves. *)
LEMMA HeadOfQueue ==
  ASSUME TypeOK, NEW t \in Threads, queues[t] # <<>>
  PROVE  /\ Head(queues[t]) \in Datagrams
         /\ Head(queues[t]) = queues[t][1]
         /\ 1 \in DOMAIN queues[t]
         /\ Tail(queues[t]) \in Seq(Datagrams)
         /\ Len(Tail(queues[t])) <= QueueCap
         /\ \A i \in DOMAIN Tail(queues[t]) :
              i + 1 \in DOMAIN queues[t] /\ Tail(queues[t])[i] = queues[t][i + 1]
<1> DEFINE q == queues[t]
<1>1. q \in Seq(Datagrams) /\ Len(q) <= QueueCap /\ q # <<>>
  BY DEF TypeOK
<1> HIDE DEF q
<1>2. Len(q) \in Nat \ {0} /\ DOMAIN q = 1..Len(q)
  BY <1>1, EmptySeq, LenProperties
<1>3. /\ Tail(q) \in Seq(Datagrams) /\ Len(Tail(q)) = Len(q) - 1
      /\ \A i \in 1..Len(Tail(q)) : Tail(q)[i] = q[i + 1]
      /\ Head(q) \in Datagrams
  BY <1>1, HeadTailProperties
<1>4. DOMAIN Tail(q) = 1..(Len(q) - 1)
  BY <1>3, LenProperties
<1>5. Head(q) = q[1]
  BY <1>1
<1> QED
  BY <1>1, <1>2, <1>3, <1>4, <1>5, QueueCapAssumption DEF q

-----------------------------------------------------------------------------
LEMMA TypeInit == Init => TypeOK
<1> SUFFICES ASSUME Init PROVE TypeOK
  OBVIOUS
<1>1. <<>> \in Seq(Datagrams) /\ <<>> \in Seq(Streams) /\ Len(<<>>) = 0
  BY EmptySeq
<1>2. queues \in [Threads -> Seq(Datagrams)] /\ \A t \in Threads : Len(queues[t]) <= QueueCap
  BY <1>1, QueueCapAssumption DEF Init
<1> QED
  BY <1>1, <1>2, MaxArrivalsAssumption DEF Init, TypeOK

LEMMA TypeReceive ==
  ASSUME TypeOK, NEW d \in Datagrams, onReceive(d)
  PROVE  TypeOK'
<1>1. count' \in 0..MaxArrivals
  BY MaxArrivalsAssumption DEF TypeOK, onReceive
<1>2. UNCHANGED <<open, made, symbols, done, reports, faults>>
  BY DEF onReceive
<1>3. CASE UNCHANGED <<queues, accepted>>
  BY <1>1, <1>2, <1>3 DEF TypeOK
<1> DEFINE t == selectQueue(d)
<1>4. CASE /\ t \in open /\ HasRoom(t)
           /\ queues' = [queues EXCEPT ![t] = Append(@, d)]
           /\ accepted' = IF d.kind = "symbol"
                          THEN accepted \cup {<<d.stream, d.symbol>>} ELSE accepted
  <2>1. t \in Threads /\ queues[t] \in Seq(Datagrams)
    BY <1>4 DEF TypeOK
  <2> HIDE DEF t
  <2>2. Append(queues[t], d) \in Seq(Datagrams) /\ Len(Append(queues[t], d)) <= QueueCap
    BY <1>4, <2>1, AppendProperties, LenProperties, QueueCapAssumption DEF HasRoom
  <2>3. /\ queues' \in [Threads -> Seq(Datagrams)]
        /\ \A u \in Threads : Len(queues'[u]) <= QueueCap
    BY <1>4, <2>1, <2>2 DEF TypeOK
  <2>4. accepted' \in SUBSET (Streams \X Symbols)
    BY <1>4, DatagramType DEF TypeOK
  <2> QED
    BY <1>1, <1>2, <2>3, <2>4 DEF TypeOK
<1> QED
  BY <1>3, <1>4 DEF onReceive

LEMMA TypeDecode ==
  ASSUME TypeOK, NEW t \in Threads, NEW s \in Streams, NEW received, TryDecode(t, s, received)
  PROVE  /\ done' \in [Threads -> SUBSET Streams]
         /\ reports' \in Seq(Streams) /\ faults' \in SUBSET Streams
<1>1. Append(reports, s) \in Seq(Streams)
  BY AppendProperties DEF TypeOK
<1>2. \/ done' = [done EXCEPT ![t] = @ \cup {s}] /\ reports' = Append(reports, s) /\ faults' = faults
      \/ faults' = faults \cup {s} /\ UNCHANGED <<done, reports>>
      \/ UNCHANGED <<done, reports, faults>>
  BY DEF TryDecode
<1>3. done' \in [Threads -> SUBSET Streams]
  <2>1. [done EXCEPT ![t] = @ \cup {s}] \in [Threads -> SUBSET Streams]
    BY DEF TypeOK
  <2>2. done \in [Threads -> SUBSET Streams]
    BY DEF TypeOK
  <2> QED
    BY <1>2, <2>1, <2>2
<1>4. reports' \in Seq(Streams)
  BY <1>1, <1>2 DEF TypeOK
<1>5. faults' \in SUBSET Streams
  BY <1>2 DEF TypeOK
<1> QED
  BY <1>3, <1>4, <1>5

LEMMA TypeAdd ==
  ASSUME TypeOK, NEW t \in Threads, NEW s \in Streams, NEW i \in Symbols, AddSymbol(t, s, i)
  PROVE  /\ symbols' \in [Threads -> [Streams -> SUBSET Symbols]]
         /\ done' \in [Threads -> SUBSET Streams]
         /\ reports' \in Seq(Streams) /\ faults' \in SUBSET Streams
<1>1. CASE /\ symbols' = [symbols EXCEPT ![t][s] = @ \cup {i}]
           /\ TryDecode(t, s, symbols[t][s] \cup {i})
  <2>1. symbols' \in [Threads -> [Streams -> SUBSET Symbols]]
    BY <1>1 DEF TypeOK
  <2> QED
    BY <1>1, <2>1, TypeDecode
<1>2. CASE UNCHANGED symbols /\ TryDecode(t, s, symbols[t][s])
  BY <1>2, TypeDecode DEF TypeOK
<1>3. CASE UNCHANGED <<symbols, done, reports>> /\ faults' \in {faults, faults \cup {s}}
  BY <1>3 DEF TypeOK
<1> QED
  BY <1>1, <1>2, <1>3 DEF AddSymbol

LEMMA TypeProcess ==
  ASSUME TypeOK, NEW t \in Threads, processPacket(t)
  PROVE  TypeOK'
<1> DEFINE d == Head(queues[t])
<1>1. /\ queues' \in [Threads -> Seq(Datagrams)]
      /\ \A u \in Threads : Len(queues'[u]) <= QueueCap
  <2>1. Tail(queues[t]) \in Seq(Datagrams) /\ Len(Tail(queues[t])) <= QueueCap
    BY HeadOfQueue DEF processPacket
  <2> QED
    BY <2>1 DEF processPacket, TypeOK
<1>2. d \in Datagrams
  BY HeadOfQueue DEF processPacket
<1>3. UNCHANGED <<count, open, accepted>>
  BY DEF processPacket
<1>4. \/ UNCHANGED <<made, symbols, done, reports, faults>>
      \/ d.kind = "symbol" /\ DecoderNotMade(t, d.stream)
      \/ /\ d.kind = "symbol"
         /\ made' = [made EXCEPT ![t] = @ \cup {d.stream}]
         /\ AddSymbol(t, d.stream, d.symbol)
  BY DEF processPacket
<1> HIDE DEF d
<1>5. CASE UNCHANGED <<made, symbols, done, reports, faults>>
  BY <1>1, <1>3, <1>5 DEF TypeOK
<1>6. CASE d.kind = "symbol" /\ DecoderNotMade(t, d.stream)
  BY <1>1, <1>2, <1>3, <1>6, DatagramType DEF TypeOK, DecoderNotMade
<1>7. CASE /\ d.kind = "symbol"
           /\ made' = [made EXCEPT ![t] = @ \cup {d.stream}]
           /\ AddSymbol(t, d.stream, d.symbol)
  <2>1. d.stream \in Streams /\ d.symbol \in Symbols
    BY <1>2, <1>7, DatagramType
  <2>2. made' \in [Threads -> SUBSET Streams]
    BY <1>7, <2>1 DEF TypeOK
  <2> QED
    BY <1>1, <1>3, <1>7, <2>1, <2>2, TypeAdd DEF TypeOK
<1> QED
  BY <1>4, <1>5, <1>6, <1>7

LEMMA TypeStep == TypeOK /\ [Next]_vars => TypeOK'
<1> SUFFICES ASSUME TypeOK, [Next]_vars PROVE TypeOK'
  OBVIOUS
<1>1. ASSUME NEW t \in Threads, CreateQueue(t) PROVE TypeOK'
  BY <1>1 DEF CreateQueue, TypeOK
<1>2. CASE UNCHANGED vars
  BY <1>2 DEF vars, TypeOK
<1> QED
  BY <1>1, <1>2, TypeReceive, TypeProcess DEF Next

(* The decoders hold symbols of the streams' ids, and no queue is longer than
   its limit. *)
THEOREM TypeCorrect == Spec => []TypeOK
  BY TypeInit, TypeStep, PTL DEF Spec

-----------------------------------------------------------------------------
(* What waits in a queue: each datagram is of a stream of that thread, and its
   symbol has been counted as accepted. *)
QueuesInv ==
  \A t \in Threads : \A i \in DOMAIN queues[t] :
    queues[t][i].kind = "symbol" =>
      /\ t = queues[t][i].stream % N
      /\ <<queues[t][i].stream, queues[t][i].symbol>> \in accepted

(* The accepted symbols of a stream. *)
AcceptedOf(s) == {i \in Symbols : <<s, i>> \in accepted}

OwnerInv == QueuesInv /\ OneOwner

LEMMA AcceptedFinite ==
  ASSUME NEW s
  PROVE  IsFiniteSet(AcceptedOf(s)) /\ Cardinality(AcceptedOf(s)) \in Nat
<1>1. AcceptedOf(s) \subseteq Symbols
  BY DEF AcceptedOf
<1> QED
  BY <1>1, SymbolsAssumption, FS_Subset, FS_CardinalityType

(* The datagram that a worker takes. *)
LEMMA TakenIsOwn ==
  ASSUME TypeOK, QueuesInv, NEW t \in Threads, processPacket(t),
         Head(queues[t]).kind = "symbol"
  PROVE  LET d == Head(queues[t]) IN
         /\ d.stream \in Streams /\ d.symbol \in Symbols
         /\ t = d.stream % N
         /\ <<d.stream, d.symbol>> \in accepted
<1>1. queues[t] # <<>>
  BY DEF processPacket
<1>2. /\ Head(queues[t]) \in Datagrams /\ Head(queues[t]) = queues[t][1]
      /\ 1 \in DOMAIN queues[t]
  BY <1>1, HeadOfQueue
<1>3. /\ t = queues[t][1].stream % N
      /\ <<queues[t][1].stream, queues[t][1].symbol>> \in accepted
  BY <1>2 DEF QueuesInv
<1> QED
  BY <1>2, <1>3, DatagramType

LEMMA QueuesStep ==
  ASSUME TypeOK, QueuesInv, [Next]_vars
  PROVE  QueuesInv'
<1>1. CASE UNCHANGED <<queues, accepted>>
  BY <1>1 DEF QueuesInv
<1>2. CASE \/ \E t \in Threads : CreateQueue(t)
           \/ UNCHANGED vars
  BY <1>1, <1>2 DEF CreateQueue, vars
<1>3. ASSUME NEW t \in Threads, processPacket(t)
      PROVE  QueuesInv'
  <2> SUFFICES ASSUME NEW u \in Threads, NEW i \in DOMAIN queues'[u],
                      queues'[u][i].kind = "symbol"
               PROVE  /\ u = queues'[u][i].stream % N
                      /\ <<queues'[u][i].stream, queues'[u][i].symbol>> \in accepted'
    BY DEF QueuesInv
  <2>1. /\ queues' = [queues EXCEPT ![t] = Tail(@)] /\ accepted' = accepted
        /\ queues[t] # <<>>
    BY <1>3 DEF processPacket
  <2>2. CASE u # t
    <3>1. queues'[u] = queues[u]
      BY <2>1, <2>2 DEF TypeOK
    <3>2. queues'[u][i] = queues[u][i] /\ accepted' = accepted
      BY <2>1, <3>1
    <3>3. i \in DOMAIN queues[u] /\ queues[u][i].kind = "symbol"
      BY <3>1
    <3>4. /\ u = queues[u][i].stream % N
          /\ <<queues[u][i].stream, queues[u][i].symbol>> \in accepted
      BY <3>3 DEF QueuesInv
    <3> QED
      BY <3>2, <3>4
  <2>3. CASE u = t
    <3>1. queues'[u] = Tail(queues[t])
      BY <2>1, <2>3 DEF TypeOK
    <3>2. i \in DOMAIN Tail(queues[t])
      BY <3>1
    <3>3. i + 1 \in DOMAIN queues[t] /\ queues'[u][i] = queues[t][i + 1]
      BY <2>1, <3>1, <3>2, HeadOfQueue
    <3> QED
      BY <2>1, <2>3, <3>3 DEF QueuesInv
  <2> QED
    BY <2>2, <2>3
<1>4. ASSUME NEW d \in Datagrams, onReceive(d)
      PROVE  QueuesInv'
  <2> DEFINE t == selectQueue(d)
  <2>1. CASE UNCHANGED <<queues, accepted>>
    BY <1>1, <2>1
  <2>2. CASE /\ t \in open
             /\ queues' = [queues EXCEPT ![t] = Append(@, d)]
             /\ accepted' = IF d.kind = "symbol"
                            THEN accepted \cup {<<d.stream, d.symbol>>} ELSE accepted
    <3>1. t \in Threads /\ queues[t] \in Seq(Datagrams)
      BY <2>2 DEF TypeOK
    <3>2. d.kind = "symbol" => t = d.stream % N
      BY DEF selectQueue
    <3> HIDE DEF t
    <3>3. /\ Len(queues[t]) \in Nat /\ DOMAIN queues[t] = 1..Len(queues[t])
          /\ DOMAIN Append(queues[t], d) = 1..(Len(queues[t]) + 1)
          /\ \A i \in 1..Len(queues[t]) : Append(queues[t], d)[i] = queues[t][i]
          /\ Append(queues[t], d)[Len(queues[t]) + 1] = d
      BY <3>1, AppendProperties, LenProperties
    <3>4. accepted \subseteq accepted'
      BY <2>2
    <3>5. d.kind = "symbol" => <<d.stream, d.symbol>> \in accepted'
      BY <2>2
    <3> SUFFICES ASSUME NEW u \in Threads, NEW i \in DOMAIN queues'[u],
                        queues'[u][i].kind = "symbol"
                 PROVE  /\ u = queues'[u][i].stream % N
                        /\ <<queues'[u][i].stream, queues'[u][i].symbol>> \in accepted'
      BY DEF QueuesInv
    <3>6. CASE u = t /\ i = Len(queues[t]) + 1
      <4>1. queues'[u][i] = d
        BY <2>2, <3>1, <3>3, <3>6 DEF TypeOK
      <4> QED
        BY <3>2, <3>5, <3>6, <4>1
    <3>7. CASE ~(u = t /\ i = Len(queues[t]) + 1)
      <4>1. i \in DOMAIN queues[u] /\ queues'[u][i] = queues[u][i]
        BY <2>2, <3>1, <3>3, <3>7 DEF TypeOK
      <4> QED
        BY <3>4, <4>1 DEF QueuesInv
    <3> QED
      BY <3>6, <3>7
  <2> QED
    BY <1>4, <2>1, <2>2 DEF onReceive
<1> QED
  BY <1>2, <1>3, <1>4 DEF Next

(* What a step does to the decoders: nothing, or it is one with a symbol of a
   stream of the thread's own. *)
LEMMA DecoderStep ==
  ASSUME TypeOK, QueuesInv, [Next]_vars
  PROVE  \/ UNCHANGED <<made, symbols, done, reports>>
         \/ \E t \in Threads, s \in Streams, i \in Symbols :
              /\ t = s % N /\ <<s, i>> \in accepted /\ accepted' = accepted
              /\ made' = [made EXCEPT ![t] = @ \cup {s}]
              /\ AddSymbol(t, s, i)
<1>1. CASE \/ \E t \in Threads : CreateQueue(t)
           \/ \E d \in Datagrams : onReceive(d)
           \/ UNCHANGED vars
  BY <1>1 DEF CreateQueue, onReceive, vars
<1>2. ASSUME NEW t \in Threads, processPacket(t)
      PROVE  \/ UNCHANGED <<made, symbols, done, reports>>
             \/ \E s \in Streams, i \in Symbols :
                  /\ t = s % N /\ <<s, i>> \in accepted /\ accepted' = accepted
                  /\ made' = [made EXCEPT ![t] = @ \cup {s}]
                  /\ AddSymbol(t, s, i)
  <2> DEFINE d == Head(queues[t])
  <2>1. \/ UNCHANGED <<made, symbols, done, reports>>
        \/ /\ d.kind = "symbol"
           /\ made' = [made EXCEPT ![t] = @ \cup {d.stream}]
           /\ AddSymbol(t, d.stream, d.symbol)
    BY <1>2 DEF processPacket, DecoderNotMade
  <2>2. accepted' = accepted
    BY <1>2 DEF processPacket
  <2>3. d.kind = "symbol" => /\ d.stream \in Streams /\ d.symbol \in Symbols
                             /\ t = d.stream % N
                             /\ <<d.stream, d.symbol>> \in accepted
    BY <1>2, TakenIsOwn
  <2> HIDE DEF d
  <2> QED
    BY <2>1, <2>2, <2>3
<1> QED
  BY <1>1, <1>2 DEF Next

(* What AddSymbol does to the thread's decoders. *)
LEMMA AddSymbolEffect ==
  ASSUME TypeOK, NEW t \in Threads, NEW s \in Streams, NEW i \in Symbols, AddSymbol(t, s, i)
  PROVE  /\ symbols' \in {symbols, [symbols EXCEPT ![t][s] = @ \cup {i}]}
         /\ \/ UNCHANGED <<done, reports>>
            \/ /\ s \notin done[t]
               /\ canDecode(symbols[t][s]) \/ canDecode(symbols[t][s] \cup {i})
               /\ done' = [done EXCEPT ![t] = @ \cup {s}]
               /\ reports' = Append(reports, s)
  BY DEF AddSymbol, TryDecode, IsNew

(* The one decoder that it may change. *)
LEMMA AddSymbolElsewhere ==
  ASSUME TypeOK, NEW t \in Threads, NEW s \in Streams, NEW i \in Symbols, AddSymbol(t, s, i),
         NEW u \in Threads, NEW r \in Streams
  PROVE  /\ symbols'[u][r] \subseteq
              symbols[u][r] \cup (IF u = t /\ r = s THEN {i} ELSE {})
         /\ done'[u] \subseteq done[u] \cup (IF u = t THEN {s} ELSE {})
<1>1. symbols \in [Threads -> [Streams -> SUBSET Symbols]]
  BY DEF TypeOK
<1>2. done \in [Threads -> SUBSET Streams]
  BY DEF TypeOK
<1>3. symbols' = symbols \/ symbols' = [symbols EXCEPT ![t][s] = @ \cup {i}]
  BY AddSymbolEffect
<1>4. \/ symbols'[u][r] = symbols[u][r]
      \/ u = t /\ r = s /\ symbols'[u][r] = symbols[u][r] \cup {i}
  BY <1>1, <1>3
<1>5. done' = done \/ done' = [done EXCEPT ![t] = @ \cup {s}]
  BY AddSymbolEffect
<1>6. \/ done'[u] = done[u]
      \/ u = t /\ done'[u] = done[u] \cup {s}
  BY <1>2, <1>5
<1>7. symbols'[u][r] \subseteq
        symbols[u][r] \cup (IF u = t /\ r = s THEN {i} ELSE {})
  BY <1>4
<1>8. done'[u] \subseteq done[u] \cup (IF u = t THEN {s} ELSE {})
  BY <1>6
<1> QED
  BY <1>7, <1>8

LEMMA OwnerStep ==
  ASSUME TypeOK, TypeOK', OwnerInv, [Next]_vars
  PROVE  OwnerInv'
<1>1. QueuesInv'
  BY QueuesStep DEF OwnerInv
<1>2. CASE UNCHANGED <<made, symbols, done, reports>>
  BY <1>1, <1>2 DEF OwnerInv, OneOwner
<1>3. ASSUME NEW t \in Threads, NEW s \in Streams, NEW i \in Symbols,
             t = s % N, made' = [made EXCEPT ![t] = @ \cup {s}], AddSymbol(t, s, i)
      PROVE  OneOwner'
  <2> SUFFICES ASSUME NEW u \in Threads, NEW r \in Streams,
                      r \in made'[u] \/ symbols'[u][r] # {} \/ r \in done'[u]
               PROVE  u = r % N
    BY DEF OneOwner
  <2>1. CASE u = t /\ r = s
    BY <1>3, <2>1
  <2>2. CASE ~(u = t /\ r = s)
    <3>1. r \in made'[u] => r \in made[u]
      BY <1>3, <2>2 DEF TypeOK
    <3>2. symbols'[u][r] \subseteq symbols[u][r] /\ (r \in done'[u] => r \in done[u])
      BY <1>3, <2>2, AddSymbolElsewhere
    <3> QED
      BY <3>1, <3>2 DEF OwnerInv, OneOwner
  <2> QED
    BY <2>1, <2>2
<1> QED
  BY <1>1, <1>2, <1>3, DecoderStep DEF OwnerInv

LEMMA OwnerInit == Init => OwnerInv
<1> SUFFICES ASSUME Init PROVE OwnerInv
  OBVIOUS
<1>1. \A t \in Threads : DOMAIN queues[t] = {}
  BY DEF Init
<1>2. QueuesInv
  BY <1>1 DEF QueuesInv
<1>3. OneOwner
  BY DEF Init, OneOwner
<1> QED
  BY <1>2, <1>3 DEF OwnerInv

(* Every symbol of a stream goes to one thread, whose decoder is the only one. *)
THEOREM StreamHasOneOwner == Spec => []OneOwner
<1>1. OwnerInv => OneOwner
  BY DEF OwnerInv
<1> QED
  BY <1>1, TypeInit, TypeStep, OwnerInit, OwnerStep, PTL DEF Spec

-----------------------------------------------------------------------------
LEMMA AcceptedGrows ==
  ASSUME [Next]_vars
  PROVE  accepted \subseteq accepted'
  BY DEF Next, CreateQueue, onReceive, processPacket, vars

(* More symbols than K of a stream make K accepted. *)
LEMMA EnoughAccepted ==
  ASSUME TypeOK, NEW s \in Streams, NEW received \in SUBSET Symbols,
         {s} \X received \subseteq accepted, canDecode(received)
  PROVE  Cardinality(AcceptedOf(s)) >= K
<1>1. received \subseteq AcceptedOf(s)
  BY DEF AcceptedOf
<1>2. Cardinality(received) <= Cardinality(AcceptedOf(s)) /\ IsFiniteSet(received)
  BY <1>1, AcceptedFinite, FS_Subset
<1>3. Cardinality(received) \in Nat /\ Cardinality(AcceptedOf(s)) \in Nat
  BY <1>2, AcceptedFinite, FS_CardinalityType
<1> QED
  BY <1>2, <1>3, KAssumption DEF canDecode

LEMMA StillAccepted ==
  ASSUME accepted \subseteq accepted', NEW s, Cardinality(AcceptedOf(s)) >= K
  PROVE  Cardinality(AcceptedOf(s)') >= K
<1> DEFINE A == AcceptedOf(s)
           B == {i \in Symbols : <<s, i>> \in accepted'}
<1>1. A \subseteq B /\ B \subseteq Symbols /\ AcceptedOf(s)' = B
  BY DEF AcceptedOf
<1>2. Cardinality(A) >= K
  OBVIOUS
<1> HIDE DEF A, B
<1>3. IsFiniteSet(B)
  BY <1>1, SymbolsAssumption, FS_Subset
<1>4. Cardinality(A) <= Cardinality(B) /\ IsFiniteSet(A)
  BY <1>1, <1>3, FS_Subset
<1>5. Cardinality(A) \in Nat /\ Cardinality(B) \in Nat
  BY <1>3, <1>4, FS_CardinalityType
<1> QED
  BY <1>1, <1>2, <1>4, <1>5, KAssumption

LEMMA EnoughStep ==
  ASSUME TypeOK, OwnerInv, DecodedFromEnough, [Next]_vars
  PROVE  DecodedFromEnough'
<1>1. accepted \subseteq accepted'
  BY AcceptedGrows
<1>2. CASE UNCHANGED <<made, symbols, done, reports>>
  <2>1. \A s \in Decoded' : s \in Decoded
    BY <1>2 DEF Decoded
  <2>2. \A s \in Decoded : Cardinality(AcceptedOf(s)) >= K
    BY DEF DecodedFromEnough, AcceptedOf
  <2>3. \A s \in Decoded' : Cardinality(AcceptedOf(s)') >= K
    BY <1>1, <2>1, <2>2, StillAccepted
  <2>4. \A t \in Threads, s \in Streams : {s} \X symbols'[t][s] \subseteq accepted'
    BY <1>1, <1>2 DEF DecodedFromEnough
  <2> QED
    BY <2>3, <2>4 DEF DecodedFromEnough, AcceptedOf
<1>3. ASSUME NEW t \in Threads, NEW s \in Streams, NEW i \in Symbols,
             <<s, i>> \in accepted, AddSymbol(t, s, i)
      PROVE  DecodedFromEnough'
  <2>1. {s} \X (symbols[t][s] \cup {i}) \subseteq accepted
    BY <1>3 DEF DecodedFromEnough
  <2>2. \A u \in Threads, r \in Streams : {r} \X symbols'[u][r] \subseteq accepted'
    <3> SUFFICES ASSUME NEW u \in Threads, NEW r \in Streams
                 PROVE  {r} \X symbols'[u][r] \subseteq accepted
      BY <1>1
    <3>1. CASE u = t /\ r = s
      <4>1. symbols'[u][r] \subseteq symbols[t][s] \cup {i}
        BY <1>3, <3>1, AddSymbolElsewhere
      <4> QED
        BY <2>1, <3>1, <4>1
    <3>2. CASE ~(u = t /\ r = s)
      <4>1. symbols'[u][r] \subseteq symbols[u][r]
        BY <1>3, <3>2, AddSymbolElsewhere
      <4> QED
        BY <4>1 DEF DecodedFromEnough
    <3> QED
      BY <3>1, <3>2
  <2>3. symbols[t][s] \in SUBSET Symbols
    BY DEF TypeOK
  <2>4. \A r \in Decoded' : r \in Decoded \/ r = s
    <3> SUFFICES ASSUME NEW r \in Decoded' PROVE r \in Decoded \/ r = s
      OBVIOUS
    <3>1. PICK u \in Threads : r \in done'[u]
      BY DEF Decoded
    <3>2. r \in done[u] \/ r = s
      BY <1>3, <3>1, AddSymbolElsewhere
    <3> QED
      BY <3>2 DEF Decoded
  <2>5. ASSUME s \in Decoded', s \notin Decoded
        PROVE  Cardinality(AcceptedOf(s)) >= K
    <3>1. canDecode(symbols[t][s]) \/ canDecode(symbols[t][s] \cup {i})
      BY <1>3, <2>5, AddSymbolEffect DEF Decoded
    <3>2. {s} \X symbols[t][s] \subseteq accepted
      BY <2>1
    <3> QED
      BY <2>1, <2>3, <3>1, <3>2, EnoughAccepted
  <2>6. \A r \in Decoded : Cardinality(AcceptedOf(r)) >= K
    BY DEF DecodedFromEnough, AcceptedOf
  <2>7. \A r \in Decoded' : Cardinality(AcceptedOf(r)) >= K
    BY <2>4, <2>5, <2>6
  <2>8. \A r \in Decoded' : Cardinality(AcceptedOf(r)') >= K
    BY <1>1, <2>7, StillAccepted
  <2> QED
    BY <2>2, <2>8 DEF DecodedFromEnough, AcceptedOf
<1> QED
  BY <1>2, <1>3, DecoderStep DEF OwnerInv

LEMMA EnoughInit == Init => DecodedFromEnough
  BY DEF Init, DecodedFromEnough, Decoded

(* Repeated and malformed datagrams never add up to a decoded stream: K
   different ones of its symbols have come in. *)
THEOREM DecodingNeedsEnough == Spec => []DecodedFromEnough
  BY TypeInit, TypeStep, OwnerInit, OwnerStep, EnoughInit, EnoughStep, PTL DEF Spec

-----------------------------------------------------------------------------
LEMMA ReportsType ==
  ASSUME TypeOK
  PROVE  Len(reports) \in Nat /\ DOMAIN reports = 1..Len(reports)
  BY LenProperties DEF TypeOK

LEMMA ReportedStep ==
  ASSUME TypeOK, OwnerInv, ReportedOnce, [Next]_vars
  PROVE  ReportedOnce'
<1>1. CASE UNCHANGED <<done, reports>>
  BY <1>1 DEF ReportedOnce, Decoded
<1>2. ASSUME NEW t \in Threads, NEW s \in Streams, NEW i \in Symbols, t = s % N,
             AddSymbol(t, s, i), ~UNCHANGED <<done, reports>>
      PROVE  ReportedOnce'
  <2>1. /\ s \notin done[t]
        /\ done' = [done EXCEPT ![t] = @ \cup {s}]
        /\ reports' = Append(reports, s)
    BY <1>2, AddSymbolEffect
  <2>2. s \notin Decoded
    BY <1>2, <2>1 DEF OwnerInv, OneOwner, Decoded
  <2>3. Decoded' = Decoded \cup {s}
    BY <2>1 DEF TypeOK, Decoded
  <2>4. /\ Len(reports) \in Nat /\ DOMAIN reports = 1..Len(reports)
        /\ DOMAIN reports' = 1..(Len(reports) + 1)
        /\ \A k \in 1..Len(reports) : reports'[k] = reports[k]
        /\ reports'[Len(reports) + 1] = s
    BY <2>1, ReportsType, AppendProperties, LenProperties DEF TypeOK
  <2>5. \A k \in DOMAIN reports : reports[k] # s
    BY <2>2 DEF ReportedOnce
  <2>6. \A j, k \in DOMAIN reports' : reports'[j] = reports'[k] => j = k
    <3> SUFFICES ASSUME NEW j \in DOMAIN reports', NEW k \in DOMAIN reports',
                        reports'[j] = reports'[k]
                 PROVE  j = k
      OBVIOUS
    <3>1. CASE j \in DOMAIN reports /\ k \in DOMAIN reports
      BY <2>4, <3>1 DEF ReportedOnce
    <3>2. CASE j = Len(reports) + 1 \/ k = Len(reports) + 1
      BY <2>4, <2>5, <3>2
    <3> QED
      BY <2>4, <3>1, <3>2
  <2>7. {reports'[k] : k \in DOMAIN reports'} = {reports[k] : k \in DOMAIN reports} \cup {s}
    <3>1. \A k \in DOMAIN reports' : k \in DOMAIN reports \/ k = Len(reports) + 1
      BY <2>4
    <3>2. \A k \in DOMAIN reports : k \in DOMAIN reports' /\ reports'[k] = reports[k]
      BY <2>4
    <3>3. Len(reports) + 1 \in DOMAIN reports'
      BY <2>4
    <3> QED
      BY <2>4, <3>1, <3>2, <3>3
  <2> QED
    BY <2>3, <2>6, <2>7 DEF ReportedOnce
<1> QED
  BY <1>1, <1>2, DecoderStep DEF OwnerInv

LEMMA ReportedInit == Init => ReportedOnce
<1> SUFFICES ASSUME Init PROVE ReportedOnce
  OBVIOUS
<1>1. DOMAIN reports = {} /\ Decoded = {}
  BY DEF Init, Decoded
<1> QED
  BY <1>1 DEF ReportedOnce

(* However its datagrams are repeated, a stream is reported once, and exactly
   the decoded ones are. *)
THEOREM StreamsAreReportedOnce == Spec => []ReportedOnce
  BY TypeInit, TypeStep, OwnerInit, OwnerStep, ReportedInit, ReportedStep, PTL DEF Spec
=============================================================================
