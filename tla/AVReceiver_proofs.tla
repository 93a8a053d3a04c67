--------------------------- MODULE AVReceiver_proofs ---------------------------
(***************************************************************************)
(* Proofs about AVReceiver, for any number of packets and fragments, any   *)
(* kinds that come in fragments, any packets that cannot be written and    *)
(* any limits of the buffer.                                               *)
(***************************************************************************)
EXTENDS AVReceiver, SequenceTheorems, TLAPS

(* Where the threads are, and the flags. *)
ControlOK ==
  /\ main \in MainStates /\ net \in NetStates
  /\ user \in {"idle", "stopServer", "join", "done"}
  /\ running \in BOOLEAN /\ eos \in BOOLEAN /\ finalized \in BOOLEAN
  /\ header \in BOOLEAN /\ ready \in BOOLEAN /\ inStart \in BOOLEAN
  /\ serving \in BOOLEAN /\ break \in BOOLEAN /\ closed \in BOOLEAN

Sorted(s) == \A j, k \in 1..Len(s) : j < k => s[j] <= s[k]

BufferOK == buffer \in Seq(Packets) /\ Len(buffer) <= MaxBuffer /\ Sorted(buffer)

DataOK ==
  /\ item \in Packets \union {0}
  /\ fragments \in [Fragmented -> SUBSET (0..(Fragments - 1))]
  /\ BufferOK
  /\ next \in 0..N
  /\ direct \in Seq(Packets)
  /\ flushed \subseteq Packets /\ processed \subseteq Packets
  /\ copies \in 0..arrived /\ arrived \in 0..MaxDatagrams

LEMMA TypeParts == TypeOK <=> ControlOK /\ DataOK
  BY DEF TypeOK, ControlOK, DataOK, BufferOK, Sorted

(* The network thread has a packet when it is to buffer one, and it has not been
   counted yet. *)
ItemInv == net = "buffer" => item \in Packets /\ copies < arrived

TypeInv == ControlOK /\ DataOK /\ ItemInv

(* The steps that change what the receiver has of the packets. *)
LEMMA DataStep ==
  ASSUME [Next]_vars
  PROVE  \/ UNCHANGED <<data, item, arrived>> /\ (net' = "buffer" => net = "buffer")
         \/ Ignore \/ \E k \in Kinds : onReceive(k)
         \/ BufferPacket \/ WriteExpected \/ SkipMissing \/ DropOld
         \/ DropFragments \/ flushBuffer
<1>1. CASE Net
  BY <1>1 DEF Net, HandleDatagram, processPacket, Bind, CheckBreak, ReceiveHeader,
              EosStops, EosReceived, LockWriter, WaitForMore
<1>2. CASE Main \/ start \/ CallFinalize
  BY <1>2 DEF Main, Finalizing, LeaveLoop, AfterLoop, MainStopServer, MainJoin, finalize,
              FlushLocksBuffer, CloseFile, NoFile, Summary, start, CallFinalize
<1>3. CASE stop \/ UserStopServer \/ UserJoin \/ UNCHANGED vars
  BY <1>3 DEF stop, UserStopServer, UserJoin, vars
<1> QED
  BY <1>1, <1>2, <1>3 DEF Next

-----------------------------------------------------------------------------
(* Sequences of packets. *)
LEMMA PacketsOf ==
  ASSUME NEW s \in Seq(Packets)
  PROVE  /\ Len(s) \in Nat
         /\ \A j \in 1..Len(s) : s[j] \in Packets /\ s[j] \in Nat
<1>1. Len(s) \in Nat /\ \A j \in 1..Len(s) : s[j] \in Packets
  BY ElementOfSeq, LenProperties
<1> QED
  BY <1>1, NAssumption DEF Packets

LEMMA TopOfBuffer ==
  ASSUME NEW s \in Seq(Packets), s # <<>>
  PROVE  /\ Len(s) \in Nat \ {0}
         /\ Head(s) = s[1] /\ Head(s) \in Packets /\ Head(s) \in Nat
         /\ Tail(s) \in Seq(Packets) /\ Len(Tail(s)) = Len(s) - 1
         /\ \A j \in 1..(Len(s) - 1) : Tail(s)[j] = s[j + 1]
<1>1. Len(s) \in Nat \ {0}
  BY EmptySeq, LenProperties
<1>2. /\ Tail(s) \in Seq(Packets) /\ Len(Tail(s)) = Len(s) - 1
      /\ \A j \in 1..Len(Tail(s)) : Tail(s)[j] = s[j + 1]
      /\ Head(s) \in Packets
  BY HeadTailProperties
<1>3. Head(s) = s[1]
  OBVIOUS
<1> QED
  BY <1>1, <1>2, <1>3, PacketsOf

LEMMA TailSorted ==
  ASSUME NEW s \in Seq(Packets), s # <<>>, Sorted(s)
  PROVE  Sorted(Tail(s))
  BY TopOfBuffer DEF Sorted

(* A packet that is put in its place leaves the heap in order, and all others
   in it. *)
LEMMA Inserted ==
  ASSUME NEW s \in Seq(Packets), Sorted(s), NEW i \in Packets, NEW p \in Place(s, i)
  PROVE  LET t == Insert(s, p, i) IN
         /\ t \in Seq(Packets) /\ Len(t) = Len(s) + 1 /\ Sorted(t)
         /\ InSeq(i, t) /\ \A x : InSeq(x, s) => InSeq(x, t)
<1> DEFINE t == Insert(s, p, i)
<1>1. Len(s) \in Nat /\ \A j \in 1..Len(s) : s[j] \in Packets /\ s[j] \in Nat
  BY PacketsOf
<1>2. p \in 0..Len(s) /\ \A j \in 1..Len(s) : j <= p <=> s[j] <= i
  BY DEF Place
<1>3. i \in Nat
  BY NAssumption DEF Packets
<1>4. t = [j \in 1..(Len(s) + 1) |->
             IF j <= p THEN s[j] ELSE IF j = p + 1 THEN i ELSE s[j - 1]]
  BY DEF Insert
<1> HIDE DEF t
<1>5. \A j \in 1..(Len(s) + 1) : t[j] \in Packets
  BY <1>1, <1>2, <1>4
<1>6. t \in Seq(Packets) /\ Len(t) = Len(s) + 1
  <2>1. t \in [1..(Len(s) + 1) -> Packets]
    BY <1>4, <1>5
  <2> QED
    BY <1>1, <2>1, IsASeq, LenProperties
<1>7. \A j \in 1..Len(s) : IF j <= p THEN t[j] = s[j] ELSE t[j + 1] = s[j]
  BY <1>1, <1>2, <1>4
<1>8. t[p + 1] = i
  BY <1>1, <1>2, <1>4
<1>9. Sorted(t)
  <2> SUFFICES ASSUME NEW j \in 1..(Len(s) + 1), NEW k \in 1..(Len(s) + 1), j < k
               PROVE  t[j] <= t[k]
    BY <1>6 DEF Sorted
  <2>1. CASE k <= p
    BY <1>1, <1>2, <1>4, <2>1 DEF Sorted
  <2>2. CASE k = p + 1
    BY <1>1, <1>2, <1>4, <2>2
  <2>3. CASE k > p + 1 /\ j <= p
    <3>1. k - 1 \in 1..Len(s) /\ t[k] = s[k - 1] /\ ~(k - 1 <= p)
      BY <1>1, <1>2, <1>4, <2>3
    <3>2. j \in 1..Len(s) /\ t[j] = s[j] /\ s[j] <= i
      BY <1>1, <1>2, <1>4, <2>3
    <3> QED
      BY <1>1, <1>2, <1>3, <3>1, <3>2
  <2>4. CASE k > p + 1 /\ j = p + 1
    <3>1. k - 1 \in 1..Len(s) /\ t[k] = s[k - 1] /\ t[j] = i /\ ~(k - 1 <= p)
      BY <1>1, <1>2, <1>4, <2>4
    <3> QED
      BY <1>1, <1>2, <1>3, <3>1
  <2>5. CASE k > p + 1 /\ j > p + 1
    <3>1. /\ k - 1 \in 1..Len(s) /\ t[k] = s[k - 1]
          /\ j - 1 \in 1..Len(s) /\ t[j] = s[j - 1] /\ j - 1 < k - 1
      BY <1>1, <1>2, <1>4, <2>5
    <3> QED
      BY <3>1 DEF Sorted
  <2> QED
    BY <1>1, <1>2, <2>1, <2>2, <2>3, <2>4, <2>5
<1>10. InSeq(i, t)
  BY <1>1, <1>2, <1>6, <1>8 DEF InSeq
<1>11. \A x : InSeq(x, s) => InSeq(x, t)
  BY <1>1, <1>6, <1>7 DEF InSeq
<1> QED
  BY <1>6, <1>9, <1>10, <1>11 DEF t

-----------------------------------------------------------------------------
LEMMA TypeInit == Init => TypeInv
<1> SUFFICES ASSUME Init PROVE TypeInv
  OBVIOUS
<1>1. <<>> \in Seq(Packets) /\ Len(<<>>) = 0
  BY EmptySeq
<1>2. BufferOK
  BY <1>1, MaxBufferAssumption DEF Init, BufferOK, Sorted
<1>3. DataOK
  BY <1>1, <1>2, NAssumption, MaxDatagramsAssumption DEF Init, DataOK
<1>4. ControlOK
  BY DEF Init, ControlOK, MainStates, NetStates
<1> QED
  BY <1>3, <1>4 DEF Init, TypeInv, ItemInv

LEMMA ControlNet ==
  ASSUME ControlOK, Net \/ Ignore \/ \E k \in Kinds : onReceive(k)
  PROVE  ControlOK'
<1>1. CASE Bind \/ CheckBreak \/ EosStops \/ EosReceived
  BY <1>1 DEF ControlOK, NetStates, Bind, CheckBreak, EosStops, EosReceived, flags, server
<1>2. CASE ReceiveHeader
  BY <1>2 DEF ControlOK, NetStates, ReceiveHeader, server
<1>3. CASE BufferPacket \/ LockWriter
  BY <1>3 DEF ControlOK, NetStates, BufferPacket, LockWriter, flags, server
<1>4. CASE WriteExpected \/ SkipMissing \/ DropOld \/ WaitForMore
  BY <1>4 DEF ControlOK, NetStates, WriteExpected, SkipMissing, WriteTop, DropOld,
              WaitForMore, flags, server
<1>5. CASE Ignore
  BY <1>5 DEF ControlOK, NetStates, Ignore, flags, server
<1>6. ASSUME NEW k \in Kinds, onReceive(k)
      PROVE  ControlOK'
  <2>1. net' \in NetStates
    BY <1>6 DEF onReceive, ReceiveFragment, Dispatch, NetStates
  <2> QED
    BY <1>6, <2>1 DEF ControlOK, onReceive, flags, server
<1> QED
  BY <1>1, <1>2, <1>3, <1>4, <1>5, <1>6 DEF Net, HandleDatagram, processPacket

LEMMA ControlMain ==
  ASSUME ControlOK, Main \/ start \/ CallFinalize
  PROVE  ControlOK'
<1>1. CASE LeaveLoop \/ CallFinalize
  BY <1>1 DEF ControlOK, MainStates, LeaveLoop, CallFinalize, flags, server
<1>2. CASE AfterLoop
  BY <1>2 DEF ControlOK, MainStates, AfterLoop, server
<1>3. CASE MainStopServer \/ MainJoin
  BY <1>3 DEF ControlOK, MainStates, MainStopServer, MainJoin, StopServer, flags, server
<1>4. CASE finalize
  BY <1>4 DEF ControlOK, MainStates, finalize, Return, server
<1>5. CASE DropFragments \/ FlushLocksBuffer
  BY <1>5 DEF ControlOK, MainStates, DropFragments, FlushLocksBuffer, flags, server
<1>6. CASE flushBuffer
  BY <1>6 DEF ControlOK, MainStates, flushBuffer, flags, server
<1>7. CASE CloseFile
  BY <1>7 DEF ControlOK, MainStates, CloseFile, server
<1>8. CASE NoFile \/ Summary
  <2>1. /\ main' \in {"returned", "end"} /\ inStart' = FALSE
        /\ running' = IF inStart THEN FALSE ELSE running
    BY <1>8 DEF NoFile, Summary, Return
  <2>2. UNCHANGED <<user, net, eos, finalized, header, ready, serving, break, closed>>
    BY <1>8 DEF NoFile, Summary, server
  <2> QED
    BY <2>1, <2>2 DEF ControlOK, MainStates
<1>9. CASE start
  BY <1>9 DEF ControlOK, MainStates, NetStates, start, server
<1> QED
  BY <1>1, <1>2, <1>3, <1>4, <1>5, <1>6, <1>7, <1>8, <1>9 DEF Main, Finalizing

LEMMA ControlStep ==
  ASSUME ControlOK, [Next]_vars
  PROVE  ControlOK'
<1>1. CASE stop \/ UserStopServer \/ UserJoin
  BY <1>1 DEF ControlOK, stop, UserStopServer, UserJoin, StopServer, flags, server
<1>2. CASE UNCHANGED vars
  BY <1>2 DEF ControlOK, vars, flags, server
<1> QED
  BY <1>1, <1>2, ControlNet, ControlMain DEF Next

-----------------------------------------------------------------------------
LEMMA DataSame ==
  ASSUME DataOK, UNCHANGED <<data, item>>, arrived' \in arrived..MaxDatagrams
  PROVE  DataOK'
<1>1. UNCHANGED <<item, fragments, buffer, next, direct, flushed, processed, copies>>
  BY DEF data
<1>2. BufferOK'
  BY <1>1 DEF DataOK, BufferOK, Sorted
<1>3. copies' \in 0..arrived' /\ arrived' \in 0..MaxDatagrams
  BY <1>1, MaxDatagramsAssumption DEF DataOK
<1> QED
  BY <1>1, <1>2, <1>3 DEF DataOK

LEMMA DataReceive ==
  ASSUME TypeInv, NEW k \in Kinds, onReceive(k)
  PROVE  DataOK' /\ ItemInv'
<1>1. UNCHANGED <<buffer, next, direct, flushed, processed, copies>>
  BY DEF onReceive
<1>2. arrived' = arrived + 1 /\ arrived < MaxDatagrams
  BY DEF onReceive
<1>3. copies' \in 0..arrived /\ arrived' \in 0..MaxDatagrams /\ arrived \in Nat
  BY <1>1, <1>2, MaxDatagramsAssumption DEF TypeInv, DataOK
<1>4. BufferOK'
  BY <1>1 DEF TypeInv, DataOK, BufferOK, Sorted
<1>5. item' \in Packets \union {0} /\ (net' = "buffer" => item' \in Packets)
  <2>1. CASE Dispatch(k)
    <3>1. k \in Packets \/ k = Header \/ k = Eos
      BY NAssumption DEF Kinds, Packets, Header, Eos
    <3>2. Header # Eos
      BY NAssumption DEF Header, Eos
    <3>3. item' \in Packets \union {0}
      BY <2>1 DEF Dispatch
    <3>4. k = Header => net' = "header"
      BY <2>1, <3>2 DEF Dispatch
    <3>5. k = Eos => net' = "eos1"
      BY <2>1, <3>2 DEF Dispatch
    <3>6. k \in Packets => item' = k
      BY <2>1 DEF Dispatch
    <3> QED
      BY <3>1, <3>3, <3>4, <3>5, <3>6
  <2>2. CASE net' = "check" /\ UNCHANGED item
    BY <2>2 DEF TypeInv, DataOK
  <2> QED
    BY <2>1, <2>2 DEF onReceive, ReceiveFragment
<1>6. fragments' \in [Fragmented -> SUBSET (0..(Fragments - 1))]
  <2>1. CASE UNCHANGED fragments
    BY <2>1 DEF TypeInv, DataOK
  <2>2. ASSUME k \in Fragmented, NEW i \in 0..(Fragments - 1), ReceiveFragment(k, i)
        PROVE  fragments' \in [Fragmented -> SUBSET (0..(Fragments - 1))]
    <3>1. fragments \in [Fragmented -> SUBSET (0..(Fragments - 1))]
      BY DEF TypeInv, DataOK
    <3>2. Stored(k, i) \in [Fragmented -> SUBSET (0..(Fragments - 1))]
      BY <2>2, <3>1 DEF Stored
    <3>3. PICK old \in SUBSET Fragmented :
            fragments' = [f \in Fragmented |-> IF f \in old THEN {} ELSE Stored(k, i)[f]]
      BY <2>2 DEF ReceiveFragment
    <3> QED
      BY <3>2, <3>3
  <2> QED
    BY <2>1, <2>2 DEF onReceive
<1>7. DataOK'
  BY <1>1, <1>2, <1>3, <1>4, <1>5, <1>6 DEF TypeInv, DataOK
<1> QED
  BY <1>2, <1>3, <1>5, <1>7 DEF ItemInv

(* What is left of a full buffer. *)
LEMMA KeptType ==
  ASSUME BufferOK
  PROVE  LET kept == IF Full THEN Tail(buffer) ELSE buffer IN
         kept \in Seq(Packets) /\ Sorted(kept) /\ Len(kept) + 1 <= MaxBuffer
<1>1. buffer \in Seq(Packets) /\ Len(buffer) \in Nat /\ Sorted(buffer)
  BY PacketsOf DEF BufferOK
<1>2. CASE Full
  <2>1. buffer # <<>>
    BY <1>2, EmptySeq, MaxBufferAssumption DEF Full
  <2> QED
    BY <1>1, <1>2, <2>1, TopOfBuffer, TailSorted, MaxBufferAssumption DEF BufferOK
<1>3. CASE ~Full
  BY <1>1, <1>3, MaxBufferAssumption DEF Full
<1> QED
  BY <1>2, <1>3

LEMMA DataBuffer ==
  ASSUME TypeInv, BufferPacket
  PROVE  DataOK' /\ ItemInv'
<1> DEFINE kept == IF Full THEN Tail(buffer) ELSE buffer
<1>1. item \in Packets /\ copies < arrived
  BY DEF TypeInv, ItemInv, BufferPacket
<1>2. PICK p \in Place(kept, item) : buffer' = Insert(kept, p, item)
  BY DEF BufferPacket
<1>3. kept \in Seq(Packets) /\ Sorted(kept) /\ Len(kept) + 1 <= MaxBuffer
  BY KeptType DEF TypeInv, DataOK
<1> HIDE DEF kept
<1>4. BufferOK'
  <2>1. buffer' \in Seq(Packets) /\ Len(buffer') = Len(kept) + 1 /\ Sorted(buffer')
    BY <1>1, <1>2, <1>3, Inserted
  <2> QED
    BY <1>3, <2>1 DEF BufferOK, Sorted
<1>5. /\ UNCHANGED <<fragments, next, direct, flushed, arrived>>
      /\ item' = 0 /\ copies' = copies + 1 /\ processed' = processed \union {item}
      /\ net' # "buffer"
  BY DEF BufferPacket
<1>6. copies' \in 0..arrived'
  BY <1>1, <1>5, MaxDatagramsAssumption DEF TypeInv, DataOK
<1> QED
  BY <1>1, <1>4, <1>5, <1>6 DEF TypeInv, DataOK, ItemInv

LEMMA DataWrite ==
  ASSUME TypeInv, WriteTop \/ DropOld
  PROVE  DataOK' /\ ItemInv'
<1>1. buffer # <<>> /\ buffer' = Tail(buffer)
  BY DEF WriteTop, DropOld
<1>2. buffer \in Seq(Packets) /\ Sorted(buffer) /\ Len(buffer) <= MaxBuffer
  BY DEF TypeInv, DataOK, BufferOK
<1>3. /\ buffer' \in Seq(Packets) /\ Sorted(Tail(buffer))
      /\ Len(buffer') <= MaxBuffer /\ Head(buffer) \in Packets
  BY <1>1, <1>2, TopOfBuffer, TailSorted, MaxBufferAssumption
<1>4. BufferOK'
  BY <1>1, <1>3 DEF BufferOK, Sorted
<1>5. /\ UNCHANGED <<net, item, fragments, flushed, processed, copies, arrived>>
      /\ next' \in {next, Head(buffer) + 1}
      /\ direct' \in {direct, Append(direct, Head(buffer))}
  BY DEF WriteTop, DropOld
<1>6. next' \in 0..N
  BY <1>3, <1>5, NAssumption DEF TypeInv, DataOK, Packets
<1>7. direct' \in Seq(Packets)
  <2>1. direct \in Seq(Packets)
    BY DEF TypeInv, DataOK
  <2>2. Append(direct, Head(buffer)) \in Seq(Packets)
    BY <1>3, <2>1, AppendProperties
  <2> QED
    BY <1>5, <2>1, <2>2
<1> QED
  BY <1>4, <1>5, <1>6, <1>7 DEF TypeInv, DataOK, ItemInv

LEMMA FlushWritesType ==
  ASSUME DataOK
  PROVE  FlushWrites \subseteq Packets
  BY PacketsOf DEF FlushWrites, DataOK, BufferOK

LEMMA DataFlush ==
  ASSUME TypeInv, flushBuffer
  PROVE  DataOK' /\ ItemInv'
<1>1. UNCHANGED <<net, item, fragments, direct, processed, copies, arrived>>
  BY DEF flushBuffer
<1>2. FlushWrites \subseteq Packets
  BY FlushWritesType DEF TypeInv
<1>3. CASE UNCHANGED <<flushed, next, buffer>>
  BY <1>1, <1>3 DEF TypeInv, DataOK, BufferOK, Sorted, ItemInv
<1>4. CASE /\ flushed' = flushed \union FlushWrites
           /\ next' \in {next} \union {i + 1 : i \in FlushWrites}
           /\ buffer' = <<>>
  <2>1. BufferOK'
    BY <1>4, EmptySeq, MaxBufferAssumption DEF BufferOK, Sorted
  <2>2. next' \in 0..N
    BY <1>2, <1>4, NAssumption DEF TypeInv, DataOK, Packets
  <2> QED
    BY <1>1, <1>2, <1>4, <2>1, <2>2 DEF TypeInv, DataOK, ItemInv
<1> QED
  BY <1>3, <1>4 DEF flushBuffer

LEMMA TypeStep ==
  ASSUME TypeInv, [Next]_vars
  PROVE  TypeInv'
<1>1. ControlOK'
  BY ControlStep DEF TypeInv
<1>2. CASE UNCHANGED <<data, item, arrived>> /\ (net' = "buffer" => net = "buffer")
  <2>1. UNCHANGED <<item, copies, arrived>>
    BY <1>2 DEF data
  <2>2. arrived' \in arrived..MaxDatagrams
    BY <2>1, MaxDatagramsAssumption DEF TypeInv, DataOK
  <2>3. DataOK'
    BY <1>2, <2>2, DataSame DEF TypeInv
  <2> QED
    BY <1>1, <1>2, <2>1, <2>3 DEF TypeInv, ItemInv
<1>3. CASE Ignore
  <2>1. arrived' \in arrived..MaxDatagrams
    BY <1>3, MaxDatagramsAssumption DEF TypeInv, DataOK, Ignore
  <2>2. DataOK'
    BY <1>3, <2>1, DataSame DEF TypeInv, Ignore
  <2> QED
    BY <1>1, <1>3, <2>2 DEF TypeInv, ItemInv, Ignore
<1>4. CASE DropFragments
  <2>1. fragments' \in [Fragmented -> SUBSET (0..(Fragments - 1))]
    BY <1>4 DEF DropFragments
  <2>2. UNCHANGED <<net, item, buffer, next, direct, flushed, processed, copies, arrived>>
    BY <1>4 DEF DropFragments
  <2> QED
    BY <1>1, <2>1, <2>2 DEF TypeInv, DataOK, BufferOK, Sorted, ItemInv
<1>5. CASE WriteExpected \/ SkipMissing \/ DropOld
  BY <1>1, <1>5, DataWrite DEF TypeInv, WriteExpected, SkipMissing
<1> QED
  BY <1>1, <1>2, <1>3, <1>4, <1>5, DataStep, DataReceive, DataBuffer, DataFlush DEF TypeInv

(* packet_buffer_ stays in order and within its limit, next_expected_index_
   within the file, whatever comes in. *)
THEOREM TypeCorrect == Spec => []TypeOK
<1>1. TypeInv => TypeOK
  BY TypeParts DEF TypeInv
<1> QED
  BY <1>1, TypeInit, TypeStep, PTL DEF Spec

-----------------------------------------------------------------------------
(* Everything that processPacket wrote is before the next expected packet. *)
WrittenBefore == \A j \in 1..Len(direct) : direct[j] < next

DirectInv == DirectInOrder /\ WrittenBefore

(* What processPacket writes at the top of the heap is the next expected packet
   or a later one, and a packet before it is never written. *)
LEMMA WriteIsNew ==
  ASSUME TypeInv, WriteExpected \/ SkipMissing
  PROVE  /\ buffer # <<>> /\ Head(buffer) \in Packets /\ next <= Head(buffer)
         /\ next' = Head(buffer) + 1
         /\ direct' = IF Writable(Head(buffer)) THEN Append(direct, Head(buffer)) ELSE direct
<1>1. WriteTop
  BY DEF WriteExpected, SkipMissing
<1>2. buffer # <<>> /\ (Head(buffer) = next \/ ~(Head(buffer) < next))
  BY <1>1 DEF WriteExpected, SkipMissing, Expected, Old, WriteTop
<1>3. Head(buffer) \in Packets /\ Head(buffer) \in Nat
  BY <1>2, TopOfBuffer DEF TypeInv, DataOK, BufferOK
<1>4. next \in Nat
  BY NAssumption DEF TypeInv, DataOK
<1>5. next <= Head(buffer)
  BY <1>2, <1>3, <1>4
<1> QED
  BY <1>1, <1>2, <1>3, <1>5 DEF WriteTop

(* The steps other than these two: next only grows, and direct stays. *)
LEMMA OtherSteps ==
  ASSUME TypeInv, [Next]_vars
  PROVE  \/ WriteExpected \/ SkipMissing
         \/ direct' = direct /\ next <= next'
<1>1. next \in Nat
  BY NAssumption DEF TypeInv, DataOK
<1>2. CASE UNCHANGED <<direct, next>>
  BY <1>1, <1>2
<1>3. CASE flushBuffer
  BY <1>1, <1>3 DEF flushBuffer
<1>4. CASE UNCHANGED data \/ Ignore \/ DropFragments
  BY <1>2, <1>4 DEF data, Ignore, DropFragments
<1>5. CASE BufferPacket \/ DropOld
  BY <1>2, <1>5 DEF BufferPacket, DropOld
<1>6. ASSUME NEW k \in Kinds, onReceive(k)
      PROVE  UNCHANGED <<direct, next>>
  BY <1>6 DEF onReceive
<1> QED
  BY <1>2, <1>3, <1>4, <1>5, <1>6, DataStep

LEMMA DirectStep ==
  ASSUME TypeInv, TypeInv', DirectInv, [Next]_vars
  PROVE  DirectInv'
<1>1. /\ Len(direct) \in Nat /\ \A j \in 1..Len(direct) : direct[j] \in Nat
      /\ next \in Nat /\ next' \in Nat /\ direct \in Seq(Packets)
  BY PacketsOf, NAssumption DEF TypeInv, DataOK
<1>2. ASSUME direct' = direct, next <= next'
      PROVE  DirectInv'
  BY <1>1, <1>2 DEF DirectInv, DirectInOrder, WrittenBefore
<1>3. CASE WriteExpected \/ SkipMissing
  <2> DEFINE i == Head(buffer)
  <2>1. /\ i \in Packets /\ next <= i /\ next' = i + 1
        /\ direct' = IF Writable(i) THEN Append(direct, i) ELSE direct
    BY <1>3, WriteIsNew
  <2> HIDE DEF i
  <2>2. i \in Nat
    BY <2>1, NAssumption DEF Packets
  <2>3. CASE direct' = direct
    BY <1>1, <1>2, <2>1, <2>2, <2>3
  <2>4. CASE direct' = Append(direct, i)
    <3>1. /\ Len(direct') = Len(direct) + 1 /\ direct'[Len(direct) + 1] = i
          /\ \A j \in 1..Len(direct) : direct'[j] = direct[j]
      BY <1>1, <2>1, <2>4, AppendProperties
    <3>2. \A j \in 1..Len(direct) : direct'[j] < i
      BY <1>1, <2>1, <2>2, <3>1 DEF DirectInv, WrittenBefore
    <3>3. DirectInOrder'
      BY <1>1, <3>1, <3>2 DEF DirectInv, DirectInOrder
    <3>4. WrittenBefore'
      BY <1>1, <2>1, <2>2, <3>1, <3>2 DEF WrittenBefore
    <3> QED
      BY <3>3, <3>4 DEF DirectInv
  <2> QED
    BY <2>1, <2>3, <2>4
<1> QED
  BY <1>2, <1>3, OtherSteps

LEMMA DirectInit == Init => DirectInv
<1> SUFFICES ASSUME Init PROVE DirectInv
  OBVIOUS
<1>1. Len(direct) = 0
  BY EmptySeq DEF Init
<1> QED
  BY <1>1 DEF DirectInv, DirectInOrder, WrittenBefore

(* However the packets are repeated and reordered, processPacket writes them in
   index order and none twice. *)
THEOREM WritesInOrder == Spec => []DirectInOrder
<1>1. DirectInv => DirectInOrder
  BY DEF DirectInv
<1> QED
  BY <1>1, TypeInit, TypeStep, DirectInit, DirectStep, PTL DEF Spec

-----------------------------------------------------------------------------
(* The writer is ready while the file is open; who has seen it ready and waits
   for writer_mutex_ gets that before CloseFile, or finalize() keeps it. *)
CloseInv ==
  /\ ready => header
  /\ closed => header /\ ~ready
  /\ net = "writer" => ~closed \/ main = "summary"
  /\ NoWriteAfterClose

LEMMA CloseStep ==
  ASSUME CloseInv, [Next]_vars
  PROVE  CloseInv'
<1> USE DEF CloseInv, NoWriteAfterClose
<1>1. CASE Bind \/ CheckBreak \/ EosStops \/ EosReceived \/ Ignore
  BY <1>1 DEF Bind, CheckBreak, EosStops, EosReceived, Ignore, flags
<1>2. CASE ReceiveHeader
  BY <1>2 DEF ReceiveHeader
<1>3. CASE BufferPacket \/ LockWriter
  BY <1>3 DEF BufferPacket, LockWriter, WriterFree, flags
<1>4. CASE WriteExpected \/ SkipMissing \/ DropOld \/ WaitForMore
  BY <1>4 DEF WriteExpected, SkipMissing, WriteTop, DropOld, WaitForMore, flags
<1>5. ASSUME NEW k \in Kinds, onReceive(k)
      PROVE  CloseInv'
  <2>1. net' \notin {"writer", "drain"} /\ UNCHANGED <<closed, ready, header>>
    BY <1>5 DEF onReceive, ReceiveFragment, Dispatch, flags
  <2> QED
    BY <2>1
<1>6. CASE start \/ LeaveLoop \/ CallFinalize
  BY <1>6 DEF start, LeaveLoop, CallFinalize, flags
<1>7. CASE AfterLoop \/ MainStopServer \/ MainJoin \/ finalize
  BY <1>7 DEF AfterLoop, MainStopServer, MainJoin, finalize, flags
<1>8. CASE DropFragments \/ FlushLocksBuffer \/ flushBuffer
  BY <1>8 DEF DropFragments, FlushLocksBuffer, flushBuffer, flags
<1>9. CASE CloseFile
  BY <1>9 DEF CloseFile, WriterFree
<1>10. CASE NoFile \/ Summary
  BY <1>10 DEF NoFile, Summary, BufferFree
<1>11. CASE stop \/ UserStopServer \/ UserJoin \/ UNCHANGED vars
  BY <1>11 DEF stop, UserStopServer, UserJoin, vars, flags
<1> QED
  BY <1>1, <1>2, <1>3, <1>4, <1>5, <1>6, <1>7, <1>8, <1>9, <1>10, <1>11
     DEF Next, Net, HandleDatagram, processPacket, Main, Finalizing

(* The network thread, which finalize() doesn't wait for, gets no packet into a
   completed file. *)
THEOREM CompletedFileStays == Spec => []NoWriteAfterClose
<1>1. Init => CloseInv
  BY DEF Init, CloseInv, NoWriteAfterClose
<1>2. CloseInv => NoWriteAfterClose
  BY DEF CloseInv
<1> QED
  BY <1>1, <1>2, CloseStep, PTL DEF Spec

-----------------------------------------------------------------------------
(* The buffer has no more packets than came into it. *)
Few == Len(buffer) <= copies

LEMMA BufferLength ==
  ASSUME TypeInv
  PROVE  buffer \in Seq(Packets) /\ Len(buffer) \in Nat /\ copies \in Nat
  BY PacketsOf, MaxDatagramsAssumption DEF TypeInv, DataOK, BufferOK

(* BufferPacket: the new packet is in the buffer, with those that were there if
   it was not full. *)
LEMMA BufferEffect ==
  ASSUME TypeInv, BufferPacket
  PROVE  /\ Len(buffer') <= Len(buffer) + 1 /\ copies' = copies + 1
         /\ InSeq(item, buffer') /\ processed' = processed \union {item}
         /\ ~Full => \A x : InSeq(x, buffer) => InSeq(x, buffer')
         /\ UNCHANGED <<direct, flushed, next>>
<1> DEFINE kept == IF Full THEN Tail(buffer) ELSE buffer
<1>1. item \in Packets
  BY DEF TypeInv, ItemInv, BufferPacket
<1>2. PICK p \in Place(kept, item) : buffer' = Insert(kept, p, item)
  BY DEF BufferPacket
<1>3. kept \in Seq(Packets) /\ Sorted(kept)
  BY KeptType DEF TypeInv, DataOK
<1>4. Len(kept) <= Len(buffer)
  <2>1. buffer \in Seq(Packets) /\ Len(buffer) \in Nat
    BY BufferLength
  <2>2. Full => buffer # <<>>
    BY EmptySeq, MaxBufferAssumption DEF Full
  <2> QED
    BY <2>1, <2>2, TopOfBuffer
<1>5. ~Full => kept = buffer
  OBVIOUS
<1> HIDE DEF kept
<1>6. /\ Len(buffer') = Len(kept) + 1 /\ InSeq(item, buffer')
      /\ \A x : InSeq(x, kept) => InSeq(x, buffer')
  BY <1>1, <1>2, <1>3, Inserted
<1>7. Len(buffer') <= Len(buffer) + 1
  BY <1>3, <1>4, <1>6, BufferLength, LenProperties
<1> QED
  BY <1>5, <1>6, <1>7 DEF BufferPacket

(* What the other steps that change the buffer leave of it. *)
LEMMA TailEffect ==
  ASSUME TypeInv, buffer # <<>>, buffer' = Tail(buffer)
  PROVE  /\ Len(buffer') <= Len(buffer)
         /\ \A x : InSeq(x, buffer) => x = Head(buffer) \/ InSeq(x, buffer')
<1>1. buffer \in Seq(Packets)
  BY BufferLength
<1>2. /\ Len(buffer) \in Nat \ {0} /\ Len(buffer') = Len(buffer) - 1
      /\ Head(buffer) = buffer[1]
      /\ \A j \in 1..(Len(buffer) - 1) : buffer'[j] = buffer[j + 1]
  BY <1>1, TopOfBuffer
<1>3. ASSUME NEW x, InSeq(x, buffer), x # Head(buffer)
      PROVE  InSeq(x, buffer')
  <2>1. PICK j \in 1..Len(buffer) : buffer[j] = x
    BY <1>3 DEF InSeq
  <2>2. j - 1 \in 1..(Len(buffer) - 1) /\ buffer'[j - 1] = x
    BY <1>2, <1>3, <2>1
  <2> QED
    BY <1>2, <2>2 DEF InSeq
<1> QED
  BY <1>2, <1>3

(* The rest of DataStep: steps that leave the buffer and the output alone. *)
LEMMA IdleSteps ==
  ASSUME [Next]_vars
  PROVE  \/ BufferPacket \/ WriteExpected \/ SkipMissing \/ DropOld \/ flushBuffer
         \/ UNCHANGED <<buffer, next, direct, flushed, processed, copies>>
<1>1. ASSUME NEW k \in Kinds, onReceive(k)
      PROVE  UNCHANGED <<buffer, next, direct, flushed, processed, copies>>
  BY <1>1 DEF onReceive
<1> QED
  BY <1>1, DataStep DEF data, Ignore, DropFragments

LEMMA FewStep ==
  ASSUME TypeInv, Few, [Next]_vars
  PROVE  Few'
<1>1. CASE BufferPacket
  <2>1. Len(buffer') <= Len(buffer) + 1 /\ copies' = copies + 1
    BY <1>1, BufferEffect
  <2>2. Len(buffer') \in Nat
    BY TypeStep, BufferLength DEF TypeInv, DataOK, BufferOK
  <2> QED
    BY <2>1, <2>2, BufferLength DEF Few
<1>2. CASE WriteTop \/ DropOld
  <2>1. buffer # <<>> /\ buffer' = Tail(buffer) /\ copies' = copies
    BY <1>2 DEF WriteTop, DropOld
  <2>2. Len(buffer') = Len(buffer) - 1 /\ Len(buffer) \in Nat
    BY <2>1, BufferLength, TopOfBuffer
  <2> QED
    BY <2>1, <2>2, BufferLength DEF Few
<1>3. CASE flushBuffer
  <2>1. buffer' \in {buffer, <<>>} /\ copies' = copies
    BY <1>3 DEF flushBuffer
  <2> QED
    BY <2>1, BufferLength, EmptySeq DEF Few
<1>4. CASE UNCHANGED <<buffer, copies>>
  BY <1>4 DEF Few
<1> QED
  BY <1>1, <1>2, <1>3, <1>4, IdleSteps DEF WriteExpected, SkipMissing

(* While fewer packets than MaxWait have come, none is skipped or dropped. *)
LEMMA NotCrowded ==
  ASSUME TypeInv, Few, copies < MaxWait
  PROVE  ~SkipMissing /\ ~DropOld
<1>1. ~Crowded
  BY BufferLength, MaxWaitAssumption DEF Few, Crowded
<1> QED
  BY <1>1 DEF SkipMissing, DropOld

(* What is appended to direct is in it, with what was there. *)
LEMMA WrittenIsIn ==
  ASSUME NEW s \in Seq(Packets), NEW i \in Packets
  PROVE  InSeq(i, Append(s, i)) /\ \A x : InSeq(x, s) => InSeq(x, Append(s, i))
<1>1. /\ Len(s) \in Nat /\ Len(Append(s, i)) = Len(s) + 1
      /\ Append(s, i)[Len(s) + 1] = i
      /\ \A j \in 1..Len(s) : Append(s, i)[j] = s[j]
  BY AppendProperties, LenProperties
<1> QED
  BY <1>1 DEF InSeq

LEMMA ReorderStep ==
  ASSUME TypeInv, Few, ToleratesReordering, [Next]_vars
  PROVE  ToleratesReordering'
<1> SUFFICES ASSUME copies' < MaxWait, flushed' = {}, NEW i \in Packets \ Unwritable, i < next'
             PROVE  InSeq(i, direct')
  BY DEF ToleratesReordering
<1>1. next \in Nat /\ direct \in Seq(Packets) /\ i \in Nat
  BY NAssumption DEF TypeInv, DataOK, Packets
<1>2. ASSUME copies < MaxWait, flushed = {}, i < next
      PROVE  InSeq(i, direct)
  BY <1>2 DEF ToleratesReordering
<1>3. CASE UNCHANGED <<next, direct, flushed, copies>>
  BY <1>2, <1>3
<1>4. CASE BufferPacket
  <2>1. copies < MaxWait /\ UNCHANGED <<next, direct, flushed>>
    BY <1>4, BufferEffect, BufferLength, MaxWaitAssumption
  <2> QED
    BY <1>2, <2>1
<1>5. CASE flushBuffer
  <2>1. copies' = copies /\ direct' = direct
    BY <1>5 DEF flushBuffer
  <2>2. flushed = {} /\ next' = next
    BY <1>5 DEF flushBuffer
  <2> QED
    BY <1>2, <2>1, <2>2
<1>6. CASE WriteExpected
  <2>1. copies' = copies /\ flushed' = flushed /\ Head(buffer) = next
    BY <1>6 DEF WriteExpected, WriteTop, Expected
  <2>2. /\ Head(buffer) \in Packets /\ next' = Head(buffer) + 1
        /\ direct' = IF Writable(Head(buffer)) THEN Append(direct, Head(buffer)) ELSE direct
    BY <1>6, WriteIsNew
  <2>3. CASE i = next
    BY <1>1, <2>1, <2>2, <2>3, WrittenIsIn DEF Writable
  <2>4. CASE i # next
    <3>1. i < next
      BY <1>1, <2>1, <2>2, <2>4
    <3>2. InSeq(i, direct)
      BY <1>2, <2>1, <3>1
    <3> QED
      BY <1>1, <2>2, <3>2, WrittenIsIn
  <2> QED
    BY <2>3, <2>4
<1>7. CASE SkipMissing \/ DropOld
  <2>1. copies' = copies
    BY <1>7 DEF SkipMissing, WriteTop, DropOld
  <2> QED
    BY <1>7, <2>1, NotCrowded
<1> QED
  BY <1>3, <1>4, <1>5, <1>6, <1>7, IdleSteps

(* Reordering among fewer packets than MaxWait makes the writer miss none. *)
THEOREM ReorderingIsTolerated == Spec => []ToleratesReordering
<1>1. Init => Few /\ ToleratesReordering
  <2> SUFFICES ASSUME Init PROVE Few /\ ToleratesReordering
    OBVIOUS
  <2>1. Len(buffer) = 0 /\ next = 0 /\ copies = 0
    BY EmptySeq DEF Init
  <2>2. \A i \in Packets : ~(i < 0)
    BY NAssumption DEF Packets
  <2> QED
    BY <2>1, <2>2 DEF Few, ToleratesReordering
<1> QED
  BY <1>1, TypeInit, TypeStep, FewStep, ReorderStep, PTL DEF Spec

-----------------------------------------------------------------------------
LEMMA FragmentsStep ==
  ASSUME TypeInv, FragmentsIncomplete, [Next]_vars
  PROVE  FragmentsIncomplete'
<1>1. ~Complete({})
  <2>1. 0 \in 0..(Fragments - 1)
    BY FragmentsAssumption
  <2> QED
    BY <2>1 DEF Complete
<1>2. CASE UNCHANGED fragments
  BY <1>2 DEF FragmentsIncomplete
<1>3. CASE DropFragments
  BY <1>1, <1>3 DEF DropFragments, FragmentsIncomplete
<1>4. ASSUME NEW k \in Fragmented, NEW i \in 0..(Fragments - 1), ReceiveFragment(k, i)
      PROVE  FragmentsIncomplete'
  <2>1. PICK old \in SUBSET Fragmented :
          fragments' = [f \in Fragmented |-> IF f \in old THEN {} ELSE Stored(k, i)[f]]
    BY <1>4 DEF ReceiveFragment
  <2>2. fragments \in [Fragmented -> SUBSET (0..(Fragments - 1))]
    BY DEF TypeInv, DataOK
  <2>3. \A f \in Fragmented : ~Complete(Stored(k, i)[f])
    BY <1>1, <2>2 DEF Stored, FragmentsIncomplete
  <2> QED
    BY <1>1, <2>1, <2>3 DEF FragmentsIncomplete
<1>5. ASSUME NEW k \in Kinds, onReceive(k)
      PROVE  FragmentsIncomplete'
  BY <1>2, <1>4, <1>5 DEF onReceive
<1>6. CASE BufferPacket \/ WriteTop \/ DropOld \/ flushBuffer
  BY <1>2, <1>6 DEF BufferPacket, WriteTop, DropOld, flushBuffer
<1>7. CASE UNCHANGED data \/ Ignore
  BY <1>2, <1>7 DEF data, Ignore
<1> QED
  BY <1>3, <1>5, <1>6, <1>7, DataStep DEF WriteExpected, SkipMissing

(* The packet has been written or waits in the buffer. *)
Kept(i) == InSeq(i, direct) \/ i \in flushed \/ InSeq(i, buffer)

LEMMA KeptStep ==
  ASSUME TypeInv, Few, NothingThrownAway, [Next]_vars,
         copies' < MaxWait, copies' <= MaxBuffer, NEW i \in processed' \ Unwritable
  PROVE  Kept(i)'
<1>1. ASSUME copies < MaxWait, copies <= MaxBuffer, i \in processed
      PROVE  Kept(i)
  BY <1>1 DEF NothingThrownAway, Kept
<1>2. CASE UNCHANGED <<buffer, direct, flushed, processed, copies>>
  BY <1>1, <1>2 DEF Kept, InSeq
<1>3. CASE BufferPacket
  <2>1. copies < MaxWait /\ copies < MaxBuffer
    BY <1>3, BufferEffect, BufferLength, MaxWaitAssumption, MaxBufferAssumption
  <2>2. ~Full
    BY <2>1, BufferLength, MaxBufferAssumption DEF Few, Full
  <2>3. /\ InSeq(item, buffer') /\ processed' = processed \union {item}
        /\ \A x : InSeq(x, buffer) => InSeq(x, buffer')
        /\ direct' = direct /\ flushed' = flushed
    BY <1>3, <2>2, BufferEffect
  <2>4. CASE i = item
    BY <2>3, <2>4 DEF Kept, InSeq
  <2>5. CASE i \in processed
    <3>1. Kept(i)
      BY <1>1, <2>1, <2>5, BufferLength, MaxBufferAssumption
    <3> QED
      BY <2>3, <3>1 DEF Kept, InSeq
  <2> QED
    BY <2>3, <2>4, <2>5
<1>4. CASE WriteExpected
  <2>1. /\ copies' = copies /\ flushed' = flushed /\ processed' = processed
        /\ buffer' = Tail(buffer)
    BY <1>4 DEF WriteExpected, WriteTop
  <2>2. /\ buffer # <<>> /\ Head(buffer) \in Packets
        /\ direct' = IF Writable(Head(buffer)) THEN Append(direct, Head(buffer)) ELSE direct
    BY <1>4, WriteIsNew
  <2>3. direct \in Seq(Packets)
    BY DEF TypeInv, DataOK
  <2>4. \A x : InSeq(x, direct) => InSeq(x, direct')
    BY <2>2, <2>3, WrittenIsIn
  <2>5. i = Head(buffer) => InSeq(i, direct')
    BY <2>2, <2>3, WrittenIsIn DEF Writable
  <2>6. InSeq(i, buffer) => i = Head(buffer) \/ InSeq(i, buffer')
    BY <2>1, <2>2, TailEffect
  <2>7. Kept(i)
    BY <1>1, <2>1
  <2> QED
    BY <2>1, <2>4, <2>5, <2>6, <2>7 DEF Kept, InSeq
<1>5. CASE SkipMissing \/ DropOld
  <2>1. copies' = copies
    BY <1>5 DEF SkipMissing, WriteTop, DropOld
  <2> QED
    BY <1>5, <2>1, NotCrowded
<1>6. CASE flushBuffer
  <2>1. copies' = copies /\ processed' = processed /\ direct' = direct
    BY <1>6 DEF flushBuffer
  <2>2. \/ flushed' = flushed /\ buffer' = buffer
        \/ flushed' = flushed \union FlushWrites
    BY <1>6 DEF flushBuffer
  <2>3. InSeq(i, buffer) => i \in FlushWrites
    BY DEF InSeq, FlushWrites, Writable
  <2>4. Kept(i)
    BY <1>1, <2>1
  <2> QED
    BY <2>1, <2>2, <2>3, <2>4 DEF Kept, InSeq
<1> QED
  BY <1>2, <1>3, <1>4, <1>5, <1>6, IdleSteps

LEMMA ThrownAwayStep ==
  ASSUME TypeInv, Few, NothingThrownAway, [Next]_vars
  PROVE  NothingThrownAway'
<1>1. FragmentsIncomplete'
  BY FragmentsStep DEF NothingThrownAway
<1>2. ASSUME copies' < MaxWait, copies' <= MaxBuffer, NEW i \in processed' \ Unwritable
      PROVE  InSeq(i, direct') \/ i \in flushed' \/ InSeq(i, buffer')
  BY <1>2, KeptStep DEF Kept, InSeq
<1> QED
  BY <1>1, <1>2 DEF NothingThrownAway, InSeq

(* No packet is complete among the fragments, which are dropped in the end, and
   until the buffer's limits are reached none is dropped from it. *)
THEOREM PacketsAreKept == Spec => []NothingThrownAway
<1>1. Init => Few /\ NothingThrownAway
  <2> SUFFICES ASSUME Init PROVE Few /\ NothingThrownAway
    OBVIOUS
  <2>1. Len(buffer) = 0 /\ copies = 0 /\ processed = {}
    BY EmptySeq DEF Init
  <2>2. 0 \in 0..(Fragments - 1)
    BY FragmentsAssumption
  <2>3. FragmentsIncomplete
    BY <2>2 DEF Init, FragmentsIncomplete, Complete
  <2> QED
    BY <2>1, <2>3 DEF Few, NothingThrownAway
<1> QED
  BY <1>1, TypeInit, TypeStep, FewStep, ThrownAwayStep, PTL DEF Spec
=============================================================================
