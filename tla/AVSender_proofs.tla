--------------------------- MODULE AVSender_proofs ---------------------------
(***************************************************************************)
(* Proofs about AVSender, for files with any packets, any limits of a      *)
(* datagram and any number of sessions.                                    *)
(***************************************************************************)
EXTENDS AVSender, FiniteSetTheorems, SequenceTheorems, TLAPS

LEMMA ItemsType ==
  /\ Len(DataSizes) \in Nat /\ FirstEos \in Nat
  /\ Items = 0..(FirstEos + 2) /\ FirstEos = Len(DataSizes) + 1
  BY SizesAssumption, LenProperties DEF Items, FirstEos

(* Every item has at least one byte, and is at least one datagram. *)
LEMMA SizeType ==
  ASSUME NEW i \in Items
  PROVE  Size(i) \in Nat \ {0}
<1>1. CASE i = 0
  BY <1>1, SizesAssumption
  DEF Size, PacketSize, header_size, MediaHeaderSize, HeaderSize, fixed_size
<1>2. CASE i # 0 /\ i < FirstEos
  <2>1. DataSizes[i] \in Nat
    BY <1>2, ItemsType, SizesAssumption, ElementOfSeq
  <2> QED
    BY <1>2, <2>1 DEF Size, PacketSize, header_size
<1>3. CASE i # 0 /\ ~(i < FirstEos)
  BY <1>3 DEF Size, PacketSize, header_size
<1> QED
  BY <1>1, <1>2, <1>3

LEMMA DatagramsType ==
  ASSUME NEW i \in Items
  PROVE  Datagrams(Size(i)) \in Nat \ {0}
<1> DEFINE size == Size(i)
           m == max_fragment_data
<1>1. size \in Nat \ {0} /\ m \in Nat \ {0}
  BY SizeType, PayloadAssumption DEF max_fragment_data
<1> HIDE DEF size, m
<1>2. (size + m - 1) \div m \in Nat \ {0}
  <2> DEFINE n == size + m - 1
  <2>1. n \in Nat /\ n >= m
    BY <1>1
  <2> HIDE DEF n
  <2>2. n \div m \in Nat /\ n = (m * (n \div m)) + (n % m) /\ n % m < m
    BY <1>1, <2>1
  <2>3. n \div m # 0
    BY <1>1, <2>1, <2>2
  <2> QED
    BY <2>2, <2>3 DEF n
<1> QED
  BY <1>2 DEF Datagrams, total_fragments, size, m

-----------------------------------------------------------------------------
LEMMA Multiples ==
  ASSUME NEW m \in Nat, NEW i \in Nat, NEW j \in Nat, i <= j
  PROVE  i * m <= j * m /\ i * m \in Nat /\ (j + 1) * m = j * m + m
<1>1. (j - i) * m \in Nat /\ i * m \in Nat
  BY SMT
<1>2. j * m = i * m + (j - i) * m
  BY SMT
<1>3. (j + 1) * m = j * m + m
  BY SMT
<1> QED
  BY <1>1, <1>2, <1>3

(* Whatever the size of an item, sendFragmented's fragments carry all its bytes, one
   after the other, and none is empty or larger than a datagram may be. *)
THEOREM FragmentsCarryTheData ==
  ASSUME NEW size \in Nat \ {0}
  PROVE  CarriesAll(size)
<1> DEFINE m == max_fragment_data
           last == total_fragments(size) - 1
<1>1. m \in Nat \ {0}
  BY PayloadAssumption DEF max_fragment_data
<1>2. last \in Nat /\ last * m < size /\ size <= last * m + m
  <2> DEFINE bytes == size + m - 1
             n == bytes \div m
  <2>1. bytes \in Nat /\ bytes >= m
    BY <1>1
  <2>2. n = total_fragments(size)
    BY DEF total_fragments
  <2> HIDE DEF bytes, m
  <2>3. n \in Nat /\ bytes = m * n + (bytes % m) /\ bytes % m \in 0..(m - 1)
    BY <1>1, <2>1
  <2> HIDE DEF n
  <2>4. n # 0
    BY <1>1, <2>1, <2>3
  <2>5. last \in Nat /\ n = last + 1
    BY <2>2, <2>3, <2>4
  <2>6. m * n = last * m + m
    BY <1>1, <2>5, Multiples
  <2>7. last * m \in Nat /\ bytes = size + m - 1
    BY <1>1, <2>5, Multiples DEF bytes
  <2> QED
    BY <1>1, <2>3, <2>5, <2>6, <2>7
<1>3. offset(0) = 0 /\ \A i \in 0..last : offset(i) = i * m /\ offset(i) \in Nat
  BY <1>1, <1>2, Multiples DEF offset
<1> HIDE DEF m, last
<1>4. \A i \in 0..(last - 1) : offset(i) + m <= last * m
  <2> SUFFICES ASSUME NEW i \in 0..(last - 1) PROVE offset(i) + m <= last * m
    OBVIOUS
  <2>1. i \in Nat /\ i + 1 \in Nat /\ i + 1 <= last /\ i \in 0..last
    BY <1>2
  <2>2. (i + 1) * m <= last * m /\ (i + 1) * m = i * m + m
    BY <1>1, <1>2, <2>1, Multiples
  <2> QED
    BY <1>3, <2>1, <2>2
<1>5. fragment_size(size, last) = size - last * m
  BY <1>1, <1>2, <1>3 DEF fragment_size, m
<1>6. \A i \in 0..(last - 1) : fragment_size(size, i) = m
  <2> SUFFICES ASSUME NEW i \in 0..(last - 1) PROVE fragment_size(size, i) = m
    OBVIOUS
  <2>1. offset(i) \in Nat /\ offset(i) + m <= last * m /\ last * m \in Nat
    BY <1>1, <1>2, <1>3, <1>4, Multiples
  <2>2. size - offset(i) > m
    BY <1>1, <1>2, <2>1
  <2> QED
    BY <1>1, <2>1, <2>2 DEF fragment_size, m
<1>7. \A i \in 0..last : fragment_size(size, i) \in 1..m
  <2> SUFFICES ASSUME NEW i \in 0..last PROVE fragment_size(size, i) \in 1..m
    OBVIOUS
  <2>1. CASE i = last
    BY <1>1, <1>2, <1>3, <1>5, <2>1, Multiples
  <2>2. CASE i # last
    BY <1>1, <1>2, <1>6, <2>2
  <2> QED
    BY <2>1, <2>2
<1>8. \A i \in 0..(last - 1) : offset(i) + fragment_size(size, i) = offset(i + 1)
  <2> SUFFICES ASSUME NEW i \in 0..(last - 1)
               PROVE  offset(i) + fragment_size(size, i) = offset(i + 1)
    OBVIOUS
  <2>1. i \in Nat /\ i \in 0..last /\ i + 1 \in 0..last
    BY <1>2
  <2> QED
    BY <1>1, <1>3, <1>6, <2>1, Multiples
<1>9. offset(last) + fragment_size(size, last) = size
  BY <1>1, <1>2, <1>3, <1>5, Multiples
<1> QED
  BY <1>3, <1>7, <1>8, <1>9 DEF CarriesAll, m, last

-----------------------------------------------------------------------------
(* How many datagrams of an item have been sent stays below their number. *)
FragmentInv ==
  fragment # 0 => /\ fragment < Datagrams(Size(item))
                  /\ Datagrams(Size(item)) <= MaxFragments

TypeInv == TypeOK /\ FragmentInv

LEMMA TypeInit == Init => TypeInv
<1> SUFFICES ASSUME Init PROVE TypeInv
  OBVIOUS
<1>1. /\ {opened, running, joinable, async, stopping, headerLost, terminated}
           \subseteq BOOLEAN
      /\ where \in Places
  BY DEF Init, Places
<1>2. /\ item \in Items /\ fragment \in 0..MaxFragments /\ position \in 0..Len(DataSizes)
      /\ sentPackets \in Nat /\ starts \in 0..MaxStarts
  BY ItemsType, BoundsAssumption DEF Init
<1>3. limit \in 0..Len(DataSizes)
  BY ItemsType DEF Init
<1>4. wire \in Seq(Items \X (0..MaxFragments))
  BY EmptySeq DEF Init
<1> QED
  BY <1>1, <1>2, <1>3, <1>4 DEF TypeInv, TypeOK, FragmentInv, Init

LEMMA TypeCallers ==
  ASSUME TypeInv, CallSendAll \/ startAsync \/ open \/ close \/ StopCalled \/ StopReturns
  PROVE  TypeInv'
<1>1. /\ {opened', running', joinable', async', stopping', headerLost', terminated'}
           \subseteq BOOLEAN
      /\ where' \in Places
  BY Zenon DEF TypeInv, TypeOK, CallSendAll, startAsync, Launch, open, close, StopCalled,
     StopReturns, Places, flags, work
<1>2. /\ item' = item /\ fragment' = fragment /\ sentPackets' = sentPackets
      /\ wire' = wire
  BY DEF CallSendAll, startAsync, Launch, open, close, StopCalled, StopReturns, flags, work
<1>3. starts' \in 0..MaxStarts
  BY BoundsAssumption DEF TypeInv, TypeOK, CallSendAll, startAsync, Launch, open, close,
     StopCalled, StopReturns, flags, work
<1>4. position' \in 0..Len(DataSizes)
  BY ItemsType DEF TypeInv, TypeOK, CallSendAll, startAsync, Launch, open, close,
     StopCalled, StopReturns, flags, work
<1>5. limit' \in 0..Len(DataSizes)
  <2>1. StopAt \in 0..Len(DataSizes)
    BY ItemsType DEF TypeInv, TypeOK, StopAt
  <2> QED
    BY <2>1, ItemsType DEF TypeInv, TypeOK, CallSendAll, startAsync, Launch, open, close,
       StopCalled, StopReturns
<1> QED
  BY <1>1, <1>2, <1>3, <1>4, <1>5 DEF TypeInv, TypeOK, FragmentInv

LEMMA TypeContinue ==
  ASSUME TypeInv, where = "sending", Continue
  PROVE  /\ running' \in BOOLEAN /\ where' \in Places /\ item' \in Items
         /\ \/ fragment' = 0
            \/ fragment' = fragment /\ item' = item
<1>1. CASE item < FirstEos /\ where' = "loop" /\ UNCHANGED <<running, item, fragment>>
  BY <1>1 DEF TypeInv, TypeOK, Places
<1>2. CASE /\ item \in FirstEos..(FirstEos + 1) /\ BeginItem(item + 1)
           /\ UNCHANGED running
  BY <1>2, ItemsType DEF TypeInv, TypeOK, Places, BeginItem
<1>3. CASE /\ item = FirstEos + 2
           /\ where' = "off" /\ running' = FALSE /\ UNCHANGED <<item, fragment>>
  BY <1>3 DEF TypeInv, TypeOK, Places
<1> QED
  BY <1>1, <1>2, <1>3 DEF Continue

LEMMA TypeSendDatagram ==
  ASSUME TypeInv, SendDatagram
  PROVE  TypeInv'
<1> DEFINE n == Datagrams(Size(item))
<1>1. n \in Nat \ {0} /\ n <= MaxFragments /\ fragment \in Nat /\ fragment < n
  BY DatagramsType, BoundsAssumption DEF TypeInv, TypeOK, FragmentInv, SendDatagram
<1>2. wire' \in Seq(Items \X (0..MaxFragments))
  <2>1. <<item, fragment>> \in Items \X (0..MaxFragments)
    BY DEF TypeInv, TypeOK
  <2> QED
    BY <2>1, AppendProperties DEF TypeInv, TypeOK, SendDatagram
<1>3. UNCHANGED <<opened, joinable, async, stopping, starts, limit, terminated, position,
                  headerLost>>
  BY DEF SendDatagram
<1>4. CASE ~Last /\ fragment' = fragment + 1 /\ UNCHANGED <<where, item, running, sentPackets>>
  <2>1. fragment' \in 0..MaxFragments /\ fragment' < n
    BY <1>1, <1>4, BoundsAssumption DEF Last
  <2>2. FragmentInv'
    BY <1>1, <1>4, <2>1 DEF FragmentInv
  <2> QED
    BY <1>2, <1>3, <1>4, <2>1, <2>2 DEF TypeInv, TypeOK
<1>5. CASE Last /\ sentPackets' = sentPackets + (IF item = 0 THEN 0 ELSE 1) /\ Continue
  <2>1. sentPackets' \in Nat
    BY <1>5 DEF TypeInv, TypeOK
  <2>2. /\ running' \in BOOLEAN /\ where' \in Places /\ item' \in Items
        /\ fragment' = 0 \/ (fragment' = fragment /\ item' = item)
    BY <1>5, TypeContinue DEF SendDatagram
  <2>3. FragmentInv' /\ fragment' \in 0..MaxFragments
    BY <2>2, BoundsAssumption DEF TypeInv, TypeOK, FragmentInv
  <2> QED
    BY <1>2, <1>3, <2>1, <2>2, <2>3 DEF TypeInv, TypeOK
<1> QED
  BY <1>4, <1>5 DEF SendDatagram

LEMMA TypeItemFails ==
  ASSUME TypeInv, ItemFails
  PROVE  TypeInv'
<1>1. UNCHANGED <<opened, joinable, async, stopping, starts, limit, terminated, position,
                  sentPackets, wire>>
  BY DEF ItemFails
<1>2. /\ running' \in BOOLEAN /\ headerLost' \in BOOLEAN /\ where' \in Places
      /\ item' \in Items
      /\ fragment' = 0 \/ (fragment' = fragment /\ item' = item)
  <2>1. CASE /\ item = 0 /\ where' = "off" /\ running' = FALSE /\ headerLost' = TRUE
             /\ UNCHANGED <<item, fragment>>
    BY <2>1 DEF TypeInv, TypeOK, Places
  <2>2. CASE item # 0 /\ Continue /\ UNCHANGED headerLost
    <3>1. headerLost' \in BOOLEAN
      BY <2>2 DEF TypeInv, TypeOK
    <3> QED
      BY <2>2, <3>1, TypeContinue DEF ItemFails
  <2> QED
    BY <2>1, <2>2 DEF ItemFails
<1>3. FragmentInv' /\ fragment' \in 0..MaxFragments
  BY <1>2, BoundsAssumption DEF TypeInv, TypeOK, FragmentInv
<1> QED
  BY <1>1, <1>2, <1>3 DEF TypeInv, TypeOK

LEMMA TypeStep ==
  ASSUME TypeInv, [Next]_vars
  PROVE  TypeInv'
<1>1. CASE CallSendAll \/ startAsync \/ open \/ close \/ StopCalled \/ StopReturns
  BY <1>1, TypeCallers
<1>2. CASE Begin
  <2>1. /\ {running', headerLost'} \subseteq BOOLEAN /\ where' \in Places
        /\ item' \in Items /\ sentPackets' \in Nat
        /\ fragment' = 0 \/ (fragment' = fragment /\ item' = item)
    <3>1. CASE opened /\ running' = TRUE /\ sentPackets' = 0 /\ BeginItem(0) /\ headerLost' = FALSE
      <4>1. {running', headerLost'} \subseteq BOOLEAN
        BY <3>1, Zenon
      <4>2. item' \in Items
        BY <3>1, ItemsType DEF BeginItem
      <4> QED
        BY <3>1, <4>1, <4>2 DEF BeginItem, Places
    <3>2. CASE /\ where' = "off"
               /\ UNCHANGED <<running, sentPackets, item, fragment, headerLost>>
      BY <3>2 DEF TypeInv, TypeOK, Places
    <3> QED
      BY <1>2, <3>1, <3>2 DEF Begin
  <2>2. wire' \in Seq(Items \X (0..MaxFragments))
    BY <1>2, EmptySeq DEF Begin, TypeInv, TypeOK
  <2>3. FragmentInv' /\ fragment' \in 0..MaxFragments
    BY <2>1, BoundsAssumption DEF TypeInv, TypeOK, FragmentInv
  <2> QED
    BY <1>2, <2>1, <2>2, <2>3 DEF Begin, TypeInv, TypeOK
<1>3. CASE SendDatagram
  BY <1>3, TypeSendDatagram
<1>4. CASE ItemFails
  BY <1>4, TypeItemFails
<1>5. CASE TestRunning
  <2>1. /\ item' \in Items /\ where' \in Places
        /\ fragment' = 0 \/ (fragment' = fragment /\ item' = item)
    BY <1>5, ItemsType DEF TestRunning, BeginItem, TypeInv, TypeOK, Places
  <2>2. FragmentInv' /\ fragment' \in 0..MaxFragments
    BY <2>1, BoundsAssumption DEF FragmentInv, TypeInv, TypeOK
  <2> QED
    BY <1>5, <2>1, <2>2 DEF TestRunning, flags, TypeInv, TypeOK
<1>6. CASE ReadPacket
  <2>1. position' \in 0..Len(DataSizes) /\ item' \in Items /\ where' \in Places
    BY <1>6, ItemsType DEF ReadPacket, BeginItem, TypeInv, TypeOK, Places
  <2>2. FragmentInv' /\ fragment' \in 0..MaxFragments
    BY <1>6, BoundsAssumption DEF ReadPacket, BeginItem, FragmentInv
  <2> QED
    BY <1>6, <2>1, <2>2 DEF ReadPacket, flags, TypeInv, TypeOK
<1>7. CASE UNCHANGED vars
  BY <1>7 DEF vars, flags, work, TypeInv, TypeOK, FragmentInv
<1> QED
  BY <1>1, <1>2, <1>3, <1>4, <1>5, <1>6, <1>7 DEF Next, sendAll

(* Every item that is started is one of the session's, the reader never counts
   past the end of the file, and a fragment number always fits the header. *)
THEOREM TypeCorrect == Spec => []TypeOK
<1>1. Init => TypeInv
  BY TypeInit
<1>2. TypeInv /\ [Next]_vars => TypeInv'
  BY TypeStep
<1>3. TypeInv => TypeOK
  BY DEF TypeInv
<1> QED
  BY <1>1, <1>2, <1>3, PTL DEF Spec

-----------------------------------------------------------------------------
(* StopIsHeard isn't inductive.  A session in which running_ is set wasn't stopped:
   it may read to the end of the file, as may one that has yet to begin; and who
   is in readPacket has either passed the test of running_ before stop() came, and
   may read one more packet, or is at the end of the file. *)
StoppedInv ==
  /\ position <= limit
  /\ where = "begin" => limit = Len(DataSizes)
  /\ where \in {"sending", "loop", "read"} /\ running => limit = Len(DataSizes)
  /\ where = "read" => position < limit \/ position = Len(DataSizes)

LEMMA StoppedInit == Init => StoppedInv
  BY ItemsType DEF Init, StoppedInv

LEMMA StoppedStep ==
  ASSUME TypeOK, StoppedInv, [Next]_vars
  PROVE  StoppedInv'
<1>0. /\ Len(DataSizes) \in Nat
      /\ position \in 0..Len(DataSizes) /\ limit \in 0..Len(DataSizes)
  BY ItemsType DEF TypeOK
<1>1. CASE CallSendAll \/ startAsync
  BY <1>0, <1>1 DEF CallSendAll, startAsync, Launch, StoppedInv, work
<1>2. CASE open \/ close \/ StopReturns
  BY <1>0, <1>2 DEF open, close, StopReturns, StoppedInv, work
<1>3. CASE StopCalled
  <2>1. ~running' /\ UNCHANGED <<where, position>>
    BY <1>3 DEF StopCalled, work
  <2>2. CASE where \in {"sending", "loop", "read"}
    <3>1. limit' = StopAt
      BY <1>3, <2>2 DEF StopCalled
    <3>2. CASE where = "read"
      BY <1>0, <2>1, <3>1, <3>2 DEF StopAt, StoppedInv
    <3>3. CASE where # "read"
      BY <1>0, <2>1, <2>2, <3>1, <3>3 DEF StopAt, StoppedInv
    <3> QED
      BY <3>2, <3>3
  <2>3. CASE where \notin {"sending", "loop", "read"}
    BY <1>3, <2>1, <2>3 DEF StopCalled, StoppedInv
  <2> QED
    BY <2>2, <2>3
<1>4. CASE Begin
  BY <1>4 DEF Begin, BeginItem, StoppedInv
<1>5. CASE SendDatagram \/ ItemFails
  BY <1>5 DEF SendDatagram, ItemFails, Continue, BeginItem, StoppedInv
<1>6. CASE TestRunning
  BY <1>0, <1>6 DEF TestRunning, BeginItem, StoppedInv, flags
<1>7. CASE ReadPacket
  BY <1>0, <1>7 DEF ReadPacket, BeginItem, StoppedInv, flags
<1>8. CASE UNCHANGED vars
  BY <1>8 DEF vars, flags, work, StoppedInv
<1> QED
  BY <1>1, <1>2, <1>3, <1>4, <1>5, <1>6, <1>7, <1>8 DEF Next, sendAll

(* After a stop() that came in the session at most the packet is read whose read
   had begun: the loop looks at running_ before each, which nothing but the next
   session sets. *)
THEOREM StopEndsReading == Spec => []StopIsHeard
<1>1. Init => StoppedInv
  BY StoppedInit
<1>2. TypeOK /\ StoppedInv /\ [Next]_vars => StoppedInv'
  BY StoppedStep
<1>3. StoppedInv => StopIsHeard
  BY DEF StoppedInv, StopIsHeard
<1> QED
  BY <1>1, <1>2, <1>3, TypeCorrect, PTL DEF Spec

-----------------------------------------------------------------------------
(* The parts of CountedIsComplete. *)
Done == {i \in Items \ {0} : Complete(i)}

Counted == sentPackets = Cardinality(Done)
Consecutive ==
  \A k \in DOMAIN wire : wire[k][2] > 0 =>
    k > 1 /\ wire[k - 1] = <<wire[k][1], wire[k][2] - 1>>
NothingBeforeHeader == \A d \in OnWire : d[1] # 0 => Complete(0)

(* What sendAll has done when it is about to send the next datagram of an item:
   on the wire is nothing of a later item, and of this one what comes before,
   the datagram before as the last one. *)
AtItem ==
  where = "sending" =>
    /\ item < FirstEos => item \in {0, position}
    /\ \A d \in OnWire : d[1] < item \/ (d[1] = item /\ d[2] < fragment)
    /\ \A f \in 0..(fragment - 1) : <<item, f>> \in OnWire
    /\ fragment > 0 => wire # <<>> /\ wire[Len(wire)] = <<item, fragment - 1>>
    /\ item # 0 => Complete(0)

(* And between two packets. *)
AtLoop ==
  where \in {"loop", "read"} => (\A d \in OnWire : d[1] <= position) /\ Complete(0)

SentInv == Counted /\ Consecutive /\ NothingBeforeHeader /\ AtItem /\ AtLoop

LEMMA OnWireType ==
  ASSUME TypeOK, NEW d \in OnWire
  PROVE  \E i \in Items, f \in 0..MaxFragments : d = <<i, f>>
<1>1. PICK k \in DOMAIN wire : d = wire[k]
  BY DEF OnWire
<1>2. d \in Items \X (0..MaxFragments)
  BY <1>1, ElementOfSeq, LenProperties DEF TypeOK
<1> QED
  BY <1>2

LEMMA DoneFinite == IsFiniteSet(Done) /\ Cardinality(Done) \in Nat
<1>1. IsFiniteSet(Items)
  BY ItemsType, FS_Interval
<1>2. Done \subseteq Items
  BY DEF Done
<1> QED
  BY <1>1, <1>2, FS_Subset, FS_CardinalityType

(* A step that sends nothing and counts nothing. *)
LEMMA NothingSent ==
  ASSUME SentInv, UNCHANGED <<wire, sentPackets>>
  PROVE  /\ Counted' /\ Consecutive' /\ NothingBeforeHeader'
         /\ OnWire' = OnWire
         /\ \A i \in Nat : Complete(i)' <=> Complete(i)
<1>1. OnWire' = OnWire
  BY DEF OnWire
<1>2. \A i \in Nat : Complete(i)' <=> Complete(i)
  BY <1>1 DEF Complete
<1>3. Done' = Done
  BY <1>2, ItemsType DEF Done, Items
<1>4. Counted'
  BY <1>3 DEF SentInv, Counted
<1>5. Consecutive'
  BY DEF SentInv, Consecutive
<1>6. NothingBeforeHeader'
  BY <1>1, <1>2 DEF SentInv, NothingBeforeHeader
<1> QED
  BY <1>1, <1>2, <1>4, <1>5, <1>6

(* After an item nothing of a later one is on the wire, and the reader is at
   the packet if it was one. *)
LEMMA AfterItem ==
  ASSUME TypeOK, where = "sending", Continue, position' = position,
         item < FirstEos => item \in {0, position},
         \A d \in OnWire' : d[1] \in Nat /\ d[1] <= item,
         Complete(0)'
  PROVE  AtItem' /\ AtLoop'
<1>1. item \in Nat /\ position \in Nat /\ FirstEos \in Nat
  BY ItemsType DEF TypeOK
<1>2. CASE item < FirstEos /\ where' = "loop"
  <2>1. item <= position
    BY <1>1, <1>2
  <2>2. \A d \in OnWire' : d[1] <= position'
    BY <1>1, <2>1
  <2> QED
    BY <1>2, <2>2 DEF AtItem, AtLoop
<1>3. CASE item \in FirstEos..(FirstEos + 1) /\ BeginItem(item + 1)
  <2>1. \A d \in OnWire' : d[1] < item'
    BY <1>1, <1>3 DEF BeginItem
  <2>2. ~(item' < FirstEos) /\ fragment' = 0
    BY <1>1, <1>3 DEF BeginItem
  <2>3. where' = "sending"
    BY <1>3 DEF BeginItem
  <2> QED
    BY <2>1, <2>2, <2>3 DEF AtItem, AtLoop
<1>4. CASE where' = "off"
  BY <1>4 DEF AtItem, AtLoop
<1> QED
  BY <1>2, <1>3, <1>4 DEF Continue

LEMMA SentSendDatagram ==
  ASSUME TypeInv, SentInv, SendDatagram
  PROVE  SentInv'
<1> DEFINE n == Datagrams(Size(item))
           datagram == <<item, fragment>>
<1>1. n \in Nat \ {0} /\ fragment \in Nat /\ fragment < n /\ item \in Nat
      /\ item \in Items
  BY DatagramsType, ItemsType, BoundsAssumption DEF TypeInv, TypeOK, FragmentInv
<1>2. /\ where = "sending" /\ position' = position /\ AtItem
  BY DEF SendDatagram, SentInv
<1>3. /\ Len(wire) \in Nat /\ Len(wire') = Len(wire) + 1
      /\ DOMAIN wire = 1..Len(wire) /\ DOMAIN wire' = 1..(Len(wire) + 1)
      /\ \A k \in 1..Len(wire) : wire'[k] = wire[k]
      /\ wire'[Len(wire) + 1] = datagram
  <2>1. datagram \in Items \X (0..MaxFragments)
    BY DEF TypeInv, TypeOK
  <2>2. wire \in Seq(Items \X (0..MaxFragments)) /\ wire' = Append(wire, datagram)
    BY DEF TypeInv, TypeOK, SendDatagram
  <2> HIDE DEF datagram
  <2> QED
    BY <2>1, <2>2, AppendProperties, LenProperties
<1>4. OnWire' = OnWire \union {datagram}
  <2> HIDE DEF datagram
  <2>1. ASSUME NEW k \in DOMAIN wire' PROVE wire'[k] \in OnWire \union {datagram}
    <3>1. k \in 1..Len(wire) \/ k = Len(wire) + 1
      BY <1>3, <2>1
    <3> QED
      BY <1>3, <3>1 DEF OnWire
  <2>2. \A k \in DOMAIN wire : k \in DOMAIN wire' /\ wire'[k] = wire[k]
    BY <1>3
  <2>3. Len(wire) + 1 \in DOMAIN wire' /\ wire'[Len(wire) + 1] = datagram
    BY <1>3
  <2>4. OnWire' = {wire'[k] : k \in DOMAIN wire'}
    BY DEF OnWire
  <2> HIDE DEF OnWire
  <2>5. \A k \in DOMAIN wire : wire[k] \in OnWire'
    BY <2>2, <2>4
  <2>6. OnWire \subseteq OnWire'
    BY <2>5 DEF OnWire
  <2> QED
    BY <2>1, <2>3, <2>4, <2>6
<1>5. /\ \A i \in Nat : i # item => (Complete(i)' <=> Complete(i))
      /\ \A i \in Nat : Complete(i) => Complete(i)'
  BY <1>4 DEF Complete
<1>6. datagram \notin OnWire /\ ~Complete(item)
  BY <1>1, <1>2 DEF AtItem, Complete
<1>7. Consecutive'
  <2> SUFFICES ASSUME NEW k \in 1..(Len(wire) + 1), wire'[k][2] > 0
               PROVE  k > 1 /\ wire'[k - 1] = <<wire'[k][1], wire'[k][2] - 1>>
    BY <1>3 DEF Consecutive
  <2>1. CASE k \in 1..Len(wire)
    <3>1. k > 1 /\ wire[k - 1] = <<wire[k][1], wire[k][2] - 1>>
      BY <1>3, <2>1 DEF SentInv, Consecutive
    <3>2. k - 1 \in 1..Len(wire)
      BY <1>3, <2>1, <3>1
    <3> QED
      BY <1>3, <2>1, <3>1, <3>2
  <2>2. CASE k = Len(wire) + 1
    <3>1. wire'[k] = datagram /\ fragment > 0
      BY <1>3, <2>2
    <3>2. wire # <<>> /\ wire[Len(wire)] = <<item, fragment - 1>>
      BY <1>2, <3>1 DEF AtItem
    <3>3. Len(wire) \in 1..Len(wire)
      BY <1>3, <3>2, EmptySeq DEF TypeInv, TypeOK
    <3>4. k > 1 /\ k - 1 = Len(wire)
      BY <1>3, <2>2, <3>3
    <3>5. wire'[k - 1] = <<item, fragment - 1>>
      BY <1>3, <3>2, <3>3, <3>4
    <3> QED
      BY <3>1, <3>4, <3>5
  <2> QED
    BY <1>3, <2>1, <2>2
<1>8. NothingBeforeHeader'
  <2> SUFFICES ASSUME NEW d \in OnWire', d[1] # 0
               PROVE  Complete(0)'
    BY DEF NothingBeforeHeader
  <2>1. Complete(0)
    BY <1>2, <1>4 DEF SentInv, NothingBeforeHeader, AtItem
  <2> QED
    BY <1>5, <2>1
<1>9. CASE /\ ~Last /\ fragment' = fragment + 1
           /\ UNCHANGED <<where, item, running, sentPackets>>
  <2>1. <<item, fragment + 1>> \notin OnWire'
    BY <1>1, <1>2, <1>4 DEF AtItem
  <2>2. fragment + 1 < n
    BY <1>1, <1>9 DEF Last
  <2>3. \A i \in Nat : Complete(i)' <=> Complete(i)
    <3>1. <<item, fragment + 1>> \in OnWire' \/ ~(\A f \in 0..(n - 1) : <<item, f>> \in OnWire')
      BY <1>1, <2>2
    <3>2. \A i \in Nat : i = item => ~Complete(i)'
      BY <2>1, <3>1 DEF Complete
    <3> QED
      BY <1>5, <1>6, <3>2
  <2>4. Done' = Done
    BY <2>3, ItemsType DEF Done
  <2>5. Counted'
    BY <1>9, <2>4 DEF SentInv, Counted
  <2>6. AtItem'
    <3>1. item < FirstEos => item \in {0, position}
      BY <1>2 DEF AtItem
    <3>2. \A d \in OnWire' : d[1] < item \/ (d[1] = item /\ d[2] < fragment + 1)
      <4> SUFFICES ASSUME NEW d \in OnWire'
                   PROVE  d[1] < item \/ (d[1] = item /\ d[2] < fragment + 1)
        OBVIOUS
      <4>1. CASE d = datagram
        BY <1>1, <4>1
      <4>2. CASE d \in OnWire
        <5>1. d[1] < item \/ (d[1] = item /\ d[2] < fragment)
          BY <1>2, <4>2 DEF AtItem
        <5>2. d[2] \in Nat
          BY <4>2, OnWireType, BoundsAssumption DEF TypeInv
        <5> QED
          BY <1>1, <5>1, <5>2
      <4> QED
        BY <1>4, <4>1, <4>2
    <3>3. \A f \in 0..fragment : <<item, f>> \in OnWire'
      BY <1>1, <1>2, <1>4 DEF AtItem
    <3>4. wire' # <<>> /\ wire'[Len(wire')] = <<item, fragment>>
      BY <1>3, EmptySeq
    <3>5. item # 0 => Complete(0)'
      BY <1>2, <1>5 DEF AtItem
    <3>6. fragment' - 1 = fragment /\ item' = item /\ position' = position
      BY <1>1, <1>2, <1>9
    <3> QED
      BY <1>9, <3>1, <3>2, <3>3, <3>4, <3>5, <3>6 DEF AtItem
  <2>7. AtLoop'
    BY <1>2, <1>9 DEF AtLoop
  <2> QED
    BY <1>7, <1>8, <2>5, <2>6, <2>7 DEF SentInv
<1>10. CASE Last /\ sentPackets' = sentPackets + (IF item = 0 THEN 0 ELSE 1) /\ Continue
  <2>1. \A i \in Nat : i = item => Complete(i)'
    <3>1. \A f \in 0..(n - 1) : <<item, f>> \in OnWire'
      BY <1>1, <1>2, <1>4, <1>10 DEF AtItem, Last
    <3> QED
      BY <3>1 DEF Complete
  <2>2. Counted'
    <3>1. CASE item = 0
      <4>1. Done' = Done
        BY <1>5, <3>1, ItemsType DEF Done
      <4> QED
        BY <1>10, <3>1, <4>1, DoneFinite DEF SentInv, Counted
    <3>2. CASE item # 0
      <4>1. Done' = Done \union {item} /\ item \notin Done
        BY <1>1, <1>5, <1>6, <2>1, <3>2, ItemsType DEF Done
      <4> QED
        BY <1>10, <3>2, <4>1, DoneFinite, FS_AddElement DEF SentInv, Counted
    <3> QED
      BY <3>1, <3>2
  <2>3. \A d \in OnWire' : d[1] \in Nat /\ d[1] <= item
    <3> SUFFICES ASSUME NEW d \in OnWire'
                 PROVE  d[1] \in Nat /\ d[1] <= item
      OBVIOUS
    <3>1. CASE d = datagram
      BY <1>1, <3>1
    <3>2. CASE d \in OnWire
      <4>1. d[1] \in Nat
        BY <3>2, OnWireType, ItemsType DEF TypeInv
      <4>2. d[1] < item \/ d[1] = item
        BY <1>2, <3>2 DEF AtItem
      <4> QED
        BY <1>1, <4>1, <4>2
    <3> QED
      BY <1>4, <3>1, <3>2
  <2>4. Complete(0)'
    BY <1>2, <1>5, <2>1 DEF AtItem
  <2>5. AtItem' /\ AtLoop'
    BY <1>2, <1>10, <2>3, <2>4, AfterItem DEF AtItem, TypeInv
  <2> QED
    BY <1>7, <1>8, <2>2, <2>5 DEF SentInv
<1> QED
  BY <1>9, <1>10 DEF SendDatagram

LEMMA SentInit == Init => SentInv
<1> SUFFICES ASSUME Init PROVE SentInv
  OBVIOUS
<1>1. DOMAIN wire = {} /\ OnWire = {} /\ sentPackets = 0 /\ where = "off"
  BY DEF Init, OnWire
<1>2. Done = {}
  <2> SUFFICES ASSUME NEW i \in Items PROVE ~Complete(i)
    BY DEF Done
  <2>1. Datagrams(Size(i)) \in Nat \ {0}
    BY DatagramsType
  <2>2. 0 \in 0..(Datagrams(Size(i)) - 1)
    BY <2>1
  <2> QED
    BY <1>1, <2>2 DEF Complete
<1>3. Counted
  BY <1>1, <1>2, FS_EmptySet DEF Counted
<1> QED
  BY <1>1, <1>3 DEF SentInv, Consecutive, NothingBeforeHeader, AtItem, AtLoop

LEMMA SentBegin ==
  ASSUME TypeInv, SentInv, Begin
  PROVE  SentInv'
<1>1. CASE opened /\ sentPackets' = 0 /\ BeginItem(0) /\ wire' = <<>>
  <2>1. DOMAIN wire' = {} /\ OnWire' = {}
    BY <1>1 DEF OnWire
  <2>2. Done' = {}
    <3> SUFFICES ASSUME NEW i \in Items PROVE ~(Complete(i)')
      BY DEF Done
    <3>1. Datagrams(Size(i)) \in Nat \ {0}
      BY DatagramsType
    <3>2. 0 \in 0..(Datagrams(Size(i)) - 1)
      BY <3>1
    <3> QED
      BY <2>1, <3>2 DEF Complete
  <2>3. Counted'
    BY <1>1, <2>2, FS_EmptySet DEF Counted
  <2>4. AtItem' /\ AtLoop'
    BY <1>1, <2>1 DEF BeginItem, AtItem, AtLoop
  <2> QED
    BY <2>1, <2>3, <2>4 DEF SentInv, Consecutive, NothingBeforeHeader
<1>2. CASE where' = "off" /\ UNCHANGED <<sentPackets, wire>>
  BY <1>2, NothingSent DEF SentInv, AtItem, AtLoop
<1> QED
  BY <1>1, <1>2 DEF Begin

LEMMA SentItemFails ==
  ASSUME TypeInv, SentInv, ItemFails
  PROVE  SentInv'
<1>1. UNCHANGED <<wire, sentPackets, position>> /\ where = "sending" /\ AtItem
  BY DEF ItemFails, SentInv
<1>2. /\ Counted' /\ Consecutive' /\ NothingBeforeHeader' /\ OnWire' = OnWire
      /\ Complete(0)' <=> Complete(0)
  BY <1>1, NothingSent
<1>3. AtItem' /\ AtLoop'
  <2>1. CASE where' = "off"
    BY <2>1 DEF AtItem, AtLoop
  <2>2. CASE item # 0 /\ Continue
    <3>1. \A d \in OnWire' : d[1] \in Nat /\ d[1] <= item
      <4> SUFFICES ASSUME NEW d \in OnWire
                   PROVE  d[1] \in Nat /\ d[1] <= item
        BY <1>2
      <4>1. d[1] \in Nat /\ item \in Nat
        BY OnWireType, ItemsType DEF TypeInv, TypeOK
      <4>2. d[1] < item \/ d[1] = item
        BY <1>1 DEF AtItem
      <4> QED
        BY <4>1, <4>2
    <3>2. Complete(0)' /\ (item < FirstEos => item \in {0, position})
      BY <1>1, <1>2, <2>2 DEF AtItem
    <3> QED
      BY <1>1, <2>2, <3>1, <3>2, AfterItem DEF TypeInv
  <2> QED
    BY <2>1, <2>2 DEF ItemFails
<1> QED
  BY <1>2, <1>3 DEF SentInv

LEMMA SentFromLoop ==
  ASSUME TypeInv, SentInv, TestRunning \/ ReadPacket
  PROVE  SentInv'
<1>1. UNCHANGED <<wire, sentPackets>> /\ where \in {"loop", "read"} /\ AtLoop
  BY DEF TestRunning, ReadPacket, SentInv
<1>2. /\ Counted' /\ Consecutive' /\ NothingBeforeHeader' /\ OnWire' = OnWire
      /\ Complete(0)' <=> Complete(0)
  BY <1>1, NothingSent
<1>3. CASE where' = "read"
  <2>1. position' = position
    BY <1>3 DEF TestRunning, ReadPacket, BeginItem
  <2> QED
    BY <1>1, <1>2, <1>3, <2>1 DEF SentInv, AtItem, AtLoop
<1>4. CASE where' # "read"
  <2>1. /\ where' = "sending" /\ fragment' = 0
        /\ item' \in Nat /\ item' > position /\ item' # 0
        /\ item' < FirstEos => item' = position'
    BY <1>4, ItemsType DEF TestRunning, ReadPacket, BeginItem, TypeInv, TypeOK
  <2>2. \A d \in OnWire' : d[1] < item'
    <3> SUFFICES ASSUME NEW d \in OnWire PROVE d[1] < item'
      BY <1>2
    <3>1. d[1] \in Nat /\ position \in Nat
      BY OnWireType, ItemsType DEF TypeInv, TypeOK
    <3>2. d[1] <= position
      BY <1>1 DEF AtLoop
    <3> QED
      BY <2>1, <3>1, <3>2
  <2>3. AtItem' /\ AtLoop'
    BY <1>1, <1>2, <2>1, <2>2 DEF AtItem, AtLoop
  <2> QED
    BY <1>2, <2>3 DEF SentInv
<1> QED
  BY <1>3, <1>4

LEMMA SentStep ==
  ASSUME TypeInv, SentInv, [Next]_vars
  PROVE  SentInv'
<1>1. CASE CallSendAll \/ startAsync \/ open \/ close \/ StopCalled \/ StopReturns
  <2>1. UNCHANGED <<wire, sentPackets, item, fragment>>
    BY <1>1 DEF CallSendAll, startAsync, Launch, open, close, StopCalled, StopReturns, work
  <2>2. \/ UNCHANGED <<where, position>>
        \/ where' \in {"off", "begin"}
    BY <1>1 DEF CallSendAll, startAsync, Launch, open, close, StopCalled, StopReturns, work
  <2>3. /\ Counted' /\ Consecutive' /\ NothingBeforeHeader' /\ OnWire' = OnWire
        /\ Complete(0)' <=> Complete(0)
    BY <2>1, NothingSent
  <2>4. AtItem' /\ AtLoop'
    BY <2>1, <2>2, <2>3 DEF SentInv, AtItem, AtLoop
  <2> QED
    BY <2>3, <2>4 DEF SentInv
<1>2. CASE UNCHANGED vars
  <2>1. UNCHANGED <<wire, sentPackets, item, fragment, where, position>>
    BY <1>2 DEF vars, work
  <2>2. /\ Counted' /\ Consecutive' /\ NothingBeforeHeader' /\ OnWire' = OnWire
        /\ Complete(0)' <=> Complete(0)
    BY <2>1, NothingSent
  <2>3. AtItem' /\ AtLoop'
    BY <2>1, <2>2 DEF SentInv, AtItem, AtLoop
  <2> QED
    BY <2>2, <2>3 DEF SentInv
<1> QED
  BY <1>1, <1>2, SentBegin, SentSendDatagram, SentItemFails, SentFromLoop
  DEF Next, sendAll

(* getSentPackets() counts just the packets and end markers whose datagrams
   were all sent, the fragments one after the other and the header before. *)
THEOREM OnlyCompleteCounts == Spec => []CountedIsComplete
<1>1. Init => TypeInv /\ SentInv
  BY TypeInit, SentInit
<1>2. TypeInv /\ SentInv /\ [Next]_vars => TypeInv' /\ SentInv'
  BY TypeStep, SentStep
<1>3. SentInv => CountedIsComplete
  BY DEF SentInv, Counted, Done, Consecutive, NothingBeforeHeader, CountedIsComplete
<1> QED
  BY <1>1, <1>2, <1>3, PTL DEF Spec
=============================================================================
