------------------------------- MODULE AVSender -------------------------------
(***************************************************************************)
(* AVSender (av_codec/av_sender.cpp): sendAll reads the packets of a file  *)
(* and sends each as one datagram or, if it is too large for one, as       *)
(* fragments; a header goes first and three end markers last.  It runs in  *)
(* its caller's thread or, after startAsync, in a thread of its own, while *)
(* another thread may call stop().                                         *)
(*                                                                         *)
(* The items of a session are numbered: 0 is the header, then come the     *)
(* packets, and the last three are the end markers.  The caller keeps to   *)
(* one sendAll at a time and doesn't open or close the file under it.      *)
(***************************************************************************)
EXTENDS MediaFormat, FiniteSets

CONSTANTS DataSizes,    \* the bytes of data in each packet of the file
          video_extra, audio_extra,     \* and in the header's extradata
          MAX_UDP_PAYLOAD, FRAGMENT_HEADER_SIZE,
          MaxFragments, \* 65535: fragments are counted in 16 bits
          MaxStarts     \* bound: how often sending is started

ASSUME SizesAssumption ==
  DataSizes \in Seq(Nat) /\ video_extra \in Nat /\ audio_extra \in Nat
ASSUME PayloadAssumption ==
  /\ MAX_UDP_PAYLOAD \in Nat /\ FRAGMENT_HEADER_SIZE \in Nat
  /\ FRAGMENT_HEADER_SIZE < MAX_UDP_PAYLOAD
ASSUME BoundsAssumption == MaxFragments \in Nat \ {0} /\ MaxStarts \in Nat

-----------------------------------------------------------------------------
(* How much of the data fits into a fragment. *)
max_fragment_data == MAX_UDP_PAYLOAD - FRAGMENT_HEADER_SIZE

total_fragments(size) == (size + max_fragment_data - 1) \div max_fragment_data

(* Fragment i of size bytes: where it starts and how much it carries. *)
offset(i) == i * max_fragment_data
fragment_size(size, i) ==
  IF size - offset(i) < max_fragment_data THEN size - offset(i)
                                          ELSE max_fragment_data

(* In how many datagrams an item of so many bytes is sent. *)
Datagrams(size) == IF size > MAX_UDP_PAYLOAD THEN total_fragments(size) ELSE 1

-----------------------------------------------------------------------------
Items == 0..(Len(DataSizes) + 3)
FirstEos == Len(DataSizes) + 1

MediaHeaderSize == HeaderSize(video_extra, audio_extra)

(* The header is the data of a packet; an end marker has none. *)
Size(i) ==
  PacketSize(IF i = 0 THEN MediaHeaderSize
             ELSE IF i < FirstEos THEN DataSizes[i] ELSE 0)

VARIABLES
  opened,       \* the MediaReader has a file
  running,      \* running_
  joinable,     \* send_thread_ has a thread that was not joined
  async,        \* the session is that thread's and not its caller's
  where,        \* how far sendAll is, see Places
  item,         \* the item being sent,
  fragment,     \* and how many of its datagrams have been
  position,     \* packet_count_ of the reader
  sentPackets,  \* sent_packets_
  stopping,     \* a thread is in stop(), in the join
  starts,       \* how often sending was started
  wire,         \* history: the datagrams of the session, as <<item, fragment>>
  limit,        \* history: how far the file may be read: to its end, or after a
                \* stop() to where it was, and a read that had begun
  headerLost,   \* history: the session ended because of its header
  terminated    \* startAsync assigned to a joinable thread: std::terminate

flags == <<opened, running, joinable, async, stopping, starts, limit, terminated>>
work == <<where, item, fragment, position, sentPackets, wire, headerLost>>
vars == <<flags, work>>

Places ==
  {"off", "begin",
   "sending",     \* the datagrams of an item
   "loop",        \* about to look at running_
   "read"}        \* running_ was set: in readPacket

TypeOK ==
  /\ {opened, running, joinable, async, stopping, headerLost, terminated} \subseteq BOOLEAN
  /\ where \in Places /\ item \in Items
  /\ fragment \in 0..MaxFragments
  /\ position \in 0..Len(DataSizes) /\ sentPackets \in Nat
  /\ starts \in 0..MaxStarts /\ limit \in 0..Len(DataSizes)
  /\ wire \in Seq(Items \X (0..MaxFragments))

Init ==
  /\ opened = FALSE /\ running = FALSE /\ joinable = FALSE /\ async = FALSE /\ stopping = FALSE
  /\ starts = 0
  /\ where = "off" /\ item = 0 /\ fragment = 0 /\ position = 0
  /\ sentPackets = 0 /\ wire = <<>>
  /\ limit = Len(DataSizes) /\ headerLost = FALSE /\ terminated = FALSE

-----------------------------------------------------------------------------
(* The callers. *)

(* sendAll is called, or the thread of startAsync calls it. *)
Launch ==
  /\ starts < MaxStarts /\ ~stopping /\ where = "off"
  /\ starts' = starts + 1
  /\ where' = "begin" /\ limit' = Len(DataSizes)
  /\ UNCHANGED <<opened, running, stopping, item, fragment, position, sentPackets, wire,
                 headerLost>>

CallSendAll == Launch /\ async' = FALSE /\ UNCHANGED <<joinable, terminated>>

(* It returns if running_; a thread that has ended is still joinable. *)
startAsync ==
  \/ /\ ~joinable /\ Launch
     /\ joinable' = TRUE /\ async' = TRUE /\ UNCHANGED terminated
  \/ /\ joinable /\ ~running /\ ~stopping
     /\ terminated' = TRUE
     /\ UNCHANGED <<opened, running, joinable, async, stopping, starts, limit, work>>

(* A file is opened, from its beginning, or can't be. *)
open ==
  /\ where = "off" /\ ~stopping
  /\ position' = 0
  /\ opened' \in BOOLEAN
  /\ UNCHANGED <<running, joinable, async, stopping, starts, limit, terminated, where,
                 item, fragment, sentPackets, wire, headerLost>>

close ==
  /\ where = "off" /\ ~stopping
  /\ position' = 0 /\ opened' = FALSE
  /\ UNCHANGED <<running, joinable, async, stopping, starts, limit, terminated, where,
                 item, fragment, sentPackets, wire, headerLost>>

(* A session that is stopped here may end the read it is in, but begin none. *)
StopAt ==
  IF position < limit THEN position + (IF where = "read" THEN 1 ELSE 0) ELSE limit

(* stop() clears running_ and joins the thread there is. *)
StopCalled ==
  /\ ~stopping
  /\ running' = FALSE
  /\ stopping' = joinable
  /\ limit' = IF where \in {"sending", "loop", "read"} THEN StopAt ELSE limit
  /\ UNCHANGED <<opened, joinable, async, starts, terminated, work>>

StopReturns ==
  /\ stopping /\ (async => where = "off")
  /\ stopping' = FALSE /\ joinable' = FALSE
  /\ UNCHANGED <<opened, running, async, starts, limit, terminated, work>>

-----------------------------------------------------------------------------
(* sendAll. *)

BeginItem(i) == where' = "sending" /\ item' = i /\ fragment' = 0

(* It returns at once without a file. *)
Begin ==
  /\ where = "begin"
  /\ \/ /\ opened
        /\ running' = TRUE /\ sentPackets' = 0
        /\ BeginItem(0)
        /\ wire' = <<>> /\ headerLost' = FALSE
     \/ /\ ~opened /\ where' = "off"
        /\ UNCHANGED <<running, sentPackets, item, fragment, wire, headerLost>>
  /\ UNCHANGED <<opened, joinable, async, stopping, starts, limit, terminated, position>>

(* After an item: the loop, another end marker, or the end. *)
Continue ==
  \/ item < FirstEos /\ where' = "loop" /\ UNCHANGED <<running, item, fragment>>
  \/ item \in FirstEos..(FirstEos + 1) /\ BeginItem(item + 1) /\ UNCHANGED running
  \/ /\ item = FirstEos + 2
     /\ where' = "off" /\ running' = FALSE /\ UNCHANGED <<item, fragment>>

Last == fragment + 1 = Datagrams(Size(item))

(* One datagram; with the last one the item is counted, but not the header. *)
SendDatagram ==
  /\ where = "sending" /\ Datagrams(Size(item)) <= MaxFragments
  /\ wire' = Append(wire, <<item, fragment>>)
  /\ \/ ~Last /\ fragment' = fragment + 1 /\ UNCHANGED <<where, item, running, sentPackets>>
     \/ Last /\ sentPackets' = sentPackets + (IF item = 0 THEN 0 ELSE 1) /\ Continue
  /\ UNCHANGED <<opened, joinable, async, stopping, starts, limit, terminated, position,
                 headerLost>>

(* A failed send only skips its datagram. *)
Bug_ItemFails ==
  /\ where = "sending"
  /\ \/ ~Last /\ fragment' = fragment + 1 /\ UNCHANGED <<where, item, running, sentPackets>>
     \/ Last /\ sentPackets' = sentPackets + (IF item = 0 THEN 0 ELSE 1) /\ Continue
  /\ UNCHANGED <<opened, joinable, async, stopping, starts, limit, terminated, position,
                 wire, headerLost>>

(* send fails, or there are too many fragments: the rest of the item is not
   sent; without a header sendAll ends. *)
ItemFails ==
  /\ where = "sending"
  /\ \/ item = 0 /\ where' = "off" /\ running' = FALSE /\ headerLost' = TRUE
        /\ UNCHANGED <<item, fragment>>
     \/ item # 0 /\ Continue /\ UNCHANGED headerLost
  /\ UNCHANGED <<opened, joinable, async, stopping, starts, limit, terminated, position,
                 sentPackets, wire>>

(* The loop doesn't look at running_. *)
Bug_TestRunning ==
  /\ where = "loop"
  /\ where' = "read" /\ UNCHANGED <<item, fragment>>
  /\ UNCHANGED <<flags, position, sentPackets, wire, headerLost>>

(* A stopped session ends without the markers. *)
Bug_NoMarkers ==
  /\ where = "loop"
  /\ \/ running /\ where' = "read"
     \/ ~running /\ where' = "off"
  /\ UNCHANGED <<flags, item, fragment, position, sentPackets, wire, headerLost>>

(* The loop looks at running_, and then reads; when stopped it goes on to the end
   markers. *)
TestRunning ==
  /\ where = "loop"
  /\ \/ running /\ where' = "read" /\ UNCHANGED <<item, fragment>>
     \/ ~running /\ BeginItem(FirstEos)
  /\ UNCHANGED <<flags, position, sentPackets, wire, headerLost>>

(* The next packet, whether or not stop() has come meanwhile; or the end markers, at
   the end of the file and when reading fails, which readPacket doesn't tell apart. *)
ReadPacket ==
  /\ where = "read"
  /\ \/ /\ position < Len(DataSizes)
        /\ position' = position + 1
        /\ BeginItem(position + 1)
     \/ BeginItem(FirstEos) /\ UNCHANGED position
  /\ UNCHANGED <<flags, sentPackets, wire, headerLost>>

sendAll == Begin \/ SendDatagram \/ ItemFails \/ TestRunning \/ ReadPacket

Next ==
  /\ ~terminated
  /\ \/ CallSendAll \/ startAsync \/ open \/ close \/ StopCalled \/ StopReturns
     \/ sendAll

(* A thread that can go on does. *)
Fairness == WF_vars(~terminated /\ sendAll) /\ WF_vars(~terminated /\ StopReturns)

Spec == Init /\ [][Next]_vars /\ Fairness
-----------------------------------------------------------------------------
(* The fragments of an item of so many bytes carry all of them: none is empty or too
   long, each starts where the one before it ends, and the last ends the item. *)
CarriesAll(size) ==
  LET last == total_fragments(size) - 1 IN
  /\ \A i \in 0..last : fragment_size(size, i) \in 1..max_fragment_data
  /\ offset(0) = 0 /\ offset(last) + fragment_size(size, last) = size
  /\ \A i \in 0..(last - 1) : offset(i) + fragment_size(size, i) = offset(i + 1)

OnWire == {wire[k] : k \in DOMAIN wire}

Complete(i) == \A f \in 0..(Datagrams(Size(i)) - 1) : <<i, f>> \in OnWire

(* getSentPackets() is the number of packets and end markers that the receiver
   can put together: all their datagrams were sent, each after the one before,
   and nothing without the header. *)
CountedIsComplete ==
  /\ sentPackets = Cardinality({i \in Items \ {0} : Complete(i)})
  /\ \A k \in DOMAIN wire : wire[k][2] > 0 =>
       k > 1 /\ wire[k - 1] = <<wire[k][1], wire[k][2] - 1>>
  /\ \A d \in OnWire : d[1] # 0 => Complete(0)

(* A stop() that comes when sendAll has begun is heard: of what was not read by
   then only the packet is read and sent whose read had begun, the test of running_
   behind it, and none if the session was elsewhere.  (One that comes before is
   lost.) *)
StopIsHeard == position <= limit

(* stop() returns; when it came while the thread had a file to send, it leaves a
   receiver that has had the header with the end markers: the session ends with
   the last of them, or for want of a header. *)
StopSaysGoodbye ==
  /\ stopping ~> ~stopping
  /\ stopping /\ async /\ opened /\ where # "off"
       ~> ~stopping /\ (headerLost \/ item = FirstEos + 2)
=============================================================================
