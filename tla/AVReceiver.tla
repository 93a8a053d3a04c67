------------------------------- MODULE AVReceiver -------------------------------
(***************************************************************************)
(* AVReceiver (av_codec/av_receiver.cpp): packets of a media file arrive   *)
(* over UDP without FEC, large ones in fragments; packet_buffer_ restores  *)
(* their order for the MediaWriter.                                        *)
(*                                                                         *)
(* Three threads: the network thread runs onReceive; the main thread calls *)
(* start() and then, as README.md of av_codec shows, finalize(); another   *)
(* may call stop() meanwhile.  buffer_mutex_ and writer_mutex_ are held at *)
(* the program counters that BufferFree and WriterFree name;               *)
(* fragment_mutex_ is only held within one action.                         *)
(***************************************************************************)
EXTENDS Naturals, Sequences

CONSTANTS N,             \* the sender's packets are 0..N-1
          Fragmented,    \* the kinds that are sent in fragments
          Fragments,     \* how many
          Unwritable,    \* packets that writePacket refuses
          MaxBuffer,     \* max_buffer_size_
          MaxWait,       \* max_wait_packets_
          MaxDatagrams   \* bound: datagrams that arrive

(* The end marker's index is the number of packets; the header's is larger. *)
Packets == 0..(N - 1)
Eos == N
Header == N + 1
Kinds == 0..(N + 1)

ASSUME NAssumption == N \in Nat
ASSUME FragmentedAssumption == Fragmented \subseteq Kinds
ASSUME FragmentsAssumption == Fragments \in Nat \ {0, 1}
ASSUME UnwritableAssumption == Unwritable \subseteq Packets
ASSUME MaxBufferAssumption == MaxBuffer \in Nat \ {0}
ASSUME MaxWaitAssumption == MaxWait \in Nat
ASSUME MaxDatagramsAssumption == MaxDatagrams \in Nat

VARIABLES
  main,       \* where the main thread is, see MainStates
  user,       \* where the caller of stop() is
  net,        \* where the network thread is, see NetStates
  item,       \* the packet the network thread handles
  running, eos, finalized,  \* running_, eos_received_, finalized_
  header,     \* header_received_
  ready,      \* writer_ready_
  inStart,    \* start() has not returned
  serving,    \* UDPServer's running_
  break,      \* libevent's event_break
  fragments,  \* fragment_buffers_: the parts of each kind, none: no entry
  buffer,     \* packet_buffer_, smallest index first
  next,       \* next_expected_index_
  direct,     \* history: what processPacket wrote
  flushed,    \* history: the packets that flushBuffer wrote
  processed,  \* history: packets that entered processPacket
  copies,     \* history: how often one did
  closed,     \* the file is completed
  arrived     \* number of datagrams

flags == <<running, eos, finalized, header, ready, inStart>>
server == <<serving, break>>
data == <<fragments, buffer, next, direct, flushed, processed, copies>>
vars == <<main, user, net, item, flags, server, data, closed, arrived>>

MainStates == {"start", "wait", "leave", "stopServer", "join", "returned",
               "finalize", "fragments", "flush", "flushing", "close", "summary",
               "end"}
NetStates == {"none", "spawned", "check", "select", "header", "eos1", "eos2",
              "buffer", "writer", "drain"}

(* Type invariant, with the buffer's limit and order. *)
TypeOK ==
  /\ main \in MainStates /\ net \in NetStates
  /\ user \in {"idle", "stopServer", "join", "done"}
  /\ item \in Packets \union {0}
  /\ \A b \in {running, eos, finalized, header, ready, inStart, serving, break, closed} :
       b \in BOOLEAN
  /\ fragments \in [Fragmented -> SUBSET (0..(Fragments - 1))]
  /\ buffer \in Seq(Packets) /\ Len(buffer) <= MaxBuffer
  /\ \A j, k \in 1..Len(buffer) : j < k => buffer[j] <= buffer[k]
  /\ next \in 0..N
  /\ direct \in Seq(Packets)
  /\ flushed \subseteq Packets /\ processed \subseteq Packets
  /\ copies \in 0..arrived /\ arrived \in 0..MaxDatagrams

Init ==
  /\ main = "start" /\ user = "idle" /\ net = "none" /\ item = 0
  /\ running = FALSE /\ eos = FALSE /\ finalized = FALSE
  /\ header = FALSE /\ ready = FALSE /\ inStart = TRUE
  /\ serving = FALSE /\ break = FALSE
  /\ fragments = [k \in Fragmented |-> {}]
  /\ buffer = <<>> /\ next = 0 /\ direct = <<>> /\ flushed = {}
  /\ processed = {} /\ copies = 0 /\ closed = FALSE /\ arrived = 0

BufferFree == net \notin {"writer", "drain"} /\ main # "flushing"
WriterFree == net # "drain" /\ main # "summary"
-----------------------------------------------------------------------------
(* The network thread. *)

Bind ==
  /\ net = "spawned"
  /\ net' = "check" /\ serving' = TRUE
  /\ UNCHANGED <<main, user, item, flags, break, data, closed, arrived>>

CheckBreak ==
  /\ net = "check"
  /\ net' = IF break THEN "none" ELSE "select"
  /\ UNCHANGED <<main, user, item, flags, server, data, closed, arrived>>

(* processCompleteData: what is done with a packet of kind k. *)
Dispatch(k) ==
  /\ net' = CASE k = Header -> "header" [] k = Eos -> "eos1" [] OTHER -> "buffer"
  /\ item' = IF k \in Packets THEN k ELSE 0

Complete(parts) == parts = 0..(Fragments - 1)

(* The fragments after part i of kind k. *)
Bug_Stored(k, i) == [fragments EXCEPT ![k] = @ \union {i}]

Stored(k, i) ==
  LET parts == fragments[k] \union {i}
  IN  [fragments EXCEPT ![k] = IF Complete(parts) THEN {} ELSE parts]

(* onReceive of a fragment.  Every hundredth call drops what is older than five
   seconds, here any entries at any call. *)
ReceiveFragment(k, i) ==
  /\ IF Complete(fragments[k] \union {i})
     THEN Dispatch(k)
     ELSE net' = "check" /\ UNCHANGED item
  /\ \E old \in SUBSET Fragmented :
       fragments' = [f \in Fragmented |-> IF f \in old THEN {} ELSE Stored(k, i)[f]]

onReceive(k) ==
  /\ net = "select" /\ arrived < MaxDatagrams
  /\ arrived' = arrived + 1
  /\ IF k \in Fragmented
     THEN \E i \in 0..(Fragments - 1) : ReceiveFragment(k, i)
     ELSE Dispatch(k) /\ UNCHANGED fragments
  /\ UNCHANGED <<main, user, flags, server, buffer, next, direct, flushed, processed,
                 copies, closed>>

(* Empty datagrams and those that deserialize refuses. *)
Ignore ==
  /\ net = "select" /\ arrived < MaxDatagrams
  /\ arrived' = arrived + 1 /\ net' = "check"
  /\ UNCHANGED <<main, user, item, flags, server, data, closed>>

(* The media header opens the file, unless that fails. *)
ReceiveHeader ==
  /\ net = "header" /\ WriterFree
  /\ net' = "check"
  /\ \/ ~header /\ header' = TRUE /\ ready' = TRUE
     \/ UNCHANGED <<header, ready>>
  /\ UNCHANGED <<main, user, item, running, eos, finalized, inStart, server, data,
                 closed, arrived>>

(* The end marker sets two flags, one after the other. *)
EosStops ==
  /\ net = "eos1"
  /\ net' = "eos2" /\ running' = FALSE
  /\ UNCHANGED <<main, user, item, eos, finalized, header, ready, inStart, server,
                 data, closed, arrived>>

EosReceived ==
  /\ net = "eos2"
  /\ net' = "check" /\ eos' = TRUE
  /\ UNCHANGED <<main, user, item, running, finalized, header, ready, inStart, server,
                 data, closed, arrived>>

(* How many packets of the heap come before packet i. *)
Place(s, i) ==
  {p \in 0..Len(s) : \A j \in 1..Len(s) : j <= p <=> s[j] <= i}

Insert(s, p, i) ==
  [j \in 1..(Len(s) + 1) |->
     IF j <= p THEN s[j] ELSE IF j = p + 1 THEN i ELSE s[j - 1]]

Bug_FullTooLate == Len(buffer) > MaxBuffer
Full == Len(buffer) >= MaxBuffer

(* processPacket: under buffer_mutex_, insert; a full buffer loses its smallest. *)
BufferPacket ==
  /\ net = "buffer" /\ BufferFree
  /\ LET kept == IF Full THEN Tail(buffer) ELSE buffer
     IN  \E p \in Place(kept, item) : buffer' = Insert(kept, p, item)
  /\ processed' = processed \union {item} /\ copies' = copies + 1
  /\ net' = IF ready THEN "writer" ELSE "check"
  /\ item' = 0
  /\ UNCHANGED <<main, user, flags, server, fragments, next, direct, flushed, closed,
                 arrived>>

LockWriter ==
  /\ net = "writer" /\ WriterFree
  /\ net' = "drain"
  /\ UNCHANGED <<main, user, item, flags, server, data, closed, arrived>>

(* The loop that writes what can be written, one turn at a time. *)
Expected == buffer # <<>> /\ Head(buffer) = next
Bug_Crowded == Len(buffer) + 1 >= MaxWait
Crowded == Len(buffer) >= MaxWait

(* MediaWriter::writePacket takes the packet. *)
Writable(i) == i \notin Unwritable

WriteTop ==
  /\ net = "drain" /\ buffer # <<>>
  /\ buffer' = Tail(buffer)
  /\ direct' = IF Writable(Head(buffer)) THEN Append(direct, Head(buffer)) ELSE direct
  /\ next' = Head(buffer) + 1
  /\ UNCHANGED <<main, user, net, item, flags, server, fragments, flushed, processed,
                 copies, closed, arrived>>

WriteExpected == Expected /\ WriteTop

Old == Head(buffer) < next

Bug_SkipMissing == buffer # <<>> /\ ~Expected /\ Crowded /\ WriteTop
SkipMissing == buffer # <<>> /\ ~Expected /\ Crowded /\ ~Old /\ WriteTop

DropOld ==
  /\ net = "drain" /\ buffer # <<>> /\ Crowded /\ Old
  /\ buffer' = Tail(buffer)
  /\ UNCHANGED <<main, user, net, item, flags, server, fragments, next, direct, flushed,
                 processed, copies, closed, arrived>>

Bug_WaitForMore ==
  /\ net = "drain"
  /\ buffer = <<>>
  /\ net' = "check"
  /\ UNCHANGED <<main, user, item, flags, server, data, closed, arrived>>

WaitForMore ==
  /\ net = "drain"
  /\ ~Expected
  /\ ~Crowded \/ buffer = <<>>
  /\ net' = "check"
  /\ UNCHANGED <<main, user, item, flags, server, data, closed, arrived>>

processPacket ==
  BufferPacket \/ LockWriter \/ WriteExpected \/ SkipMissing \/ DropOld \/ WaitForMore

HandleDatagram == ReceiveHeader \/ EosStops \/ EosReceived \/ processPacket
-----------------------------------------------------------------------------
(* start() up to its loop; the server's result is not looked at. *)
start ==
  /\ main = "start"
  /\ main' = "wait" /\ running' = TRUE
  /\ net' \in {"spawned", "none"}
  /\ UNCHANGED <<user, item, eos, finalized, header, ready, inStart, server, data,
                 closed, arrived>>

LeaveLoop ==
  /\ main = "wait" /\ (~running \/ eos)
  /\ main' = "leave"
  /\ UNCHANGED <<user, net, item, flags, server, data, closed, arrived>>

(* eos_received_ is read again after the loop. *)
AfterLoop ==
  /\ main = "leave"
  /\ IF eos
     THEN main' = "stopServer" /\ UNCHANGED <<running, inStart>>
     ELSE main' = "returned" /\ running' = FALSE /\ inStart' = FALSE
  /\ UNCHANGED <<user, net, item, eos, finalized, header, ready, server, data, closed,
                 arrived>>

(* UDPServer::stop up to the join: nothing when someone called it before. *)
StopServer ==
  IF serving THEN serving' = FALSE /\ break' = TRUE ELSE UNCHANGED server

MainStopServer ==
  /\ main = "stopServer"
  /\ main' = IF serving THEN "join" ELSE "finalize"
  /\ StopServer
  /\ UNCHANGED <<user, net, item, flags, data, closed, arrived>>

MainJoin ==
  /\ main = "join" /\ net = "none"
  /\ main' = "finalize"
  /\ UNCHANGED <<user, net, item, flags, server, data, closed, arrived>>

(* The caller of start() finalizes too. *)
CallFinalize ==
  /\ main = "returned"
  /\ main' = "finalize"
  /\ UNCHANGED <<user, net, item, flags, server, data, closed, arrived>>

(* The end of finalize(), and of start() when that called it. *)
Return ==
  /\ main' = IF inStart THEN "returned" ELSE "end"
  /\ inStart' = FALSE
  /\ running' = IF inStart THEN FALSE ELSE running

finalize ==
  /\ main = "finalize"
  /\ finalized' = TRUE
  /\ IF finalized
     THEN Return
     ELSE main' = "fragments" /\ UNCHANGED <<inStart, running>>
  /\ UNCHANGED <<user, net, item, eos, header, ready, server, data, closed, arrived>>

(* None is complete, see FragmentsIncomplete: all are dropped. *)
DropFragments ==
  /\ main = "fragments"
  /\ main' = "flush"
  /\ fragments' = [k \in Fragmented |-> {}]
  /\ UNCHANGED <<user, net, item, flags, server, buffer, next, direct, flushed,
                 processed, copies, closed, arrived>>

FlushLocksBuffer ==
  /\ main = "flush" /\ BufferFree
  /\ main' = "flushing"
  /\ UNCHANGED <<user, net, item, flags, server, data, closed, arrived>>

FlushWrites == {buffer[j] : j \in {k \in 1..Len(buffer) : Writable(buffer[k])}}

Bug_flushBuffer ==
  /\ main = "flushing" /\ WriterFree
  /\ main' = "close"
  /\ buffer' = <<>>
  /\ flushed' = IF ready THEN flushed \union FlushWrites ELSE flushed
  /\ UNCHANGED <<user, net, item, flags, server, fragments, next, direct, processed,
                 copies, closed, arrived>>

(* flushBuffer writes everything, old packets too, and next_expected_index_
   follows the largest. *)
flushBuffer ==
  /\ main = "flushing" /\ WriterFree
  /\ main' = "close"
  /\ IF ready
     THEN /\ flushed' = flushed \union FlushWrites
          /\ next' \in {next} \union {i + 1 : i \in FlushWrites}
          /\ next' >= next /\ \A i \in FlushWrites : i < next'
          /\ buffer' = <<>>
     ELSE UNCHANGED <<flushed, next, buffer>>
  /\ UNCHANGED <<user, net, item, flags, server, fragments, direct, processed, copies,
                 closed, arrived>>

CloseFile ==
  /\ main = "close" /\ ready /\ WriterFree
  /\ main' = "summary"
  /\ closed' = TRUE /\ ready' = FALSE
  /\ UNCHANGED <<user, net, item, running, eos, finalized, header, inStart, server,
                 data, arrived>>

NoFile ==
  /\ main = "close" /\ ~ready
  /\ Return
  /\ UNCHANGED <<user, net, item, eos, finalized, header, ready, server, data, closed,
                 arrived>>

Bug_Summary ==
  /\ main = "summary"
  /\ Return
  /\ UNCHANGED <<user, net, item, eos, finalized, header, ready, server, data, closed,
                 arrived>>

(* The closing report looks at the buffer, still under writer_mutex_. *)
Summary ==
  /\ main = "summary" /\ BufferFree
  /\ Return
  /\ UNCHANGED <<user, net, item, eos, finalized, header, ready, server, data, closed,
                 arrived>>

Finalizing == finalize \/ DropFragments \/ FlushLocksBuffer \/ flushBuffer
                \/ CloseFile \/ NoFile \/ Summary

Main == LeaveLoop \/ AfterLoop \/ MainStopServer \/ MainJoin \/ Finalizing
-----------------------------------------------------------------------------
(* stop() of another thread; no fragments are complete for it to process. *)
stop ==
  /\ user = "idle" /\ main # "start"
  /\ running' = FALSE
  /\ user' = IF running THEN "stopServer" ELSE "done"
  /\ UNCHANGED <<main, net, item, eos, finalized, header, ready, inStart, server, data,
                 closed, arrived>>

UserStopServer ==
  /\ user = "stopServer"
  /\ user' = IF serving THEN "join" ELSE "done"
  /\ StopServer
  /\ UNCHANGED <<main, net, item, flags, data, closed, arrived>>

UserJoin ==
  /\ user = "join" /\ net = "none"
  /\ user' = "done"
  /\ UNCHANGED <<main, net, item, flags, server, data, closed, arrived>>

Net == Bind \/ CheckBreak \/ HandleDatagram

Next ==
  \/ Net \/ Ignore \/ \E k \in Kinds : onReceive(k)
  \/ start \/ CallFinalize \/ Main
  \/ stop \/ UserStopServer \/ UserJoin

(* Threads that can go on do; neither the network nor callers owe anything. *)
Fairness == WF_vars(Net) /\ WF_vars(Main) /\ WF_vars(UserStopServer \/ UserJoin)

Spec == Init /\ [][Next]_vars /\ Fairness
-----------------------------------------------------------------------------
(* processPacket hands packets to the writer in index order, each once, however
   they were repeated and reordered. *)
DirectInOrder ==
  \A j, k \in 1..Len(direct) : j < k => direct[j] < direct[k]

InSeq(i, s) == \E j \in 1..Len(s) : s[j] = i

(* Reordering among fewer packets than MaxWait loses none: until the flush the
   writer has seen all packets before the next expected one. *)
ToleratesReordering ==
  copies < MaxWait /\ flushed = {} =>
    \A i \in Packets \ Unwritable : i < next => InSeq(i, direct)

(* A packet whose last fragment came was taken out of the fragment map at once, so
   that stop() and finalize(), which drop the map, find incomplete ones only. *)
FragmentsIncomplete == \A k \in Fragmented : ~Complete(fragments[k])

(* No packet that came in is thrown away: none is complete among the fragments,
   and until MaxWait or more than MaxBuffer have come each is written, by
   processPacket or the flush, or still in the buffer. *)
NothingThrownAway ==
  /\ FragmentsIncomplete
  /\ copies < MaxWait /\ copies <= MaxBuffer =>
       \A i \in processed \ Unwritable :
         InSeq(i, direct) \/ i \in flushed \/ InSeq(i, buffer)

(* The writer gets no packet after finalize() completed the file, although the
   network thread may still run. *)
NoWriteAfterClose == net = "drain" => ~closed

(* finalize() returns, save for one deadlock: its closing report waits for the
   buffer, holding the writer, and processPacket the other way round. *)
FinalizeReturns ==
  main = "finalize" ~> \/ main \in {"returned", "end"}
                       \/ main = "summary" /\ net = "writer"

(* README.md of av_codec: start() completes the file by itself after the end
   marker. *)
StartCompletesFile == main = "returned" /\ eos /\ ready => closed
=============================================================================
