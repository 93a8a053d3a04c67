---------------------------- MODULE ReceiverCenter ----------------------------
(***************************************************************************)
(* ReceiverCenter (receiver_center.cpp): the Receiver's worker threads     *)
(* report decoded streams through OnDecodeComplete; one processing thread  *)
(* takes them from a bounded EventQueue and hands them to the user's       *)
(* callback in stream order, keeping those that came early in a min-heap.  *)
(*                                                                         *)
(* A stream is its id.  The Receiver reports a stream at most once (see    *)
(* Receiver, ReportedOnce), so the heap is a set.  The queue is the FIFO    *)
(* that EventQueue implements.  The user's callback may throw.             *)
(***************************************************************************)
EXTENDS Naturals, Sequences, FiniteSets

CONSTANTS Streams,      \* the stream ids that senders use
          QueueCap,     \* kDefaultQueueSize
          MaxPending    \* max_priority_queue_size_

ASSUME StreamsAssumption == Streams \subseteq Nat /\ IsFiniteSet(Streams)
ASSUME QueueCapAssumption == QueueCap \in Nat \ {0}
ASSUME MaxPendingAssumption == MaxPending \in Nat \ {0}

VARIABLES
  qstate,     \* event_queue_: "none" until the thread made it, "open", "stopped"
  queue,      \* the items in event_queue_
  next,       \* next_expected_stream_id_
  pending,    \* pending_items_
  pc,         \* the processing thread: "start", "idle", "drain" or "exited"
  decoded,    \* history: streams reported by the Receiver
  refused,    \* history: streams OnDecodeComplete dropped
  stale,      \* history: streams dropped because next had passed them
  threw,      \* history: streams whose callback has thrown
  delivered   \* history: streams whose callback returned, in order

vars == <<qstate, queue, next, pending, pc,
          decoded, refused, stale, threw, delivered>>

(* Type invariant of the thread's state and the histories, with the bound of
   event_queue_. *)
TypeOK ==
  /\ qstate \in {"none", "open", "stopped"}
  /\ queue \in Seq(Streams) /\ Len(queue) <= QueueCap
  /\ next \in Nat
  /\ pending \in SUBSET Streams
  /\ pc \in {"start", "idle", "drain", "exited"}
  /\ decoded \in SUBSET Streams
  /\ refused \in SUBSET Streams
  /\ stale \in SUBSET Streams
  /\ threw \in SUBSET Streams
  /\ delivered \in Seq(Streams)

Init ==
  /\ qstate = "none" /\ queue = <<>> /\ next = 0 /\ pending = {}
  /\ pc = "start"
  /\ decoded = {} /\ refused = {} /\ stale = {} /\ threw = {}
  /\ delivered = <<>>

-----------------------------------------------------------------------------
(* Faulty variants; only the mutation runs use them. *)

Bug_MaxHeapTop(heap) == CHOOSE s \in heap : \A t \in heap : s >= t
Bug_FullTooLate(heap) == Cardinality(heap) > MaxPending
Bug_EarlyIfDifferent(s) == s # next
-----------------------------------------------------------------------------
(* The heap's comparator makes the smallest id its top. *)
Top(heap) == CHOOSE s \in heap : \A t \in heap : s <= t

HeapFull(heap) == Cardinality(heap) >= MaxPending

Early(s) == s > next

QueueHasRoom == Len(queue) < QueueCap

(* The user's callback for stream s returns, or throws. *)
CallbackReturns(s) ==
  /\ delivered' = Append(delivered, s)
  /\ next' = next + 1
  /\ UNCHANGED threw

CallbackThrows(s) ==
  /\ threw' = threw \cup {s}
  /\ UNCHANGED <<delivered, next>>

(* processThread makes the queue, then runs the loop; when that fails it
   returns and event_queue_ stays null. *)
CreateQueue ==
  /\ pc = "start"
  /\ \/ qstate' = "open" /\ pc' = "idle"
     \/ pc' = "exited" /\ UNCHANGED qstate
  /\ UNCHANGED <<queue, next, pending, decoded, refused, stale, threw,
                 delivered>>

(* Called once for each stream the Receiver decodes, by any of its threads. *)
OnDecodeComplete(s) ==
  /\ s \notin decoded
  /\ decoded' = decoded \cup {s}
  /\ \/ /\ qstate = "open" /\ QueueHasRoom
        /\ queue' = Append(queue, s)
        /\ UNCHANGED refused
     \/ /\ ~(qstate = "open" /\ QueueHasRoom)
        /\ refused' = refused \cup {s}
        /\ UNCHANGED queue
  /\ UNCHANGED <<qstate, next, pending, pc, stale, threw, delivered>>

Bug_NoDrainAfterDirect(s) ==
  /\ s = next
  /\ CallbackReturns(s)
  /\ UNCHANGED <<pc, pending, stale>>

(* The item is the next one: the callback takes it, then the heap is served. *)
DeliverNext(s) ==
  /\ s = next
  /\ \/ CallbackReturns(s) /\ pc' = "drain"
     \/ CallbackThrows(s) /\ UNCHANGED pc
  /\ UNCHANGED <<pending, stale>>

Bug_DiscardsWhenFull(s) ==
  /\ Early(s)
  /\ IF HeapFull(pending \cup {s})
     THEN pc' = "drain" /\ UNCHANGED pending
     ELSE pending' = pending \cup {s} /\ UNCHANGED pc
  /\ UNCHANGED <<next, stale, threw, delivered>>

(* The item is early: the heap keeps it.  When that fills the heap, the
   streams below its top are given up and the heap is served. *)
KeepEarly(s) ==
  /\ Early(s)
  /\ pending' = pending \cup {s}
  /\ IF HeapFull(pending')
     THEN next' = Top(pending') /\ pc' = "drain"
     ELSE UNCHANGED <<next, pc>>
  /\ UNCHANGED <<stale, threw, delivered>>

DropStale(s) ==
  /\ s < next
  /\ stale' = stale \cup {s}
  /\ UNCHANGED <<next, pc, pending, threw, delivered>>

(* The queue's callback for its first item. *)
processDecodedItem ==
  /\ pc = "idle" /\ queue # <<>>
  /\ queue' = Tail(queue)
  /\ LET s == Head(queue) IN DeliverNext(s) \/ KeepEarly(s) \/ DropStale(s)
  /\ UNCHANGED <<qstate, decoded, refused>>

Bug_IgnoresGap ==
  /\ pc = "drain"
  /\ \/ /\ pending # {}
        /\ CallbackReturns(Top(pending))
        /\ pending' = pending \ {Top(pending)}
        /\ UNCHANGED pc
     \/ /\ pending = {}
        /\ pc' = "idle"
        /\ UNCHANGED <<pending, next, threw, delivered>>
  /\ UNCHANGED <<qstate, queue, decoded, refused, stale>>

(* One turn of the loop: the item is popped after its callback returned, so
   a throw leaves it on top of the heap. *)
HandlePendingItems ==
  /\ pc = "drain"
  /\ \/ /\ next \in pending /\ Top(pending) = next
        /\ \/ /\ CallbackReturns(next)
              /\ pending' = pending \ {next}
              /\ UNCHANGED pc
           \/ /\ CallbackThrows(next)
              /\ pc' = "idle"
              /\ UNCHANGED pending
     \/ /\ ~(next \in pending /\ Top(pending) = next)
        /\ pc' = "idle"
        /\ UNCHANGED <<pending, next, threw, delivered>>
  /\ UNCHANGED <<qstate, queue, decoded, refused, stale>>

(* stop(): the queue refuses items and the loop is told to break.  The heap
   is not flushed. *)
Stop ==
  /\ qstate = "open"
  /\ qstate' = "stopped"
  /\ UNCHANGED <<queue, next, pending, pc, decoded, refused, stale, threw,
                 delivered>>

(* The loop notices the break between two of its events. *)
ExitLoop ==
  /\ qstate = "stopped" /\ pc = "idle"
  /\ pc' = "exited"
  /\ UNCHANGED <<qstate, queue, next, pending, decoded, refused, stale, threw,
                 delivered>>

Next ==
  \/ CreateQueue
  \/ \E s \in Streams : OnDecodeComplete(s)
  \/ processDecodedItem
  \/ HandlePendingItems
  \/ Stop
  \/ ExitLoop

(* The thread's loop serves its queue as long as it is not stopped: no
   notification is lost (EventQueue, NoLostWakeup). *)
Fairness ==
  /\ WF_vars(CreateQueue)
  /\ WF_vars(processDecodedItem)
  /\ WF_vars(HandlePendingItems)

Spec == Init /\ [][Next]_vars /\ Fairness
-----------------------------------------------------------------------------
Ids(seq) == {seq[i] : i \in DOMAIN seq}

InQueue == Ids(queue)
Delivered == Ids(delivered)
Accepted == decoded \ refused
Lost == threw \ (pending \cup Delivered)

(* The user sees the streams in increasing order and none twice, whatever
   the order and number of decoding threads, and although a stream whose
   callback threw is offered again (processDecodedItem, HandlePendingItems). *)
InOrder ==
  \A i, j \in DOMAIN delivered : i < j => delivered[i] < delivered[j]

(* Between two items nothing that could be delivered is left in the heap: a
   held stream is after the next one, unless its callback threw. *)
HeldIsAhead ==
  \A s \in pending :
    /\ s >= next
    /\ pc # "drain" /\ s = next => s \in threw

(* Every decoded stream is in exactly one place: refused at the queue, in
   the queue, held, delivered, dropped late, or lost by a throwing callback. *)
Accounted ==
  LET places == <<refused, InQueue, pending, Delivered, stale, Lost>> IN
  /\ decoded = UNION Ids(places)
  /\ \A i, j \in DOMAIN places : i # j => places[i] \cap places[j] = {}

(* A stream is passed over only when MaxPending later ones were accepted
   before it got its turn: displacement by fewer is repaired, or the stream
   was lost by its own callback. *)
ReorderTolerance ==
  \A s \in Streams :
    s < next /\ s \notin Delivered
      => Cardinality({t \in Accepted : t > s}) >= MaxPending

(* While no callback has thrown the heap stays below max_priority_queue_size_
   whenever the thread is between two items. *)
HeapBounded ==
  threw = {} /\ pc # "drain" => Cardinality(pending) < MaxPending

(* A stream all of whose predecessors were accepted is delivered, if it is
   not overtaken (stale), no callback throws and the center isn't stopped. *)
CompletePrefixDelivered ==
  \A s \in Streams :
    (\A t \in 0..s : t \in Accepted)
      ~> (s \in Delivered \/ s \in stale \/ threw # {} \/ qstate = "stopped")

(* The center implements in-order delivery with a window of MaxPending. *)
Abstract == INSTANCE InOrderDelivery
              WITH Window <- MaxPending, offered <- Accepted,
                   floor <- next, out <- delivered
Implements == Abstract!Spec
=============================================================================
