------------------------------- MODULE Receiver -------------------------------
(***************************************************************************)
(* Receiver (receiver.cpp): the network thread spreads the datagrams over  *)
(* the worker threads' queues by stream id; each worker collects the       *)
(* RaptorQ symbols of its streams, decodes a stream when it has enough of  *)
(* them and reports it to the Visitor (ReceiverCenter).                    *)
(*                                                                         *)
(* UDP may lose, duplicate and reorder: any datagram may arrive at any     *)
(* time and any number of times.  The RaptorQ library is modelled by what  *)
(* this code sees of it: a decoder can decode once it has K symbols, and   *)
(* making one, adding a symbol and decoding may fail.                      *)
(***************************************************************************)
EXTENDS Naturals, Sequences, FiniteSets

CONSTANTS Streams,      \* the stream ids
          Symbols,      \* the symbol ids of a stream
          K,            \* how many symbols decode a stream
          N,            \* thread_count_
          QueueCap,     \* kDefaultQueueSize
          MaxArrivals   \* bound: how many datagrams arrive

ASSUME StreamsAssumption == Streams \subseteq Nat
ASSUME SymbolsAssumption == IsFiniteSet(Symbols)
ASSUME KAssumption == K \in Nat \ {0}
ASSUME NAssumption == N \in Nat \ {0}
ASSUME QueueCapAssumption == QueueCap \in Nat \ {0}
ASSUME MaxArrivalsAssumption == MaxArrivals \in Nat

Threads == 0..(N - 1)

(* A well-formed datagram, one with more symbol data than its header allows,
   and one too short for a header. *)
Datagrams == [kind : {"symbol"}, stream : Streams, symbol : Symbols]
               \cup [kind : {"oversized"}, stream : Streams]
               \cup [kind : {"short"}]

VARIABLES
  count,        \* received_count_
  open,         \* the threads that have made their queue
  queues,       \* event_queues_
  made,         \* the streams for which a thread has a StreamDecoder
  symbols,      \* received_symbols of each StreamDecoder
  done,         \* the streams whose StreamDecoder is decoded
  reports,      \* history: the calls of OnDecodeComplete
  accepted,     \* history: the symbols that entered a queue
  faults        \* history: the streams for which the library failed

vars == <<count, open, queues, made, symbols, done, reports, accepted, faults>>

(* Type invariant, with the bound of the queues. *)
TypeOK ==
  /\ count \in 0..MaxArrivals
  /\ open \in SUBSET Threads
  /\ queues \in [Threads -> Seq(Datagrams)]
  /\ \A t \in Threads : Len(queues[t]) <= QueueCap
  /\ made \in [Threads -> SUBSET Streams]
  /\ symbols \in [Threads -> [Streams -> SUBSET Symbols]]
  /\ done \in [Threads -> SUBSET Streams]
  /\ reports \in Seq(Streams)
  /\ accepted \in SUBSET (Streams \X Symbols)
  /\ faults \in SUBSET Streams

Init ==
  /\ count = 0 /\ open = {}
  /\ queues = [t \in Threads |-> <<>>]
  /\ made = [t \in Threads |-> {}]
  /\ symbols = [t \in Threads |-> [s \in Streams |-> {}]]
  /\ done = [t \in Threads |-> {}]
  /\ reports = <<>> /\ accepted = {} /\ faults = {}

-----------------------------------------------------------------------------
(* The worker makes its queue, in its own thread; on failure it ends. *)
CreateQueue(t) ==
  /\ t \notin open
  /\ open' = open \cup {t}
  /\ UNCHANGED <<count, queues, made, symbols, done, reports, accepted, faults>>

Bug_RoundRobin(d) == count' % N

(* All the datagrams of a stream go to one thread, short ones to any. *)
selectQueue(d) == IF d.kind = "short" THEN count' % N ELSE d.stream % N

Bug_HasRoom(t) == Len(queues[t]) <= QueueCap

HasRoom(t) == Len(queues[t]) < QueueCap

(* The network thread's callback: a full or missing queue drops the datagram. *)
onReceive(d) ==
  /\ count < MaxArrivals
  /\ count' = count + 1
  /\ LET t == selectQueue(d) IN
     \/ /\ t \in open /\ HasRoom(t)
        /\ queues' = [queues EXCEPT ![t] = Append(@, d)]
        /\ accepted' = IF d.kind = "symbol"
                       THEN accepted \cup {<<d.stream, d.symbol>>} ELSE accepted
     \/ /\ ~(t \in open /\ HasRoom(t))
        /\ UNCHANGED <<queues, accepted>>
  /\ UNCHANGED <<open, made, symbols, done, reports, faults>>

Bug_canDecode(received) == Cardinality(received) + 1 >= K

Bug_neverFull(received) == Cardinality(received) > K

(* RaptorQ's can_decode. *)
canDecode(received) == Cardinality(received) >= K

(* With the symbols received, decode stream s if possible: it is marked and
   reported, or decoding throws and is tried again when another symbol comes. *)
TryDecode(t, s, received) ==
  \/ /\ canDecode(received)
     /\ done' = [done EXCEPT ![t] = @ \cup {s}]
     /\ reports' = Append(reports, s)
     /\ UNCHANGED faults
  \/ /\ canDecode(received)
     /\ faults' = faults \cup {s}
     /\ UNCHANGED <<done, reports>>
  \/ /\ ~canDecode(received)
     /\ UNCHANGED <<done, reports, faults>>

Bug_NoDecodedCheck(t, s, i) == i \notin symbols[t][s]

(* Symbol i of stream s is news to thread t. *)
IsNew(t, s, i) == s \notin done[t] /\ i \notin symbols[t][s]

(* A symbol for an existing StreamDecoder: ignored when the stream is decoded
   or the symbol is known; else RaptorQ takes it, or refuses it and the earlier
   symbols are tried again. *)
AddSymbol(t, s, i) ==
  \/ /\ IsNew(t, s, i)
     /\ symbols' = [symbols EXCEPT ![t][s] = @ \cup {i}]
     /\ TryDecode(t, s, symbols[t][s] \cup {i})
  \/ /\ IsNew(t, s, i)
     /\ UNCHANGED symbols
     /\ \/ canDecode(symbols[t][s]) /\ TryDecode(t, s, symbols[t][s])
        \/ /\ ~canDecode(symbols[t][s])
           /\ faults' = faults \cup {s}
           /\ UNCHANGED <<done, reports>>
  \/ /\ ~IsNew(t, s, i)
     /\ UNCHANGED <<symbols, done, reports, faults>>

(* getOrCreateDecoder gives nullptr: the symbol is dropped. *)
DecoderNotMade(t, s) ==
  /\ s \notin made[t]
  /\ faults' = faults \cup {s}
  /\ UNCHANGED <<made, symbols, done, reports>>

(* The worker's callback for the first datagram of its queue.  The decoders know a
   stream by its id cut to 32 bits, which is the whole id in a Sender's datagrams. *)
processPacket(t) ==
  /\ queues[t] # <<>>
  /\ queues' = [queues EXCEPT ![t] = Tail(@)]
  /\ LET d == Head(queues[t]) IN
     \/ /\ d.kind # "symbol"
        /\ UNCHANGED <<made, symbols, done, reports, faults>>
     \/ d.kind = "symbol" /\ DecoderNotMade(t, d.stream)
     \/ /\ d.kind = "symbol"
        /\ made' = [made EXCEPT ![t] = @ \cup {d.stream}]
        /\ AddSymbol(t, d.stream, d.symbol)
  /\ UNCHANGED <<count, open, accepted>>

Next ==
  \/ \E t \in Threads : CreateQueue(t) \/ processPacket(t)
  \/ \E d \in Datagrams : onReceive(d)

(* Each worker's loop serves its queue (EventQueue, PushedIsHandled). *)
Fairness == \A t \in Threads : WF_vars(processPacket(t))

Spec == Init /\ [][Next]_vars /\ Fairness
-----------------------------------------------------------------------------
Decoded == UNION {done[t] : t \in Threads}

(* selectQueue sends a stream to one thread, and only that thread has a
   StreamDecoder or symbols of it: what arrives is never split over decoders. *)
OneOwner ==
  \A t \in Threads, s \in Streams :
    s \in made[t] \/ symbols[t][s] # {} \/ s \in done[t] => t = s % N

(* However often its datagrams are repeated, a stream is reported once, and the
   reported streams are those with a decoded StreamDecoder. *)
ReportedOnce ==
  /\ \A i, j \in DOMAIN reports : reports[i] = reports[j] => i = j
  /\ {reports[i] : i \in DOMAIN reports} = Decoded

(* The symbols a worker holds have come from the network, and a reported stream
   had K different ones: a duplicate or malformed datagram does not count. *)
DecodedFromEnough ==
  /\ \A t \in Threads, s \in Streams : {s} \X symbols[t][s] \subseteq accepted
  /\ \A s \in Decoded : Cardinality({i \in Symbols : <<s, i>> \in accepted}) >= K

Enough(s) == Cardinality({i \in Symbols : <<s, i>> \in accepted}) >= K

(* K different symbols that get into a queue are enough, in whatever order and
   between whatever others: the stream is reported unless the library fails. *)
EnoughIsReported == \A s \in Streams : Enough(s) ~> s \in Decoded \cup faults
=============================================================================
