-------------------------------- MODULE Sender --------------------------------
(***************************************************************************)
(* SendCenter (send_center.cpp) and Sender (sender.cpp): callers get a     *)
(* stream id for their data and put it in the queue of one of N encoding   *)
(* threads; the thread encodes an item (RqPack) and sends its symbols as    *)
(* UDP datagrams; stop() closes the queues, breaks the loops, joins the        *)
(* threads and destroys the queues.                                        *)
(*                                                                         *)
(* start() and stop() are called once: after stop() event_queues_ is       *)
(* empty, and a second start() would write to elements it doesn't have.    *)
(***************************************************************************)
EXTENDS RqPack

CONSTANTS Callers,      \* the threads that call sendData
          N,            \* encode_thread_count_
          QueueCap,     \* kDefaultQueueSize
          DataSize,     \* the bytes of each caller's data, by stream id
          symbol_size,  \* symbol_size_
          RepairPercent,\* repair_ratio_
          IdSpace,      \* how many stream ids fit in 32 bits
          MaxIds        \* bound: how often sendData is called

ASSUME NAssumption == N \in Nat \ {0}
ASSUME QueueCapAssumption == QueueCap \in Nat \ {0}
ASSUME SizesAssumption ==
  symbol_size \in Nat \ {0} /\ RepairPercent \in 0..100
ASSUME IdSpaceAssumption == IdSpace \in Nat \ {0}
ASSUME MaxIdsAssumption ==
  MaxIds \in Nat /\ DataSize \in [0..(MaxIds - 1) -> Nat \ {0}]

Threads == 0..(N - 1)
Ids == 0..(MaxIds - 1)

(* The symbols of an item: a small ratio of few symbols makes repair_count 0. *)
repair_count(id) ==
  RatioCount(calculateBlockSize(DataSize[id], symbol_size), RepairPercent)
symbols(id) ==
  encodeAll(calculateBlockSize(DataSize[id], symbol_size), repair_count(id))

(* A datagram, with what its header says of the data. *)
PacketHeader(id, symbol_id) ==
  [stream_id |-> id % IdSpace, symbol_id |-> symbol_id,
   original_size |-> DataSize[id], symbol_size |-> symbol_size]

VARIABLES
  counter,      \* stream_id_counter_
  caller,       \* <<>>, or <<where, id>>: how far sendData is
  life,         \* see Lives
  open,         \* the threads that have made their queue
  closed,       \* the threads whose queue is stopped
  queues,       \* event_queues_
  encoding,     \* <<>>, or <<id, n>>: n symbols of the item have been sent
  exited,       \* the threads that have ended
  sentCount,    \* sent_symbol_count_
  net,          \* history: the datagrams sent
  refused,      \* history: the ids for which sendData gave false
  finished,     \* history: the items encoded and sent (sent_count_)
  failed,       \* history: the items that couldn't be encoded (failed_count_)
  unsent,       \* history: for how many symbols of an item send failed
  lost,         \* history: the items destroyed with their queue
  drained,      \* history: stop() was called when nothing waited
  wild          \* history: a caller used a destroyed queue

callVars == <<counter, caller, refused>>
workVars == <<encoding, sentCount, net, finished, failed, unsent>>
stopVars == <<life, open, closed, exited, lost, drained>>
vars == <<callVars, workVars, stopVars, queues, wild>>

Lives == {"off", "running", "stopping", "broke", "stopped"}

(* Type invariant, with the bound of the queues. *)
TypeOK ==
  /\ counter \in 0..MaxIds
  /\ caller \in [Callers -> {<<>>} \cup {"allocated", "checked"} \X Ids]
  /\ life \in Lives
  /\ open \in SUBSET Threads /\ closed \in SUBSET Threads
  /\ exited \in SUBSET Threads
  /\ queues \in [Threads -> Seq(Ids)]
  /\ \A t \in Threads : Len(queues[t]) <= QueueCap
  /\ encoding \in [Threads -> {<<>>} \cup Ids \X Nat]
  /\ sentCount \in Nat
  /\ net \subseteq UNION {{PacketHeader(id, i) : i \in 0..(Len(symbols(id)) - 1)} : id \in Ids}
  /\ {refused, finished, failed, lost} \subseteq SUBSET Ids
  /\ unsent \in [Ids -> Nat]
  /\ drained \in BOOLEAN /\ wild \in BOOLEAN

Init ==
  /\ counter = 0 /\ caller = [c \in Callers |-> <<>>] /\ refused = {}
  /\ encoding = [t \in Threads |-> <<>>]
  /\ sentCount = 0 /\ net = {} /\ finished = {} /\ failed = {}
  /\ unsent = [id \in Ids |-> 0]
  /\ life = "off" /\ open = {} /\ closed = {} /\ exited = {}
  /\ lost = {} /\ drained = FALSE
  /\ queues = [t \in Threads |-> <<>>]
  /\ wild = FALSE

-----------------------------------------------------------------------------
(* sendData, in a caller's thread. *)

Bug_AllocateId(c) ==
  /\ caller[c] = <<>> /\ counter < MaxIds
  /\ caller' = [caller EXCEPT ![c] = <<"allocated", counter>>]
  /\ counter' = IF \A d \in Callers : caller[d] = <<>> THEN counter + 1 ELSE counter
  /\ UNCHANGED <<refused, workVars, stopVars, queues, wild>>

(* SendCenter: fetch_add. *)
AllocateId(c) ==
  /\ caller[c] = <<>> /\ counter < MaxIds
  /\ caller' = [caller EXCEPT ![c] = <<"allocated", counter>>]
  /\ counter' = counter + 1
  /\ UNCHANGED <<refused, workVars, stopVars, queues, wild>>

Refuse(c) ==
  /\ caller' = [caller EXCEPT ![c] = <<>>]
  /\ refused' = refused \cup {caller[c][2]}

(* Sender: false unless running_. *)
CheckRunning(c) ==
  /\ caller[c] # <<>> /\ caller[c][1] = "allocated"
  /\ \/ /\ life = "running"
        /\ caller' = [caller EXCEPT ![c] = <<"checked", @[2]>>]
        /\ UNCHANGED refused
     \/ life # "running" /\ Refuse(c)
  /\ UNCHANGED <<counter, workVars, stopVars, queues, wild>>

selectQueue(id) == id % N

Bug_Accepts(t) == t \in open \ closed /\ Len(queues[t]) <= QueueCap

(* The queue is there, not stopped and not full. *)
Accepts(t) == t \in open \ closed /\ Len(queues[t]) < QueueCap

(* Push, or false. *)
PushItem(c) ==
  /\ caller[c] # <<>> /\ caller[c][1] = "checked"
  /\ life # "stopped"
  /\ LET id == caller[c][2]  t == selectQueue(id) IN
     \/ /\ Accepts(t)
        /\ queues' = [queues EXCEPT ![t] = Append(@, id)]
        /\ caller' = [caller EXCEPT ![c] = <<>>]
        /\ UNCHANGED refused
     \/ ~Accepts(t) /\ Refuse(c) /\ UNCHANGED queues
  /\ UNCHANGED <<counter, workVars, stopVars, wild>>

(* event_queues_[i] after event_queues_.clear(): undefined behaviour. *)
UseDestroyedQueue(c) ==
  /\ caller[c] # <<>> /\ caller[c][1] = "checked"
  /\ life = "stopped"
  /\ wild' = TRUE
  /\ Refuse(c)
  /\ UNCHANGED <<counter, workVars, stopVars, queues>>

-----------------------------------------------------------------------------
(* The encoding threads. *)

(* A started thread makes its queue, or can't and ends. *)
CreateQueue(t) ==
  /\ life \notin {"off", "stopped"}
  /\ t \notin open \cup exited
  /\ \/ open' = open \cup {t} /\ UNCHANGED exited
     \/ exited' = exited \cup {t} /\ UNCHANGED open
  /\ UNCHANGED <<life, closed, lost, drained, callVars, workVars, queues, wild>>

(* encodeAndSendPacket gets the next item: its symbols are made, or the data is
   too large or the encoder fails, and the item is given up. *)
BeginItem(t) ==
  /\ t \in open \ exited
  /\ encoding[t] = <<>> /\ queues[t] # <<>>
  /\ queues' = [queues EXCEPT ![t] = Tail(@)]
  /\ LET id == Head(queues[t]) IN
     \/ /\ Encodable(DataSize[id], symbol_size)
        /\ encoding' = [encoding EXCEPT ![t] = <<id, 0>>]
        /\ UNCHANGED failed
     \/ /\ failed' = failed \cup {id}
        /\ UNCHANGED encoding
  /\ UNCHANGED <<sentCount, net, finished, unsent, callVars, stopVars, wild>>

(* One turn of the sending loop; sendto may fail. *)
SendSymbol(t) ==
  /\ encoding[t] # <<>>
  /\ LET id == encoding[t][1]  n == encoding[t][2] + 1 IN
     /\ n <= Len(symbols(id))
     /\ encoding' = [encoding EXCEPT ![t] = <<id, n>>]
     /\ \/ /\ net' = net \cup {PacketHeader(id, symbols(id)[n])}
           /\ sentCount' = sentCount + 1
           /\ UNCHANGED unsent
        \/ unsent' = [unsent EXCEPT ![id] = @ + 1] /\ UNCHANGED <<net, sentCount>>
  /\ UNCHANGED <<finished, failed, callVars, stopVars, queues, wild>>

FinishItem(t) ==
  /\ encoding[t] # <<>> /\ encoding[t][2] = Len(symbols(encoding[t][1]))
  /\ encoding' = [encoding EXCEPT ![t] = <<>>]
  /\ finished' = finished \cup {encoding[t][1]}
  /\ UNCHANGED <<sentCount, net, failed, unsent, callVars, stopVars, queues, wild>>

Bug_ThreadExit(t) ==
  /\ life = "broke" /\ t \in closed \ exited
  /\ exited' = exited \cup {t}
  /\ UNCHANGED <<life, open, closed, lost, drained, callVars, workVars, queues,
                 wild>>

(* A loop that sees the break ends between two items; what is in its queue
   stays there.  A thread that enters its loop after the break doesn't end. *)
ThreadExit(t) ==
  /\ life = "broke" /\ t \in closed \ exited
  /\ encoding[t] = <<>>
  /\ exited' = exited \cup {t}
  /\ UNCHANGED <<life, open, closed, lost, drained, callVars, workVars, queues,
                 wild>>

-----------------------------------------------------------------------------
(* start and stop. *)

Start ==
  /\ life = "off"
  /\ life' = "running"
  /\ UNCHANGED <<open, closed, exited, lost, drained, callVars, workVars, queues,
                 wild>>

(* No call of sendData goes on and getQueueSize() is 0. *)
Drained ==
  /\ \A c \in Callers : caller[c] = <<>>
  /\ \A t \in Threads : queues[t] = <<>>

StopCalled ==
  /\ life = "running"
  /\ life' = "stopping"
  /\ drained' = Drained
  /\ UNCHANGED <<open, closed, exited, lost, callVars, workVars, queues, wild>>

(* Stop the queues there are, one after the other. *)
CloseQueue(t) ==
  /\ life = "stopping"
  /\ t \in open \ closed
  /\ closed' = closed \cup {t}
  /\ UNCHANGED <<life, open, exited, lost, drained, callVars, workVars, queues,
                 wild>>

BreakLoops ==
  /\ life = "stopping" /\ open = closed
  /\ life' = "broke"
  /\ UNCHANGED <<open, closed, exited, lost, drained, callVars, workVars, queues,
                 wild>>

(* Join the threads and destroy the queues with what is in them. *)
JoinThreads ==
  /\ life = "broke" /\ exited = Threads
  /\ life' = "stopped"
  /\ lost' = {id \in Ids : \E t \in Threads :
                \/ \E i \in DOMAIN queues[t] : queues[t][i] = id
                \/ encoding[t] # <<>> /\ encoding[t][1] = id}
  /\ queues' = [t \in Threads |-> <<>>]
  /\ encoding' = [t \in Threads |-> <<>>]
  /\ open' = {} /\ closed' = {}
  /\ UNCHANGED <<exited, drained, callVars, sentCount, net, finished, failed, unsent,
                 wild>>

(* After an access to a destroyed queue anything may happen: the model ends. *)
Next ==
  /\ ~wild
  /\ \/ \E c \in Callers : AllocateId(c) \/ CheckRunning(c) \/ PushItem(c)
                           \/ UseDestroyedQueue(c)
     \/ \E t \in Threads : CreateQueue(t) \/ BeginItem(t) \/ SendSymbol(t)
                           \/ FinishItem(t) \/ ThreadExit(t) \/ CloseQueue(t)
     \/ Start \/ StopCalled \/ BreakLoops \/ JoinThreads

Spec == Init /\ [][Next]_vars
-----------------------------------------------------------------------------
(* How often an id is somewhere between its allocation and its end. *)
Places(id) ==
  Cardinality({c \in Callers : caller[c] # <<>> /\ caller[c][2] = id})
  + Cardinality({p \in Threads \X (1..QueueCap) :
                   p[2] \in DOMAIN queues[p[1]] /\ queues[p[1]][p[2]] = id})
  + Cardinality({t \in Threads : encoding[t] # <<>> /\ encoding[t][1] = id})
  + Cardinality({f \in {refused, finished, failed, lost} : id \in f})

(* Every allocated id has one fate: whatever calls, threads and stop() do, it
   is in one place, and its item is refused, sent, given up or lost, only once. *)
EveryIdHasOneFate ==
  \A id \in Ids : Places(id) = IF id < counter THEN 1 ELSE 0

(* The symbols of an item that were sent. *)
SentSymbols(id) == {d.symbol_id : d \in {e \in net : e.stream_id = id}}

(* While ids fit in the header, an item for which no more sends failed than it
   has repair symbols can be decoded by who has only the headers, whatever the
   other thread sends meanwhile; and no symbol is sent twice. *)
EncodedIsDecodable ==
  counter <= IdSpace =>
    /\ sentCount = Cardinality(net)
    /\ \A id \in finished, d \in net :
         /\ d.stream_id = id
         /\ unsent[id] <= RepairCount(calculateBlockSize(DataSize[id], symbol_size),
                                      repair_count(id))
         => canDecode(SentSymbols(id), d.original_size, d.symbol_size)

(* Who waits until getQueueSize() is 0, as the demos do, and then stops loses
   nothing, although the last items may still be being sent. *)
DrainedStopLosesNothing ==
  life = "stopped" /\ drained =>
    /\ lost = {}
    /\ \A id \in Ids : id < counter => \/ id \in refused \cup finished \cup failed
                                       \/ \E c \in Callers : caller[c] # <<>>
                                                             /\ caller[c][2] = id
=============================================================================
