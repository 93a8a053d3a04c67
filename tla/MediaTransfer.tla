----------------------------- MODULE MediaTransfer -----------------------------
(***************************************************************************)
(* A media file sent over the transport by the two programs at the top of  *)
(* the repository: av_sender_demo.cpp reads packets (MediaReader) and      *)
(* pushes them into a SendCenter; av_receiver_demo.cpp gets them from a    *)
(* ReceiverCenter's callback and writes the file (MediaWriter, in its      *)
(* buffering mode).                                                        *)
(*                                                                         *)
(* What is between the two SendCenter and ReceiverCenter is taken from the *)
(* other modules: a queue per encoding thread (Sender), streams that are   *)
(* lost or decoded in any order (Receiver), and InOrderDelivery, which     *)
(* ReceiverCenter is proved to implement.  The header has stream id 0 and  *)
(* the packet with index i stream id i + 1, pushed or refused.             *)
(***************************************************************************)
EXTENDS Naturals, Sequences, FiniteSets

CONSTANTS Source,       \* the types of the packets in the file
          N,            \* encode_threads
          QueueCap,     \* kDefaultQueueSize of an encoding queue
          MaxWaiting,   \* the sending loop pauses above it (100)
          Window        \* max_priority_queue_size_ of ReceiverCenter

FrameTypes == {"video", "audio", "other"}

ASSUME SourceAssumption == Source \in Seq(FrameTypes)
ASSUME NAssumption == N \in Nat \ {0}
ASSUME MaxWaitingAssumption == MaxWaiting \in Nat
ASSUME WindowAssumption == Window \in Nat \ {0}

Copies == 3     \* how often the end marker is sent

(* 1000, against the pause at 100 and the three end markers. *)
ASSUME QueueCapAssumption ==
  QueueCap \in Nat /\ QueueCap > MaxWaiting /\ QueueCap * N >= Copies

Threads == 0..(N - 1)
Ids == 0..(Len(Source) + Copies)

VARIABLES
  \* the sending program
  phase,            \* where its main is, see Phases
  read,             \* packet_count_ of the MediaReader
  counter,          \* stream_id_counter_ of the SendCenter
  interrupted,      \* its g_should_stop
  open,             \* the encoding threads that have made their queue
  waiting,          \* the streams in the encoding queues
  \* on the way
  flight,           \* streams sent, neither decoded nor lost yet
  lost,             \* history: streams that will never be decoded
  refused,          \* history: streams for which sendData gave false
  overflowed,       \* history: one of them because of a full queue
  offered, floor, out,      \* ReceiverCenter, see InOrderDelivery
  \* the receiving program
  callback,         \* "writing" between its two looks at the writer
  headerReceived, eosReceived,
  stopAsked,        \* its g_should_stop
  main,             \* where its main is, see Mains
  \* the MediaWriter
  context,          \* "open" while there are output_ctx_ and header_written_
  buffer,           \* packet_buffer_
  file,             \* the packets in the file
  trailers,         \* how many trailers the file has
  faulty            \* history: opening, writing or the trailer failed

senderVars == <<phase, read, counter, interrupted, open, waiting, refused, overflowed>>
centerVars == <<offered, floor, out>>
programVars == <<callback, headerReceived, eosReceived, stopAsked, main>>
writerVars == <<context, buffer, file, trailers, faulty>>
vars == <<senderVars, flight, lost, centerVars, programVars, writerVars>>

Center == INSTANCE InOrderDelivery WITH Streams <- Ids

Phases == {"header", "loop", "eos", "stopped", "failed"}
Mains == {"waiting", "finished", "returned"}

TypeOK ==
  /\ phase \in Phases /\ main \in Mains
  /\ read \in 0..Len(Source) /\ counter \in 0..(Len(Source) + 1 + Copies)
  /\ {interrupted, stopAsked, headerReceived, eosReceived, overflowed, faulty}
       \subseteq BOOLEAN
  /\ open \in SUBSET Threads
  /\ {waiting, flight, lost, refused, offered} \subseteq SUBSET Ids
  /\ floor \in 0..(Len(Source) + 1 + Copies) /\ out \in Seq(Ids)
  /\ callback \in {"idle", "writing"}
  /\ context \in {"none", "open"}
  /\ buffer \in Seq(DOMAIN Source) /\ file \in Seq(DOMAIN Source)
  /\ trailers \in Nat

Init ==
  /\ phase = "header" /\ read = 0 /\ counter = 0 /\ interrupted = FALSE
  /\ open = {} /\ waiting = {} /\ flight = {} /\ lost = {} /\ refused = {}
  /\ overflowed = FALSE
  /\ Center!Init
  /\ callback = "idle" /\ headerReceived = FALSE /\ eosReceived = FALSE
  /\ stopAsked = FALSE /\ main = "waiting"
  /\ context = "none" /\ buffer = <<>> /\ file = <<>> /\ trailers = 0
  /\ faulty = FALSE

(* What stream id carries: the position of a packet in Source is its index
   plus 1, and its stream id. *)
Content(id) ==
  IF id = 0 THEN "header" ELSE IF id <= read THEN Source[id] ELSE "eos"

-----------------------------------------------------------------------------
(* The sending program. *)

InQueue(t) == {id \in waiting : id % N = t}

(* SendCenter::sendData: the id is gone even if the push is refused. *)
sendData ==
  LET t == counter % N IN
  /\ counter' = counter + 1
  /\ \/ /\ t \in open /\ Cardinality(InQueue(t)) < QueueCap
        /\ waiting' = waiting \cup {counter}
        /\ UNCHANGED <<refused, overflowed>>
     \/ /\ ~(t \in open /\ Cardinality(InQueue(t)) < QueueCap)
        /\ refused' = refused \cup {counter}
        /\ overflowed' = (overflowed \/ t \in open)
        /\ UNCHANGED waiting

(* Without a header the program gives up. *)
SendHeader ==
  /\ phase = "header"
  /\ sendData
  /\ phase' = IF counter \in refused' THEN "failed" ELSE "loop"
  /\ UNCHANGED <<read, interrupted, open, flight, lost, centerVars, programVars,
                 writerVars>>

(* getQueueSize() > 100: the loop waits. *)
Throttled == Cardinality(waiting) > MaxWaiting

(* The next packet; reading fails only at the end of the file: Source has the packets
   up to the first that can't be read, which the loop takes for the end. *)
readPacket == read < Len(Source) /\ read' = read + 1

(* A turn of the sending loop; a refused packet is not sent again.  Only main looks at
   g_should_stop, so an interrupt amid the turn is as good as one after it. *)
SendPacket ==
  /\ phase = "loop" /\ ~interrupted /\ ~Throttled
  /\ readPacket
  /\ sendData
  /\ UNCHANGED <<phase, interrupted, open, flight, lost, centerVars, programVars,
                 writerVars>>

Bug_NoDrain ==
  /\ phase = "loop" /\ ~interrupted
  /\ read = Len(Source)
  /\ phase' = "eos"
  /\ UNCHANGED <<read, counter, interrupted, open, waiting, refused, overflowed,
                 flight, lost, centerVars, programVars, writerVars>>

Bug_LastNotRead ==
  /\ phase = "loop" /\ ~interrupted
  /\ read = Len(Source) - 1 /\ waiting = {}
  /\ phase' = "eos"
  /\ UNCHANGED <<read, counter, interrupted, open, waiting, refused, overflowed,
                 flight, lost, centerVars, programVars, writerVars>>

(* The file is read and the queues have emptied. *)
EndLoop ==
  /\ phase = "loop" /\ ~interrupted
  /\ read = Len(Source) /\ waiting = {}
  /\ phase' = "eos"
  /\ UNCHANGED <<read, counter, interrupted, open, waiting, refused, overflowed,
                 flight, lost, centerVars, programVars, writerVars>>

Bug_EosSent == 0

EosSent == counter - (Len(Source) + 1)

SendEos ==
  /\ phase = "eos" /\ ~interrupted /\ EosSent < Copies
  /\ sendData
  /\ UNCHANGED <<phase, read, interrupted, open, flight, lost, centerVars,
                 programVars, writerVars>>

(* An interrupt ends the loops, without an end marker if none was sent yet; after
   the last one or an interrupt SendCenter::stop comes, and what still waits is
   destroyed with its queue. *)
StopSender ==
  /\ \/ phase = "eos" /\ EosSent = Copies
     \/ phase \in {"loop", "eos"} /\ interrupted
  /\ phase' = "stopped"
  /\ waiting' = {}
  /\ lost' = lost \cup waiting
  /\ UNCHANGED <<read, counter, interrupted, open, refused, overflowed, flight,
                 centerVars, programVars, writerVars>>

InterruptSender ==
  /\ phase \in {"loop", "eos"} /\ ~interrupted
  /\ interrupted' = TRUE
  /\ UNCHANGED <<phase, read, counter, open, waiting, refused, overflowed, flight,
                 lost, centerVars, programVars, writerVars>>

-----------------------------------------------------------------------------
(* The transport. *)

CreateQueue(t) ==
  /\ phase \notin {"stopped", "failed"} /\ t \notin open
  /\ open' = open \cup {t}
  /\ UNCHANGED <<phase, read, counter, interrupted, waiting, refused, overflowed,
                 flight, lost, centerVars, programVars, writerVars>>

(* A thread takes the first item of its queue; encoding it may fail. *)
Encode(id) ==
  /\ id \in waiting /\ \A other \in InQueue(id % N) : id <= other
  /\ waiting' = waiting \ {id}
  /\ \/ flight' = flight \cup {id} /\ UNCHANGED lost
     \/ lost' = lost \cup {id} /\ UNCHANGED flight
  /\ UNCHANGED <<phase, read, counter, interrupted, open, refused, overflowed,
                 centerVars, programVars, writerVars>>

Receiving == main # "returned"

(* Enough symbols come, and the Receiver reports the stream; or they don't. *)
Arrive(id) ==
  /\ id \in flight
  /\ flight' = flight \ {id}
  /\ \/ Receiving /\ Center!Offer(id) /\ UNCHANGED lost
     \/ lost' = lost \cup {id} /\ UNCHANGED centerVars
  /\ UNCHANGED <<senderVars, programVars, writerVars>>

(* ReceiverCenter gives up missing streams. *)
SkipMissing ==
  /\ Receiving /\ callback = "idle"
  /\ \E k \in Ids : Center!GiveUpBelow(k)
  /\ UNCHANGED <<senderVars, flight, lost, programVars, writerVars>>

-----------------------------------------------------------------------------
(* The receiving program's callback, in ReceiverCenter's thread. *)

Called(content) ==
  /\ Receiving /\ callback = "idle"
  /\ floor \in offered /\ Content(floor) \in content

ReceiveEos ==
  /\ Called({"eos"})
  /\ Center!Deliver
  /\ eosReceived' = TRUE
  /\ UNCHANGED <<senderVars, flight, lost, callback, headerReceived, stopAsked, main,
                 writerVars>>

(* MediaWriter::initialize drops what is in the buffer. *)
initialize == buffer' = <<>>

(* MediaWriter::open makes the file's streams and header, or fails. *)
openFile ==
  \/ context' = "open" /\ UNCHANGED faulty
  \/ faulty' = TRUE /\ UNCHANGED context

(* Under writer_mutex; a writer that can't be opened counts as no header. *)
ReceiveHeader ==
  /\ Called({"header"})
  /\ Center!Deliver
  /\ initialize /\ openFile
  /\ headerReceived' = (context' = "open")
  /\ UNCHANGED <<senderVars, flight, lost, callback, eosReceived, stopAsked, main,
                 file, trailers>>

(* A packet is ignored without a header; else the callback goes on to lock
   writer_mutex. *)
ReceivePacket ==
  /\ Called(FrameTypes)
  /\ \/ headerReceived /\ callback' = "writing" /\ UNCHANGED centerVars
     \/ ~headerReceived /\ Center!Deliver /\ UNCHANGED callback
  /\ UNCHANGED <<senderVars, flight, lost, headerReceived, eosReceived, stopAsked, main,
                 writerVars>>

(* MediaWriter::writePacket keeps it, whether or not the file is open; a packet
   of neither stream or without data is refused. *)
writePacket == buffer' = IF Content(floor) = "other" THEN buffer ELSE Append(buffer, floor)

(* With writer_mutex. *)
WritePacket ==
  /\ callback = "writing"
  /\ callback' = "idle"
  /\ Center!Deliver
  /\ writePacket
  /\ UNCHANGED <<senderVars, flight, lost, headerReceived, eosReceived, stopAsked, main,
                 context, file, trailers, faulty>>

-----------------------------------------------------------------------------
(* The receiving program's main thread. *)

Elements(seq) == {seq[i] : i \in DOMAIN seq}

(* MediaWriter::writePacketDirect, for each packet; some may fail.  Packets are
   written by the places they have in the buffer, least index first. *)
writePacketDirect(written) ==
  {order \in [1..Cardinality(written) -> written] :
     /\ Elements(order) = written
     /\ \A m, n \in DOMAIN order :
          m < n => order[m] # order[n] /\ buffer[order[m]] <= buffer[order[n]]}

(* MediaWriter::close: how many trailers it adds to the file. *)
close(header_written, trailed) == IF header_written /\ trailed THEN 1 ELSE 0

(* header_written_ stays. *)
Bug_finalize(order, trailed, closed) ==
  /\ file' = [n \in DOMAIN order |-> buffer[order[n]]]
  /\ buffer' = <<>>
  /\ trailers' = trailers + (IF trailed THEN 1 ELSE 0) + close(TRUE, closed)
  /\ context' = "none"
  /\ faulty' = (faulty \/ ~(trailed \/ closed) \/ Elements(order) # DOMAIN buffer)

(* MediaWriter::finalize writes the packets in the order of their index and the
   trailer; close(), which follows, writes the trailer only if finalize could not. *)
finalize(order, trailed, closed) ==
  /\ file' = [n \in DOMAIN order |-> buffer[order[n]]]
  /\ buffer' = <<>>
  /\ trailers' = trailers + (IF trailed THEN 1 ELSE 0) + close(~trailed, closed)
  /\ context' = "none"
  /\ faulty' = (faulty \/ ~(trailed \/ closed) \/ Elements(order) # DOMAIN buffer)

Bug_WhenFinished == headerReceived \/ stopAsked

WhenFinished == eosReceived \/ stopAsked

(* Two seconds after the end marker or an interrupt, under writer_mutex, if there
   has been a header. *)
Finish ==
  /\ main = "waiting" /\ WhenFinished
  /\ main' = "finished"
  /\ \/ /\ headerReceived
        /\ \E written \in SUBSET DOMAIN buffer, trailed, closed \in BOOLEAN :
             \E order \in writePacketDirect(written) : finalize(order, trailed, closed)
     \/ ~headerReceived /\ UNCHANGED writerVars
  /\ UNCHANGED <<senderVars, flight, lost, centerVars, callback, headerReceived,
                 eosReceived, stopAsked>>

(* ReceiverCenter::stop waits for the callback; main returns, and the writer's
   destructor closes what is open. *)
Return ==
  /\ main = "finished" /\ callback = "idle"
  /\ main' = "returned"
  /\ context' = "none"
  /\ \E closed \in BOOLEAN :
       /\ trailers' = trailers + close(context = "open", closed)
       /\ faulty' = (faulty \/ (context = "open" /\ ~closed))
  /\ UNCHANGED <<senderVars, flight, lost, centerVars, callback, headerReceived,
                 eosReceived, stopAsked, buffer, file>>

InterruptReceiver ==
  /\ main = "waiting" /\ ~stopAsked
  /\ stopAsked' = TRUE
  /\ UNCHANGED <<senderVars, flight, lost, centerVars, callback, headerReceived,
                 eosReceived, main, writerVars>>

-----------------------------------------------------------------------------
SendingProgram == SendHeader \/ SendPacket \/ EndLoop \/ SendEos \/ StopSender

Callback == ReceiveEos \/ ReceiveHeader \/ ReceivePacket \/ WritePacket

ReceivingProgram == Finish \/ Return

Next ==
  \/ SendingProgram \/ InterruptSender
  \/ \E t \in Threads : CreateQueue(t)
  \/ \E id \in Ids : Encode(id) \/ Arrive(id)
  \/ SkipMissing
  \/ Callback
  \/ ReceivingProgram \/ InterruptReceiver

(* The programs' threads run; a stream that was sent is decoded or lost. *)
Fairness ==
  /\ WF_vars(SendingProgram) /\ WF_vars(Callback) /\ WF_vars(ReceivingProgram)
  /\ \A t \in Threads : WF_vars(CreateQueue(t))
  /\ \A id \in Ids : WF_vars(Encode(id)) /\ WF_vars(Arrive(id))

Spec == Init /\ [][Next]_vars /\ Fairness
-----------------------------------------------------------------------------
(* The packets given to the user that have a place in the file. *)
Delivered == {p \in Elements(out) \ {0} : Content(p) \in {"video", "audio"}}

(* The file is a part of the source in its order, nothing of it twice, with one
   trailer at most, although finalize(), close() and the destructor all may
   write one (av_codec.cpp:754). *)
FileIsInOrder ==
  /\ \A i, j \in DOMAIN file : i < j => file[i] < file[j]
  /\ Elements(file) \subseteq Delivered
  /\ trailers <= 1

(* If the end marker, and no interrupt, ended the reception, every packet that
   was delivered with a header is in the file, and none comes to a writer that
   is closed already: the marker is the last stream to come. *)
EosMeansComplete ==
  main # "waiting" /\ ~stopAsked /\ headerReceived /\ ~faulty =>
    Elements(file) = Delivered /\ buffer = <<>>

(* The pauses of the sending program keep the encoding queues from overflowing: a
   packet is refused only if its thread has made no queue. *)
PausesEarlyEnough == ~overflowed

Skipped == (0..(floor - 1)) \ Elements(out)

(* When nothing goes wrong the receiver ends by itself, and its file has all
   the packets of the source. *)
TransferCompletes ==
  <>( \/ main = "returned"
         /\ Elements(file) = {p \in DOMAIN Source : Source[p] # "other"}
      \/ refused # {} \/ lost # {} \/ Skipped # {}
      \/ interrupted \/ stopAsked \/ faulty)

(* av_sender_demo.cpp:214 sends the end marker three times "to make sure that
   the receiver gets it": it is received if only one of the three is lost. *)
EosSurvivesALoss ==
  <>( \/ eosReceived
      \/ refused # {} \/ Cardinality(lost) > 1 \/ lost \cap 0..Len(Source) # {}
      \/ interrupted \/ stopAsked)
=============================================================================
