------------------------------ MODULE ReceiveSide ------------------------------
(***************************************************************************)
(* The receiving process: ReceiverCenter owns a Receiver and is its        *)
(* Visitor (receiver_center.cpp), so a worker thread that decodes a stream *)
(* calls OnDecodeComplete before it takes its next datagram; stop() stops  *)
(* the Receiver first.                                                     *)
(*                                                                         *)
(* What has no prefix is ReceiverCenter's, so QueueCap is the limit of its *)
(* queue; the Receiver's definitions are those of Packets.                 *)
(***************************************************************************)
EXTENDS ReceiverCenter

CONSTANTS Symbols, K, N, MaxArrivals,
          PacketCap     \* kDefaultQueueSize of the Receiver's queues

ASSUME SymbolsAssumption == IsFiniteSet(Symbols)
ASSUME KAssumption == K \in Nat \ {0}
ASSUME NAssumption == N \in Nat \ {0}
ASSUME PacketCapAssumption == PacketCap \in Nat \ {0}
ASSUME MaxArrivalsAssumption == MaxArrivals \in Nat

VARIABLES
  count, open, queues, made, symbols, done, reports, accepted, faults,
  receiving     \* the Receiver is not stopped

packetVars == <<count, open, queues, made, symbols, done, reports, accepted, faults>>
sideVars == <<packetVars, vars, receiving>>

Packets == INSTANCE Receiver WITH QueueCap <- PacketCap

SideInit == Packets!Init /\ Init /\ receiving = TRUE

-----------------------------------------------------------------------------
(* A worker handles a datagram; what it reports goes to the center at once. *)
HandlePacket(t) ==
  /\ receiving
  /\ Packets!processPacket(t)
  /\ IF reports' = reports
     THEN UNCHANGED vars
     ELSE OnDecodeComplete(reports'[Len(reports')])
  /\ UNCHANGED receiving

(* The network's and the workers' other steps. *)
ReceiverStep ==
  /\ receiving
  /\ \/ \E t \in Packets!Threads : Packets!CreateQueue(t)
     \/ \E d \in Packets!Datagrams : Packets!onReceive(d)
  /\ UNCHANGED <<vars, receiving>>

(* The processing thread. *)
CenterStep ==
  /\ CreateQueue \/ processDecodedItem \/ HandlePendingItems \/ ExitLoop
  /\ UNCHANGED <<packetVars, receiving>>

(* Receiver::stop: the workers end between two datagrams, and their queues are
   destroyed with what is in them. *)
StopReceiver ==
  /\ receiving
  /\ receiving' = FALSE
  /\ queues' = [t \in Packets!Threads |-> <<>>]
  /\ UNCHANGED <<count, open, made, symbols, done, reports, accepted, faults,
                 vars>>

Bug_StopCenter == Stop /\ UNCHANGED <<packetVars, receiving>>

(* ReceiverCenter::stop goes on: its own queue and loop. *)
StopCenter ==
  /\ ~receiving
  /\ Stop
  /\ UNCHANGED <<packetVars, receiving>>

SideNext ==
  \/ \E t \in Packets!Threads : HandlePacket(t)
  \/ ReceiverStep \/ CenterStep \/ StopReceiver \/ StopCenter

SideFairness ==
  /\ \A t \in Packets!Threads : WF_sideVars(HandlePacket(t))
  /\ WF_sideVars(CenterStep)

SideSpec == SideInit /\ [][SideNext]_sideVars /\ SideFairness
-----------------------------------------------------------------------------
Enough(s) == Packets!Enough(s)

(* Nothing is made up and nothing is repeated on the way from the sockets to
   the user: the center has had each decoded stream once, a stream given to
   the user had K different symbols, and the streams come in order. *)
HandedOverWasReceived ==
  /\ decoded = Packets!Decoded
  /\ \A s \in Delivered \cup threw : Enough(s)
  /\ InOrder

(* stop() refuses no decoded stream: no worker reports one once the center's
   queue is stopped. *)
NoReportAfterStop == [][qstate = "stopped" => decoded' = decoded]_sideVars

(* Streams 0..s arrive with K different symbols each, in whatever order and
   with whatever between: s is given to the user, unless the library fails on
   one of them, a full queue refuses one, a callback throws, s is overtaken or
   the center is stopped. *)
ReceivedIsDelivered ==
  \A s \in Streams :
    (\A u \in 0..s : Enough(u))
      ~> \/ s \in Delivered
         \/ s \in stale \/ faults # {} \/ refused # {} \/ threw # {}
         \/ ~receiving \/ pc = "exited"
=============================================================================
