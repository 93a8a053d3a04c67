------------------------------ MODULE UdpEndpoint ------------------------------
(***************************************************************************)
(* The life of a UDP endpoint (network/): UDPServer::start, which runs     *)
(* libevent's loop in the thread that calls it, UDPServer::startAsync and  *)
(* UDPClient::startReceiving, which run it in a thread of their own, and   *)
(* stop() or stopReceiving() from another thread.                          *)
(*                                                                         *)
(* The user starts and stops in turn.  libevent is modelled by what this   *)
(* code uses of it: event_base_dispatch clears the break flag when it      *)
(* begins, event_base_loopbreak sets it without waking the loop, and       *)
(* event_base_free frees the base whoever uses it.                         *)
(***************************************************************************)
EXTENDS Naturals

CONSTANTS Modes,          \* which of the three functions start it
          MaxStarts,      \* bound: how often it is started
          MaxDatagrams    \* bound: how many datagrams arrive

ASSUME ModesAssumption == Modes \subseteq {"start", "startAsync", "startReceiving"}
ASSUME MaxStartsAssumption == MaxStarts \in Nat
ASSUME MaxDatagramsAssumption == MaxDatagrams \in Nat

VARIABLES
  mode,       \* the function the user starts it with
  user,       \* the user: "stopped", "started" or "stopping" (in stop())
  running,    \* running_, receiving_
  thread,     \* who runs the loop, see ThreadStates
  joinable,   \* event_thread_ has a thread that isn't joined
  base,       \* event_base_: "none", "live" or "freed" (then set to nullptr)
  break,      \* libevent's event_break
  bound,      \* sockfd_ is a socket
  waiting,    \* datagrams the socket has received
  starts,     \* how often it has been started
  arrived,    \* how many datagrams have arrived
  entered,    \* history: the loop had been entered when stop() was called
  aborted     \* the program died: std::terminate, or the loop used a freed base

vars == <<mode, user, running, thread, joinable, base, break, bound, waiting,
          starts, arrived, entered, aborted>>

ThreadStates ==
  {"none",        \* no thread
   "spawned",     \* before event_base_new
   "dispatch",    \* running_ is set, the loop not entered
   "check",       \* about to look at event_break
   "wait",        \* waits for a datagram
   "callback"}    \* in readCallback

(* Type invariant. *)
TypeOK ==
  /\ mode \in Modes
  /\ user \in {"stopped", "started", "stopping"}
  /\ running \in BOOLEAN /\ joinable \in BOOLEAN /\ break \in BOOLEAN
  /\ bound \in BOOLEAN /\ entered \in BOOLEAN /\ aborted \in BOOLEAN
  /\ thread \in ThreadStates
  /\ base \in {"none", "live", "freed"}
  /\ starts \in 0..MaxStarts
  /\ arrived \in 0..MaxDatagrams /\ waiting \in 0..arrived

(* UDPClient makes its socket when it is constructed, or fails to. *)
ClientSocket == mode = "startReceiving" /\ bound \in BOOLEAN

Init ==
  /\ mode \in Modes
  /\ user = "stopped" /\ running = FALSE
  /\ thread = "none" /\ joinable = FALSE
  /\ base = "none" /\ break = FALSE
  /\ ClientSocket \/ (mode # "startReceiving" /\ bound = FALSE)
  /\ waiting = 0 /\ starts = 0 /\ arrived = 0
  /\ entered = FALSE /\ aborted = FALSE

-----------------------------------------------------------------------------
(* UDPServer::initialize: a new socket, or failure. *)
initialize == bound' \in BOOLEAN

(* A loop in the caller's thread. *)
start ==
  /\ mode = "start" /\ thread = "none"
  /\ initialize
  /\ thread' = IF bound' THEN "spawned" ELSE "none"
  /\ UNCHANGED <<joinable, aborted>>

(* A loop in a new thread; assigning it to event_thread_ while that is
   joinable terminates the program. *)
Spawn ==
  IF joinable
  THEN aborted' = TRUE /\ UNCHANGED <<thread, joinable>>
  ELSE thread' = "spawned" /\ joinable' = TRUE /\ UNCHANGED aborted

startAsync ==
  /\ mode = "startAsync"
  /\ initialize
  /\ \/ bound' /\ Spawn
     \/ ~bound' /\ UNCHANGED <<thread, joinable, aborted>>

startReceiving ==
  /\ mode = "startReceiving"
  /\ UNCHANGED bound
  /\ \/ ~running /\ Spawn
     \/ running /\ UNCHANGED <<thread, joinable, aborted>>

Start ==
  /\ user = "stopped" /\ starts < MaxStarts
  /\ starts' = starts + 1
  /\ user' = "started"
  /\ start \/ startAsync \/ startReceiving
  /\ UNCHANGED <<mode, running, base, break, waiting, arrived, entered>>

-----------------------------------------------------------------------------
(* The thread that runs the loop. *)

(* event_base_new, event_new and running_; or one of the first two fails, and a
   base without an event is never used. *)
MakeBase ==
  /\ thread = "spawned"
  /\ \/ base' = "live" /\ running' = TRUE /\ thread' = "dispatch"
     \/ base' = "none" /\ thread' = "none" /\ UNCHANGED running
  /\ UNCHANGED <<mode, user, joinable, break, bound, waiting, starts, arrived,
                 entered, aborted>>

Dispatch ==
  /\ thread = "dispatch"
  /\ thread' = "check"
  /\ break' = FALSE
  /\ UNCHANGED <<mode, user, running, joinable, base, bound, waiting, starts,
                 arrived, entered, aborted>>

CheckBreak ==
  /\ thread = "check"
  /\ thread' = IF break THEN "none" ELSE "wait"
  /\ UNCHANGED <<mode, user, running, joinable, base, break, bound, waiting,
                 starts, arrived, entered, aborted>>

WakeUp ==
  /\ thread = "wait" /\ waiting > 0
  /\ thread' = "callback"
  /\ UNCHANGED <<mode, user, running, joinable, base, break, bound, waiting,
                 starts, arrived, entered, aborted>>

(* recvfrom finds none when stop() has closed the socket meanwhile. *)
recvfrom == waiting' = IF waiting > 0 THEN waiting - 1 ELSE 0

(* One datagram, then the user's receive callback. *)
readCallback ==
  /\ thread = "callback"
  /\ thread' = "check"
  /\ recvfrom
  /\ UNCHANGED <<mode, user, running, joinable, base, break, bound, starts,
                 arrived, entered, aborted>>

(* A running loop whose base was freed may also crash. *)
UseAfterFree ==
  /\ thread \in {"dispatch", "check", "callback"} /\ base = "freed"
  /\ aborted' = TRUE
  /\ UNCHANGED <<mode, user, running, thread, joinable, base, break, bound,
                 waiting, starts, arrived, entered>>

(* The network. *)
Arrive ==
  /\ bound /\ arrived < MaxDatagrams
  /\ arrived' = arrived + 1
  /\ waiting' = waiting + 1
  /\ UNCHANGED <<mode, user, running, thread, joinable, base, break, bound, starts,
                 entered, aborted>>

-----------------------------------------------------------------------------
(* It doesn't call event_base_loopbreak. *)
Bug_BreakLoop ==
  /\ running
  /\ user' = "stopping" /\ running' = FALSE /\ UNCHANGED break
  /\ entered' = (thread # "dispatch")

BreakLoop ==
  /\ running
  /\ user' = "stopping" /\ running' = FALSE /\ break' = TRUE
  /\ entered' = (thread # "dispatch")

(* stop() and stopReceiving(): nothing unless running. *)
StopCalled ==
  /\ user = "started"
  /\ \/ ~running /\ user' = "stopped" /\ UNCHANGED <<running, break, entered>>
     \/ BreakLoop
  /\ UNCHANGED <<mode, thread, joinable, base, bound, waiting, starts, arrived,
                 aborted>>

(* UDPServer closes its socket, with what waits in it; UDPClient keeps it. *)
CloseSocket ==
  \/ mode # "startReceiving" /\ bound' = FALSE /\ waiting' = 0
  \/ mode = "startReceiving" /\ UNCHANGED <<bound, waiting>>

(* After the join of event_thread_, if it has a thread: free the event and the
   base. *)
Release ==
  /\ user' = "stopped"
  /\ joinable' = FALSE
  /\ base' = "freed"
  /\ CloseSocket
  /\ UNCHANGED <<mode, running, thread, break, starts, arrived, entered, aborted>>

Bug_StopReturns == user = "stopping" /\ Release

StopReturns ==
  /\ user = "stopping"
  /\ joinable => thread = "none"
  /\ Release

Loop == MakeBase \/ Dispatch \/ CheckBreak \/ WakeUp \/ readCallback

Next ==
  /\ ~aborted
  /\ Start \/ Loop \/ UseAfterFree \/ Arrive \/ StopCalled \/ StopReturns

(* The threads run; users and the network owe nothing. *)
Fairness == WF_vars(~aborted /\ Loop) /\ WF_vars(~aborted /\ StopReturns)

Spec == Init /\ [][Next]_vars /\ Fairness
-----------------------------------------------------------------------------
InLoop == thread \in {"dispatch", "check", "wait", "callback"}

(* stop() frees the event_base only when the thread it joins has left the loop.
   The thread that called start() is joined by nobody: see StartReturns. *)
NoUseAfterFree == InLoop /\ mode # "start" => base = "live"

(* A stop() that comes once the loop has been entered returns, unless it finds the
   loop asleep, and then with the next datagram.  (The break wakes nobody, and one
   that comes before event_base_dispatch is lost: such a stop() may never return.) *)
StopReturnsOnTraffic ==
  user = "stopping" /\ entered /\ (thread = "wait" => waiting > 0)
    ~> user = "stopped"

(* network_server.h: start() "blocks until stop() is called"; so it returns
   after a stop() that found the loop running. *)
StartReturns == user = "stopping" /\ break /\ thread # "dispatch" ~> thread = "none"
=============================================================================
