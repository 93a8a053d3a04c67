-------------------------- MODULE UdpEndpoint_proofs --------------------------
(***************************************************************************)
(* Proofs about UdpEndpoint, for any number of starts and datagrams and    *)
(* any of the functions that start it.                                     *)
(***************************************************************************)
EXTENDS UdpEndpoint, TLAPS

LEMMA TypeInit == Init => TypeOK
<1> SUFFICES ASSUME Init PROVE TypeOK
  OBVIOUS
<1>1. bound \in BOOLEAN
  BY Zenon DEF Init, ClientSocket
<1>2. 0 \in 0..MaxStarts /\ 0 \in 0..MaxDatagrams /\ 0 \in 0..0
  BY MaxStartsAssumption, MaxDatagramsAssumption
<1>3. /\ mode \in Modes /\ user = "stopped" /\ thread = "none" /\ base = "none"
      /\ waiting = 0 /\ starts = 0 /\ arrived = 0
      /\ {running, joinable, break, entered, aborted} \subseteq BOOLEAN
  BY Zenon DEF Init
<1> QED
  BY <1>1, <1>2, <1>3 DEF TypeOK, ThreadStates

LEMMA TypeStart ==
  ASSUME TypeOK, Start
  PROVE  TypeOK'
<1>1. /\ bound' \in BOOLEAN /\ joinable' \in BOOLEAN /\ aborted' \in BOOLEAN
      /\ thread' \in ThreadStates
  <2>1. CASE start
    BY <2>1 DEF start, initialize, TypeOK, ThreadStates
  <2>2. CASE startAsync
    BY <2>2 DEF startAsync, initialize, Spawn, TypeOK, ThreadStates
  <2>3. CASE startReceiving
    BY <2>3 DEF startReceiving, Spawn, TypeOK, ThreadStates
  <2> QED
    BY <2>1, <2>2, <2>3 DEF Start
<1>2. starts' \in 0..MaxStarts
  BY MaxStartsAssumption DEF Start, TypeOK
<1> QED
  BY <1>1, <1>2 DEF Start, TypeOK

(* A step of the loop's thread. *)
LEMMA TypeLoop ==
  ASSUME TypeOK, Loop
  PROVE  TypeOK'
<1>1. CASE MakeBase
  BY <1>1 DEF MakeBase, TypeOK, ThreadStates
<1>2. CASE Dispatch
  BY <1>2 DEF Dispatch, TypeOK, ThreadStates
<1>3. CASE CheckBreak
  BY <1>3 DEF CheckBreak, TypeOK, ThreadStates
<1>4. CASE WakeUp
  BY <1>4 DEF WakeUp, TypeOK, ThreadStates
<1>5. CASE readCallback
  <2>1. waiting' \in 0..arrived
    BY <1>5, MaxDatagramsAssumption DEF readCallback, recvfrom, TypeOK
  <2> QED
    BY <1>5, <2>1 DEF readCallback, TypeOK, ThreadStates
<1> QED
  BY <1>1, <1>2, <1>3, <1>4, <1>5 DEF Loop

LEMMA TypeOther ==
  ASSUME TypeOK, UseAfterFree \/ Arrive \/ StopCalled \/ StopReturns
  PROVE  TypeOK'
<1>1. CASE UseAfterFree
  BY <1>1 DEF UseAfterFree, TypeOK
<1>2. CASE Arrive
  <2>1. arrived' \in 0..MaxDatagrams /\ waiting' \in 0..arrived'
    BY <1>2, MaxDatagramsAssumption DEF Arrive, TypeOK
  <2> QED
    BY <1>2, <2>1 DEF Arrive, TypeOK
<1>3. CASE StopCalled
  BY <1>3 DEF StopCalled, BreakLoop, TypeOK
<1>4. CASE StopReturns
  <2>1. bound' \in BOOLEAN
    BY <1>4, Zenon DEF StopReturns, Release, CloseSocket, TypeOK
  <2>2. waiting' \in 0..arrived
    BY <1>4, MaxDatagramsAssumption DEF StopReturns, Release, CloseSocket, TypeOK
  <2> QED
    BY <1>4, <2>1, <2>2 DEF StopReturns, Release, TypeOK
<1> QED
  BY <1>1, <1>2, <1>3, <1>4

(* The types of the state hold in every reachable state. *)
THEOREM TypeCorrect == Spec => []TypeOK
<1>1. TypeOK /\ [Next]_vars => TypeOK'
  <2> SUFFICES ASSUME TypeOK, [Next]_vars PROVE TypeOK'
    OBVIOUS
  <2>1. CASE Next
    BY <2>1, TypeStart, TypeLoop, TypeOther DEF Next
  <2>2. CASE UNCHANGED vars
    BY <2>2 DEF vars, TypeOK
  <2> QED
    BY <2>1, <2>2
<1> QED
  BY <1>1, TypeInit, PTL DEF Spec

-----------------------------------------------------------------------------
(* NoUseAfterFree isn't inductive: that stop() frees a base nobody uses follows
   from the join, and the join waits only if the loop's thread is joinable. *)
JoinableInv ==
  mode # "start" =>
    /\ thread # "none" => joinable
    /\ InLoop => base = "live"

LEMMA JoinableStep ==
  ASSUME JoinableInv, [Next]_vars
  PROVE  JoinableInv'
<1> SUFFICES ASSUME mode' # "start"
             PROVE  /\ thread' # "none" => joinable'
                    /\ InLoop' => base' = "live"
  BY DEF JoinableInv
<1>0. mode' = mode
  BY DEF Next, Start, Loop, MakeBase, Dispatch, CheckBreak, WakeUp, readCallback,
         UseAfterFree, Arrive, StopCalled, StopReturns, Release, vars
<1>1. CASE Start
  BY <1>0, <1>1 DEF Start, start, startAsync, startReceiving, Spawn, InLoop, JoinableInv
<1>2. CASE Loop
  BY <1>0, <1>2 DEF Loop, MakeBase, Dispatch, CheckBreak, WakeUp, readCallback, InLoop,
                    JoinableInv
<1>3. CASE UseAfterFree \/ Arrive \/ StopCalled
  BY <1>0, <1>3 DEF UseAfterFree, Arrive, StopCalled, InLoop, JoinableInv
<1>4. CASE StopReturns
  <2>1. thread' = "none"
    BY <1>0, <1>4 DEF StopReturns, Release, JoinableInv
  <2> QED
    BY <2>1 DEF InLoop
<1>5. CASE UNCHANGED vars
  BY <1>0, <1>5 DEF vars, InLoop, JoinableInv
<1> QED
  BY <1>1, <1>2, <1>3, <1>4, <1>5 DEF Next

(* A loop in a thread of its own never runs on a freed base. *)
THEOREM LoopHasItsBase == Spec => []NoUseAfterFree
<1>1. Init => JoinableInv
  BY DEF Init, JoinableInv, InLoop
<1>2. JoinableInv => NoUseAfterFree
  BY DEF JoinableInv, NoUseAfterFree
<1> QED
  BY <1>1, <1>2, JoinableStep, PTL DEF Spec
=============================================================================
