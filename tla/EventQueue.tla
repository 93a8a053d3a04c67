------------------------------ MODULE EventQueue ------------------------------
(***************************************************************************)
(* EventBase::EventQueue (event_base/event_queue.h) with the EventLoop     *)
(* (event_base/event_loop.cpp) that serves it: several producers push, one *)
(* consumer thread waits in libevent for the queue's eventfd and processes *)
(* the items, one at a time or in batches, and another thread stops the    *)
(* queue, breaks the loop and joins the consumer, as Sender::stop,         *)
(* Receiver::stop and ReceiverCenter::stop do.                             *)
(*                                                                         *)
(* An item is <<p, k>>, the k-th one that producer p tries to push.        *)
(* libevent is modelled by what this code uses of it.  The code never      *)
(* calls evthread_use_pthreads, so event_base_loopbreak only sets a flag:  *)
(* it doesn't wake a thread that waits for events.                         *)
(***************************************************************************)
EXTENDS Naturals, Sequences, FiniteSets

CONSTANTS Producers,    \* the pushing threads
          Cap,          \* max_size_; 0: no bound
          BatchSizes,   \* the values of batch_size_ in batch mode
          MaxPush       \* bound: how many items a producer tries to push

ASSUME CapAssumption == Cap \in Nat
ASSUME BatchSizesAssumption == BatchSizes \subseteq Nat
ASSUME MaxPushAssumption == MaxPush \in Nat

Items == Producers \X (1..MaxPush)

VARIABLES
  batchMode,    \* which constructor was used
  batchSize,    \* batch_size_
  queue,        \* queue_
  stopped,      \* stopped_
  signalled,    \* the counter of notify_fd_ is positive
  producer,     \* what a producer does: "idle" or "notify" (has pushed)
  tried,        \* how many items each producer has tried to push
  loop,         \* the consumer thread, see LoopStates
  current,      \* the items its callback is working on
  break,        \* libevent's event_break
  stopper,      \* the stopping thread: how far it is
  taken,        \* history: the items popped (or cleared), in order
  handled       \* history: the items whose callback is over, in order

loopVars == <<loop, current, break>>
vars == <<batchMode, batchSize, queue, stopped, signalled, producer, tried,
          loop, current, break, stopper, taken, handled>>

LoopStates ==
  {"created",     \* event_base_dispatch not entered
   "check",       \* about to look at event_break
   "wait",        \* waits for the eventfd
   "triggered",   \* in OnEventTriggered, before ConsumeNotify
   "process",     \* about to take items from the queue
   "callback",    \* in the user's callback
   "exited"}

StopStates == {"running", "stopped", "notified", "broke", "joined"}

(* Type invariant, with the bound of queue_. *)
TypeOK ==
  /\ batchMode \in BOOLEAN /\ batchSize \in Nat
  /\ queue \in Seq(Items) /\ (Cap > 0 => Len(queue) <= Cap)
  /\ stopped \in BOOLEAN
  /\ signalled \in BOOLEAN
  /\ producer \in [Producers -> {"idle", "notify"}]
  /\ tried \in [Producers -> 0..MaxPush]
  /\ loop \in LoopStates
  /\ current \in Seq(Items)
  /\ break \in BOOLEAN
  /\ stopper \in StopStates
  /\ taken \in Seq(Items)
  /\ handled \in Seq(Items)

Init ==
  /\ \/ batchMode = FALSE /\ batchSize = 0
     \/ batchMode = TRUE /\ batchSize \in BatchSizes
  /\ queue = <<>> /\ stopped = FALSE /\ signalled = FALSE
  /\ producer = [p \in Producers |-> "idle"]
  /\ tried = [p \in Producers |-> 0]
  /\ loop = "created" /\ current = <<>> /\ break = FALSE
  /\ stopper = "running"
  /\ taken = <<>> /\ handled = <<>>

-----------------------------------------------------------------------------
(* The producers. *)

HasRoom == Cap = 0 \/ Len(queue) < Cap

Bug_PushIgnoresStop(p) ==
  /\ producer[p] = "idle" /\ tried[p] < MaxPush
  /\ tried' = [tried EXCEPT ![p] = @ + 1]
  /\ \/ /\ HasRoom
        /\ queue' = Append(queue, <<p, tried'[p]>>)
        /\ producer' = [producer EXCEPT ![p] = "notify"]
     \/ ~HasRoom /\ UNCHANGED <<queue, producer>>
  /\ UNCHANGED <<batchMode, batchSize, stopped, signalled, loopVars, stopper,
                 taken, handled>>

(* The part of Push under the lock: false if stopped or full. *)
Push(p) ==
  /\ producer[p] = "idle" /\ tried[p] < MaxPush
  /\ tried' = [tried EXCEPT ![p] = @ + 1]
  /\ \/ /\ ~stopped /\ HasRoom
        /\ queue' = Append(queue, <<p, tried'[p]>>)
        /\ producer' = [producer EXCEPT ![p] = "notify"]
     \/ /\ stopped \/ ~HasRoom
        /\ UNCHANGED <<queue, producer>>
  /\ UNCHANGED <<batchMode, batchSize, stopped, signalled, loopVars, stopper,
                 taken, handled>>

(* Notify, after the lock is released. *)
Notify(p) ==
  /\ producer[p] = "notify"
  /\ producer' = [producer EXCEPT ![p] = "idle"]
  /\ signalled' = TRUE
  /\ UNCHANGED <<batchMode, batchSize, queue, stopped, tried, loopVars, stopper,
                 taken, handled>>

-----------------------------------------------------------------------------
(* The consumer thread: EventLoop::Run, then libevent's loop. *)

(* event_base_dispatch clears event_break when it starts. *)
Dispatch ==
  /\ loop = "created"
  /\ loop' = "check"
  /\ break' = FALSE
  /\ UNCHANGED <<batchMode, batchSize, queue, stopped, signalled, producer,
                 tried, current, stopper, taken, handled>>

CheckBreak ==
  /\ loop = "check"
  /\ loop' = IF break THEN "exited" ELSE "wait"
  /\ UNCHANGED <<batchMode, batchSize, queue, stopped, signalled, producer,
                 tried, current, break, stopper, taken, handled>>

(* The eventfd is readable: libevent calls OnEventTriggered. *)
Trigger ==
  /\ loop = "wait" /\ signalled
  /\ loop' = "triggered"
  /\ UNCHANGED <<batchMode, batchSize, queue, stopped, signalled, producer,
                 tried, current, break, stopper, taken, handled>>

ConsumeNotify ==
  /\ loop = "triggered"
  /\ loop' = "process"
  /\ signalled' = FALSE
  /\ UNCHANGED <<batchMode, batchSize, queue, stopped, producer, tried, current,
                 break, stopper, taken, handled>>

Bug_LastIn(n) ==
  /\ current' = SubSeq(queue, Len(queue) - n + 1, Len(queue))
  /\ queue' = SubSeq(queue, 1, Len(queue) - n)
  /\ taken' = taken \o current'
  /\ loop' = "callback"

(* n items leave the queue together, for the callback. *)
TakeForCallback(n) ==
  /\ current' = SubSeq(queue, 1, n)
  /\ queue' = SubSeq(queue, n + 1, Len(queue))
  /\ taken' = taken \o current'
  /\ loop' = "callback"

(* The queue is empty: back to libevent's loop. *)
NothingToTake ==
  /\ queue = <<>>
  /\ loop' = "check"
  /\ UNCHANGED <<queue, current, taken>>

Bug_BlockingPop ==
  /\ loop = "process" /\ ~batchMode
  /\ queue # <<>> /\ TakeForCallback(1)
  /\ UNCHANGED <<batchMode, batchSize, stopped, signalled, producer, tried,
                 break, stopper, handled>>

(* ProcessSingle: one Pop under the lock. *)
ProcessSingle ==
  /\ loop = "process" /\ ~batchMode
  /\ \/ queue # <<>> /\ TakeForCallback(1)
     \/ NothingToTake
  /\ UNCHANGED <<batchMode, batchSize, stopped, signalled, producer, tried,
                 break, stopper, handled>>

BatchLimit ==
  IF batchSize = 0 \/ Len(queue) < batchSize THEN Len(queue) ELSE batchSize

(* ProcessBatch: at most batch_size_ items, once for each trigger. *)
ProcessBatch ==
  /\ loop = "process" /\ batchMode
  /\ \/ queue # <<>> /\ TakeForCallback(BatchLimit)
     \/ NothingToTake
  /\ UNCHANGED <<batchMode, batchSize, stopped, signalled, producer, tried,
                 break, stopper, handled>>

Bug_OnePerTrigger ==
  /\ loop = "callback"
  /\ handled' = handled \o current
  /\ current' = <<>>
  /\ loop' = "check"
  /\ UNCHANGED <<batchMode, batchSize, queue, stopped, signalled, producer,
                 tried, break, stopper, taken>>

(* The callback returns, or throws a std::exception that is swallowed. *)
CallbackDone ==
  /\ loop = "callback"
  /\ handled' = handled \o current
  /\ current' = <<>>
  /\ loop' = IF batchMode THEN "check" ELSE "process"
  /\ UNCHANGED <<batchMode, batchSize, queue, stopped, signalled, producer,
                 tried, break, stopper, taken>>

-----------------------------------------------------------------------------
(* The stopping thread: EventQueue::Stop, EventLoop::Stop(true), join. *)

StopQueue ==
  /\ stopper = "running"
  /\ stopper' = "stopped"
  /\ stopped' = TRUE
  /\ UNCHANGED <<batchMode, batchSize, queue, signalled, producer, tried,
                 loopVars, taken, handled>>

StopNotify ==
  /\ stopper = "stopped"
  /\ stopper' = "notified"
  /\ signalled' = TRUE
  /\ UNCHANGED <<batchMode, batchSize, queue, stopped, producer, tried,
                 loopVars, taken, handled>>

StopLoop ==
  /\ stopper = "notified"
  /\ stopper' = "broke"
  /\ break' = TRUE
  /\ UNCHANGED <<batchMode, batchSize, queue, stopped, signalled, producer,
                 tried, loop, current, taken, handled>>

Join ==
  /\ stopper = "broke" /\ loop = "exited"
  /\ stopper' = "joined"
  /\ UNCHANGED <<batchMode, batchSize, queue, stopped, signalled, producer,
                 tried, loopVars, taken, handled>>

-----------------------------------------------------------------------------
Consume == \/ Dispatch \/ CheckBreak \/ Trigger \/ ConsumeNotify
           \/ ProcessSingle \/ ProcessBatch \/ CallbackDone

Next ==
  \/ \E p \in Producers : Push(p) \/ Notify(p)
  \/ Consume
  \/ StopQueue \/ StopNotify \/ StopLoop \/ Join

(* Every thread that can run eventually does; nobody has to push or stop. *)
Fairness ==
  /\ \A p \in Producers : WF_vars(Notify(p))
  /\ WF_vars(Consume)
  /\ WF_vars(StopNotify) /\ WF_vars(StopLoop) /\ WF_vars(Join)

Spec == Init /\ [][Next]_vars /\ Fairness
-----------------------------------------------------------------------------
InQueue == {queue[i] : i \in DOMAIN queue}
Handled == {handled[i] : i \in DOMAIN handled}

(* No lost wakeup (Push notifies outside the lock, OnEventTriggered resets
   the eventfd before it looks at the queue): while items wait, the eventfd is
   signalled, or a thread is about to signal it, or the consumer will look at
   the queue again.  In batch mode this holds of unlimited batches only. *)
NoLostWakeup ==
  queue # <<>> /\ ~(batchMode /\ batchSize > 0)
    => \/ signalled
       \/ \E p \in Producers : producer[p] = "notify"
       \/ loop = "process"
       \/ loop = "callback" /\ ~batchMode
       \/ loop = "exited"

(* What the callback has been given, what it works on and what waits are the
   pushed items, in the order of their pushes: for one producer, its own. *)
HandledInPushOrder ==
  LET all == handled \o current \o queue IN
  /\ taken = handled \o current
  /\ \A i, j \in DOMAIN all :
       i < j /\ all[i][1] = all[j][1] => all[i][2] < all[j][2]

(* The queue implements BoundedFifo. *)
Abstract == INSTANCE BoundedFifo
              WITH fifo <- queue, out <- taken, closed <- stopped
Implements == Abstract!Spec

(* event_queue.h: the loop "automatically triggers the callback to process
   the data": every pushed item is handled, unless the loop is broken. *)
PushedIsHandled ==
  \A x \in Items :
    x \in InQueue /\ ~(batchMode /\ batchSize > 0)
      ~> x \in Handled \/ loop = "exited"

(* A running loop that is told to break while it has a notification or an
   item in hand exits, so that the join returns. *)
BusyLoopBreaks ==
  break /\ loop # "created" /\ (signalled \/ loop # "wait")
    ~> stopper = "joined"
=============================================================================
