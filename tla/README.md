# Verification of RaptorQMultipathStream

TLA+ models of the transport in this repository, the TLC runs that check them on
small instances, and TLAPS proofs of theorems about them. Line numbers are those
of the sources beside this directory.

## 1. Inventory: the system and its parts

```
 callers                                                      user's callback
    | sendData                                                      ^ in stream order
SendCenter  (ids)                                       ReceiverCenter (1 thread, EventQueue, heap)
    |                                                               ^ OnDecodeComplete
Sender: N threads, each EventLoop + EventQueue          Receiver: N threads, each EventLoop + EventQueue
    | rq_pack::Encoder, UDPClient                                   ^ onReceive, rq_pack::Decoder
    +----------------------- UDP datagrams ------------------> UDPServer (1 thread)

MediaReader - AVSender --- UDPClient --- UDP --- UDPServer --- AVReceiver - MediaWriter   (without FEC)
MediaReader - av_sender_demo - SendCenter ... ReceiverCenter - av_receiver_demo - MediaWriter (with FEC)
```

| component | state | operations | interacts by | what is hard | what makes it correct |
|---|---|---|---|---|---|
| **EventQueue / EventLoop** (`event_base/`) | `queue_`, `max_size_`, `stopped_`, eventfd; libevent's break flag | Push, Pop, Stop, OnEventTriggered (single or batch), Run, Stop | lock, eventfd, callback | notify outside the lock, merged notifications, stop from another thread | no lost wakeup; order per producer; nothing enters a stopped queue; stop ends |
| **SendCenter / Sender** | `stream_id_counter_`, `running_`, N queues and threads, counters | start, sendData, encodeAndSendPacket, stop, getQueueSize | pushes to EventQueues, `UDPClient::send` | concurrent callers, `stop()` against `sendData`, an item in hand that no queue counts | each id has one fate; draining before stop loses nothing; no use of a destroyed queue |
| **Receiver** | N queues and threads, `stream_decoders_` per thread | onReceive, selectQueue, processPacket, start, stop | network callback, `Visitor::OnDecodeComplete` | loss, repetition, reordering; decoders without a lock | one worker per stream; each stream reported once, from enough symbols, and when enough came |
| **ReceiverCenter** | EventQueue, `next_expected_stream_id_`, `pending_items_` (min-heap with a limit) | OnDecodeComplete, processDecodedItem, HandlePendingItems, start, stop | called by the Receiver's threads, calls the user | streams decoded out of order, lost streams, throwing callbacks | in order, at most once, none passed over too early, none held too long |
| **rq_pack** | an encoder or decoder of the RaptorQ library | encodeAll, addSymbol, canDecode, decode | called by Sender and Receiver | failing library calls, sizes at their limits | enough symbols decode |
| **UDPServer / UDPClient** (`network/`) | socket, `event_base_`, thread, `running_` | start, startAsync, stop, sendTo, readCallback; startReceiving, stopReceiving | libevent, callbacks | stop from another thread: break flag without wakeup, memory freed under a running loop | no use after free; start and stop return |
| **AVReceiver** (`av_codec/`) | fragment map, packet heap, next index, flags, three locks | onReceive, processPacket, flushBuffer, start, stop, finalize | network thread, main thread, MediaWriter | flag order at the end marker, lock order, late packets | packets written in order and once; the file is completed |
| **AVSender** | `running_`, `send_thread_`, counters, the reader | open, close, sendAll, sendFragmented, startAsync, stop | MediaReader, UDPClient | stop before the thread runs or between test and read, a send that fails amid a packet | what is counted can be put together; stop is heard, with one more packet at most, and ends with the end markers |
| **MediaReader/Writer, serialization** | FFmpeg contexts, `packet_buffer_`, `header_written_` | open, readPacket, serialize, deserialize; initialize, open, writePacket, finalize, close | files | two writers of the trailer, widths and signs of fields | round trip; packets in order, one trailer |
| **av_sender_demo, av_receiver_demo** | `g_should_stop`, `header_received`, `g_eos_received` | sending loop with pauses, end markers; callback, finishing | SendCenter, ReceiverCenter | loss and refusal upstream of an ordered transport, callback against main | the file is complete, or something is known to have gone wrong |
| **other demos, examples, tests** | | | | | they show what callers expect |

## 2. Plan

Written, in this order (the most important behaviour first):

1. `InOrderDelivery` (abstract), `ReceiverCenter`, `ReceiverCenter_proofs`
2. `BoundedFifo` (abstract), `EventQueue`, `EventQueue_proofs`
3. `Receiver`; `Sender`; `ReceiveSide` (Receiver and ReceiverCenter composed)
4. `UdpEndpoint`: start and stop of `network/` with libevent's loop
5. `AVReceiver`: fragments, packet buffer, flags and locks of its threads

6. `RqPack`: block sizes, symbols and decoding, used by `Sender`
7. `MediaFormat` (bytes of packets and headers) and `AVSender`
8. `MediaTransfer`: both programs over the transport, with the abstract
   `InOrderDelivery` in the place of the receiving side
9. proofs about `RqPack`, `AVSender` and `UdpEndpoint`
10. proofs of all invariants of `Receiver`, `Sender`, `AVReceiver` and
    `MediaTransfer`, of the safety part of `ReceiveSide`, and that `EventQueue`
    implements `BoundedFifo`

To come:

11. A second `start()` of `AVReceiver`; two senders after one another.

## 3. Modules

Every module's definitions carry the names of the code; `PROJECT.json` maps each
to its lines. Definitions named `Bug_...` are faulty variants of the definition
after them; no specification uses them, they only serve to show that each
property can fail.

**`ReceiverCenter`** (`receiver_center.cpp`). Shared by the Receiver's threads
and the processing thread: `qstate`, `queue` (the EventQueue, here the FIFO that
`EventQueue` is shown to implement). Of the processing thread: `next`
(`next_expected_stream_id_`), `pending` (`pending_items_`; ids are reported once,
so the heap is a set) and `pc`, which is `"drain"` in `HandlePendingItems` so that
reports interleave with its turns. A callback returns or throws; a throw leaves
the variables as the `catch` at line 100 finds them: a direct item is gone and
`next` stays, a heap item remains on top. `Stop` doesn't flush the heap. The sets
`decoded, refused, stale, threw` and the sequence `delivered` are history.

**`InOrderDelivery`**: what the user may rely on. Streams are offered in any
order; `Deliver` hands over number `floor`; `GiveUpBelow(k)` passes over missing
streams, only when `Window` streams from `k` on have been offered. The refinement
maps `floor` to `next`, `out` to `delivered`, `offered` to the accepted streams.

**`EventQueue`** (`event_base/event_queue.h`, `event_loop.cpp`). A `Push` is two
steps, under the lock and the notification; the consumer's loop is: look at the
break flag, wait, trigger, reset the eventfd, take items (one lock each), call
back. The stopping thread does `EventQueue::Stop`, `EventLoop::Stop(true)` and
`join` in four steps. libevent is external: `event_base_dispatch` clears the break
flag when it starts, and as nothing calls `evthread_use_pthreads`,
`event_base_loopbreak` sets the flag and wakes nobody.

**`BoundedFifo`**: a queue with a capacity that can be closed; `Put`, `Take`.

**`Receiver`** (`receiver.cpp`). `onReceive` is the network thread's callback:
any well-formed datagram any number of times, and two kinds of malformed ones.
`processPacket` is a worker's callback. RaptorQ is abstracted to a set of symbols
of which `K` different ones decode; making a decoder, adding a symbol and decoding
may fail, each at any time, and `faults` remembers for which stream. A datagram's
bytes, sizes and the printed text are left out.

**`RqPack`** (`pack/rq_pack.cpp`, operators only). `calculateBlockSize` takes the
first block of the library's table (a constant) that holds the data; `encodeAll`
gives the ids of the symbols in sending order; `Encodable`, `canDecode` and
`DecodedSize` say what the constructor refuses, when a decoder has enough and how
many bytes it gives. The code's truncated float products are divisions here, of
percentages. `MCSender` compares the operators with what they are meant to compute.

**`Sender`** (`send_center.cpp`, `sender.cpp`). A call of `sendData` is the
`fetch_add`, the test of `running_` and the push, three steps of one caller. An
encoding thread makes its queue, or can't and ends. It takes an item; the data is too
large or the encoder fails and the item is given up (`failed`), or its symbols, which
`RqPack` tells, are sent one by one, each with a `PacketHeader` (`sendto` may fail).
`getQueueSize` doesn't see the item in hand. `stop()` is its sequence of steps; a push after
`event_queues_.clear()` is undefined behaviour: it sets `wild`, and the model ends.

**`ReceiveSide`** extends `ReceiverCenter` and has the `Receiver` as an instance
(`Packets`): the worker's step that decodes a stream contains the call of `OnDecodeComplete`, and
`ReceiverCenter::stop` first takes the Receiver down. The network thread is taken
to be silent after that, which its callers must see to: `Receiver` runs
`UDPServer::start` in the caller's thread, where `UDPServer::stop` doesn't ensure it
(`UdpEndpoint`).

**`AVReceiver`** (`av_codec/av_receiver.cpp`). The network thread receives a
datagram and walks through `processCompleteData` and `processPacket`, one action
for each lock taken, flag set and turn of the writing loop. The main thread runs
`start()` and then `finalize()`, as the README and the destructor do; another one
may call `stop()`. The locks are the program counters that hold them.
`packet_buffer_` is a sorted sequence, because repeated datagrams leave equal
packets in the heap: `Insert` puts a packet at any `Place` that keeps it sorted. A
packet is its index, and the end marker and header have the two next ones. `cleanupOldFragments` may drop any entries at any fragment. The
MediaWriter is external but for what it refuses: here it collects packets and sorts
them at the end (`buffering_mode_`), so the sequence `direct` and the set `flushed` keep what it
was given. `stop()` and `finalize()` also look for complete packets among the
fragments; `NothingThrownAway` says that there are none, so both only drop.

**`UdpEndpoint`** (`network/network_server.cpp`, `network_client.cpp`). One
endpoint, started by one of the three functions; `thread` is where its loop is.
A user starts and stops in turn and `stop()` is two steps around the join. As in
`EventQueue` the break flag is cleared by `event_base_dispatch` and wakes nobody;
only a datagram does; `entered` remembers whether a `stop()` came after
`event_base_dispatch` had begun. The thread of `start()` isn't joined, so that `stop()` frees
the base under it; such a loop goes on or crashes (`UseAfterFree`). A second start
while the first thread was never joined is `std::terminate`.

One constructor's or `initialize`'s socket that can't be made is `bound = FALSE`; the
server closes its socket in `stop()`, the client keeps it.

**`MediaFormat`** (`av_codec/av_codec.cpp`, operators only). The bytes that
`serialize` makes of a packet and of a header, field by field, and what
`deserialize` makes of bytes. `Base` is the number of values of a byte: with four,
all widths, signs and offsets are the code's, and the ends of 64-bit ranges fit
TLC's integers. `MCAVSender` assumes the round trip for values at the ends of the
ranges, and that every proper prefix is refused; and that fragments carry all of an
item (`FragmentsCarryAll`), which is also proved.

**`AVSender`** (`av_codec/av_sender.cpp`). `sendAll` is a session whose steps are
datagrams: header, packets, three end markers, each in one datagram or in
fragments, as sizes tell (`MediaFormat` gives them). It runs in its caller's thread
or in `send_thread_`, `stop()` comes from anywhere. Any send may fail
(`ItemFails`), and the rest of the item isn't sent. The loop's test of `running_`
(`TestRunning`) and the read after it (`ReadPacket`) are two steps, and a `stop()`
between them doesn't keep the packet from being read and sent; `limit` remembers how
far the file may be read after a `stop()`. The caller is taken to run one
session at a time and not to open or close the file under it. `terminated` is
`std::terminate`, of a second `startAsync`.

**`MediaTransfer`** (`av_sender_demo.cpp`, `av_receiver_demo.cpp`, and reader and
writer in `av_codec.cpp`). The sending program's main is `phase`; a stream's id tells
what it carries. `sendData` is a step here, since there is one caller. Encoding
threads take from their queues; what they send is decoded or lost; the receiving
side is `InOrderDelivery` (`Center`), whose `Deliver` is the callback. A packet's
callback is two steps, before and after it has `writer_mutex`. Opening and writing
the file may fail (`faulty`). `"other"` packets stand for those that
`writePacket` refuses, of neither stream or without data. `finalize` writes any part
of the buffer, since FFmpeg may refuse a packet, in the order of indices. The two seconds before
finalizing and the three before stopping are no guarantee and are left out: either may
come at once.

## 4. Runs

| run | bounds | shows |
|---|---|---|
| `receiver_center` | 5 streams, queue 2, heap limit 2 | in-order delivery (`InOrder`), a place for every stream (`Accounted`), no deliverable stream left behind (`HeldIsAhead`), nothing passed over too early (`ReorderTolerance`), the heap's limit, progress (`CompletePrefixDelivered`), and `InOrderDelivery` |
| `event_queue` | 2 producers with 2 pushes, capacity 2, single mode, whole and limited batches | no lost wakeup, order, `BoundedFifo`, pushed items are handled, a loop that isn't asleep sees the break |
| `receiver` | 3 streams, 3 symbols with K = 2, 2 workers, queues of 2, 4 datagrams | one owner per stream, one report per stream, from enough symbols, and when enough came |
| `sender` | 2 callers, 3 ids, 2 threads, queue 1; blocks of 2 and 3 symbols of 2 bytes, data of 3, 5 and 7 bytes | one fate per id, what was encoded can be decoded but for sends that failed, draining before stop loses nothing |
| `udp_endpoint` | 3 starts, 2 datagrams, all three functions | a loop with its own thread never uses a freed base; a stop that comes once the loop was entered returns, unless it finds the loop asleep, and then with the next datagram |
| `udp_endpoint_start` | same, `start()` only | **violated**: `start()` doesn't return after `stop()` |
| `av_receiver` | 3 packets, one in 2 fragments and one that the writer refuses, buffer 3, wait 3, 6 datagrams | order of writing, nothing thrown away (no complete packet left in fragments either) or skipped too early, nothing written to a closed file, and `finalize()` returns but for one deadlock |
| `av_receiver_eos` | 2 packets, 3 datagrams | **violated**: `start()` returns after the end marker without completing the file |
| `av_sender` | 2 sessions; packets of 1, 3 and too many datagrams, header of 9 | what is counted was sent whole; after a `stop()` in the session at most the packet is read whose read had begun; the stopped session says goodbye |
| `media_transfer` | 3 packets (one refused by the writer), 2 threads, queues 2, pause above 1, window 3 | order and completeness of the file, the pauses protect the queues, a transfer in which nothing goes wrong completes |
| `media_transfer_eos` | same | **violated**: the receiver doesn't end when only the first of three end markers is lost |
| `receive_side` | 3 streams, K = 1, 2 workers, queues of 1, heap limit 2, 3 datagrams | from datagrams to ordered callbacks, and the order of `stop()` |

Bounds. Five streams with a heap limit of two let the heap fill, be served, and
fill again, with a stale and a refused stream besides. Two pushes of two producers
merge notifications and fill the queue. Four datagrams are two more than a stream
needs: a repetition, and a symbol after decoding, fit; with queues of two the
third datagram may be dropped; streams 0 and 2 share a worker. Three ids make the
two callers overlap and one queue overflow. `MaxPush`, `MaxArrivals` and `MaxIds`
bound how much happens, not what can. The third item of `sender` is too large for
the largest block. A fragment of `av_sender` carries 14 bytes, so that the header
and two packets are fragmented and one of these fails for its number of fragments;
the second session may find the file read, rewound, closed or a `joinable` thread.
The limits of `media_transfer` keep the code's order: pause below the queue's limit,
three end markers fit into the queues, and the window is larger than the number of
markers that may follow a lost one.

Three starts reach a start after a stop that came too early.

Deadlock checking is off in all runs: the bounded inputs run out, and a stopped
component stops.

### What the code does otherwise than it says

* The end marker is sent three times "to make sure that the receiver gets it"
  (`av_sender_demo.cpp:214`), but each copy is a stream of its own, and one that
  follows a lost stream waits for 500 others (`receiver_center.cpp:161`). When the
  first copy is lost the other two are never delivered, and `av_receiver_demo` waits
  for ever (`README.md:117` promises that it completes the file).
* `UDPServer::stop` frees the base that `start()` is still dispatching and doesn't
  wake it (`network_server.cpp:165` against `network_server.h:47`). `Receiver` uses
  `start()` (`receiver.cpp:55`), `AVReceiver` `startAsync()`.
* `AVReceiver::start` may return after the end marker without completing the file,
  the network thread still running (`av_receiver.cpp:190` against
  `av_codec/README.md:149`).
* Not in a run: a stop may hang in `join` (`event_loop.cpp:67` against
  `event_loop.h:18-19`): the loop handles stop's notification before the break flag
  is set, and sleeps. `BusyLoopBreaks` says what does hold.
* Not in a run: `sendData` may use destroyed queues (`sender.cpp:113` against
  `sender.h:54`); `UseDestroyedQueue` in `Sender`.
* Not in a run: a `startAsync` after a session that ended by itself assigns to a
  joinable thread and terminates the program (`av_sender.cpp:250`).
* Not in a run: `quickEncode` makes one repair symbol for a ratio of 0, `Sender` ten
  percent (`rq_pack.cpp:192`); the assumption `Repair` of `MCSender`. And
  `MediaHeader::deserialize` looks at the size only after the fixed part has been
  read (`av_codec.cpp:212`); `HeaderRoundTrip` of `MCAVSender`.
* Not in a run: `finalize()` takes `writer_mutex_` and then `buffer_mutex_` (line
  501), `processPacket` the other way round. When the network thread still runs,
  after such a `start()` or while `stop()` joins the server, both wait for ever; TLC
  reaches the state that `FinalizeReturns` names as its only exception.
* Not in a run: `flushBuffer` writes old packets again that `processPacket` drops
  (`av_receiver.cpp:255`), and `av_receiver_demo.cpp`'s signal handler tells nobody
  that `start()` should return.
* Not in a run: a trigger handles one limited batch (`event_queue.h:380`) although
  notifications were merged, so items wait for the next `Push`. Nothing here uses
  limited batches.
* Not in a run: `getFailedCount` counts refused items and failed encoders too
  (`sender.cpp:116, 165, 199, 218`), not only symbols as `sender.h:75` says.

## 5. Fairness

Producers, callers, the network and `stop()` owe nothing. Threads that have a
step to take are scheduled: weak fairness of the notification after a push, of the
consumer's loop, and of the steps of a `stop()` that has begun. In `ReceiverCenter`,
`Receiver` and `ReceiveSide` weak fairness of the callback stands for a loop that
serves its queue, which `NoLostWakeup` and `PushedIsHandled` justify. A loop that
waits in libevent is *not* assumed to wake up: `Trigger` is enabled by the eventfd
only. User callbacks terminate. `Sender` states safety only. In `UdpEndpoint` the
loop's steps and the end of a `stop()` are weakly fair; datagrams aren't promised.
`AVReceiver` and `AVSender`: each thread that can go on does; `open`, `close`, calls
of `sendAll` and of `stop()` are not owed. In `MediaTransfer` both programs' threads run
and each stream that was sent is decoded or lost in the end; interrupts, and streams
given up, are not owed.

## 6. Proofs

Proved by TLAPS for all values of the constants that satisfy the modules' named
assumptions (ids are naturals, the sets of streams and symbols finite, limits and
thread counts positive, what is to be sent a sequence). Every invariant and every
refinement that a run checks is also a theorem; liveness isn't.

* `ReceiverCenter_proofs`: `TypeCorrect`, `NoStreamUnaccounted`,
  `StreamsDeliveredInOrder`, `NothingDeliverableIsHeld`,
  `FewerLaterStreamsLoseNothing`, `HeapStaysBelowItsLimit` and
  `CenterImplementsInOrderDelivery`. `InOrder` alone isn't inductive: a step may
  deliver a stream again unless what was delivered is known to be below `next`,
  and a heap item could be delivered twice unless it is in one place. The inductive
  invariant has `PlacesInv` (the places cover `decoded`, are disjoint, and the
  queue has no duplicates) and `OrderInv` (`HeldIsAhead`, everything delivered is
  below `next`, `InOrder`). The heap's limit and the tolerance rest on cardinality
  lemmas about the heap and the accepted streams. The refinement theorem takes each
  action to `Offer`, `Deliver`, `GiveUpBelow` or a stutter.

  The module goes on with `ReceiveSide`: `OnlyReceivedIsHandedOver`,
  `StopRefusesNoReport` and `SideImplementsInOrderDelivery`. `SideStep` says that each
  step of the process is for the center one of its own or a stutter, so that the
  center's lemmas apply as they are. `SideInv` adds what the Receiver holds
  (`PacketInv`: what is in queues and decoders was accepted and is of the thread's own
  streams, what is decoded had enough), that `decoded` is what the workers decoded,
  and that the Receiver is down once the center's queue is stopped. `ReportsAreNews`
  shows that `OnDecodeComplete`'s precondition in `ReceiverCenter` keeps no worker from
  reporting. With `SideImplementsInOrderDelivery` it is proved that `MediaTransfer` may
  put `InOrderDelivery` in the place of the receiving side, as far as safety goes.
* `EventQueue_proofs`: `TypeCorrect`; `WakeupsAreNotLost`, inductive with the type
  invariant; `ItemsKeepTheirOrder`, from `PushedInv`: the callback has items only while
  it runs, and no pushed item is newer than its producer's last attempt, so the next
  one is newer than all before; and `QueueImplementsBoundedFifo`, where a push under
  the lock is a `Put`, each item taken a `Take`, and the rest stutters.
* `Receiver_proofs`: `TypeCorrect`; `StreamHasOneOwner`, with `QueuesInv` (a datagram
  waits only with the thread of its stream, and its symbol was accepted);
  `DecodingNeedsEnough`, as the decoders' symbols are accepted ones; and
  `StreamsAreReportedOnce`, which needs the owner: without it two workers could
  decode a stream each.
* `Sender_proofs`. First of `RqPack`'s operators, for every table of block sizes and
  every size of data: the block chosen is the smallest that holds it (`BlockFits`),
  data is refused exactly if none does and is otherwise decoded with all its bytes
  (`NothingIsCut`); and whichever symbols are lost, not more than there are repair
  symbols, enough are left (`RepairCoversLoss`). That enough symbols decode is the
  library's part. Then of `Sender`: `TypeCorrect`; `OneFate`, whose invariant `FateInv`
  says by sets what the property counts: the places cover the ids given out, no two of
  them share an id, and none has it twice; `DrainedStop`, from `StopInv` (threads end
  between two items, and after a stop that began with nothing waiting no caller
  pushes any more); and `SentIsDecodable`. For the last, `SentInv` says how far an item has come: of the
  symbols up to the next one each is on the wire or counted in `unsent`. Both it
  and the property hold as long as the ids fit into 32 bits; beyond, the code sends
  symbols of different items under one id.
* `UdpEndpoint_proofs`: `TypeCorrect` and `LoopHasItsBase`, of every endpoint but
  those of `UDPServer::start` (see `udp_endpoint_start`). `NoUseAfterFree` isn't
  inductive: that nobody uses the base which `stop()` frees follows from the join,
  and the join waits only for a joinable thread. `JoinableInv` adds that a thread
  that exists is joinable.
* `AVSender_proofs`, for files with any packets and any size of a datagram:
  `FragmentsCarryTheData` (for every size, the fragments are all of the item, in
  order, none empty or too large); `TypeCorrect`, inductive with `FragmentInv` (a
  fragment that is to be sent is one of its item's); `StopEndsReading`, for which
  `StoppedInv` adds that only a session that wasn't stopped has `running_` set, and
  that who is in `readPacket` passed the test before `stop()` came and has one packet
  to read; and `OnlyCompleteCounts`. For the last,
  `SentInv` says what is on the wire when the next datagram is due: of this item
  what comes before, and nothing of a later one; a datagram that completes its item
  is therefore new, and the set of complete items grows by one.
* `AVReceiver_proofs`: `TypeCorrect`, with the heap's order, which rests on `Inserted`
  (a packet put in at its place leaves the sequence sorted); `WritesInOrder`, with
  `WrittenBefore` (all that was written is before `next`); `CompletedFileStays`, with
  `CloseInv`: who waits for `writer_mutex_` has seen the writer ready, and
  `finalize()` either hasn't closed the file then or keeps the lock;
  `ReorderingIsTolerated` and `PacketsAreKept`, which rest on `Few`: the buffer has no
  more packets than came, so it is neither full nor crowded before that many came.
* `MediaTransfer_proofs`: `TypeCorrect`, `FileKeepsOrder`, `EosIsTheEnd` and
  `PausesSuffice`. `TransferInv` has a part for each side: where the sending program
  is and that no stream beyond `counter` is on its way (`SenderInv`, `QueuesInv`), that
  the transport is behind it (`CenterInv`), what the callback relies on (nothing
  follows an end marker; between its two steps its stream is still the next one,
  `CallbackInv`), that buffer and delivered packets agree until main goes on
  (`BufferInv`), and that the file is written by one who was told to and closed once
  (`WriterInv`). `PausesSuffice` needs an argument of its own, `QueueHasRoom`: the
  items of one queue are among all that wait, and the end markers, which no pause
  holds back, are spread by their ids (`OtherQueue`: ids less than `N` apart are in
  different queues).

A step lemma per action or group of actions, and invariants cut into named parts,
keep the proofs as modular as the actions. `TypeOK` of `ReceiverCenter`, `EventQueue`,
`UdpEndpoint` and `AVSender` is established by the theorems; no run repeats it.

Only model-checked:

* the liveness properties (`CompletePrefixDelivered`, `PushedIsHandled`,
  `BusyLoopBreaks`, `EnoughIsReported`, `ReceivedIsDelivered`, `StopReturnsOnTraffic`,
  `FinalizeReturns`, `StopSaysGoodbye`, `TransferCompletes`): fairness and `ENABLED` are
  beyond the prover;
* the byte formats of `MediaFormat`: sequences of bytes are put together by recursion
  over their length, and `MCAVSender` compares them over bounded values; likewise what
  `MCSender` assumes of the code's truncated ratios;
* the violations of the three runs that expect one.

The refinements of `InOrderDelivery` and `BoundedFifo` have no fairness, so the
theorems are the whole of them.

## 7. Not modelled

What the properties don't say. `TransferCompletes` speaks of transfers in which no
stream was refused or lost; what a refused or lost one does to those after it is in
`receiver_center`'s properties and `media_transfer_eos`. `NothingThrownAway` ends where
the packet buffer has filled: before the header comes, a full one loses its smallest
packets, and repetitions help to fill it. `ToleratesReordering` is about the first
`MaxWait - 1` packets that come, not about any such number in a row. `FinalizeReturns`
excepts the deadlock of section 4. A stop of an endpoint that finds the loop asleep or
not yet in `event_base_dispatch` is not promised to return, and TLC reaches both hangs.

Simplifications. A stream id has 64 bits in a datagram and 32 in the decoders; they
are equal in what a `Sender` sends, and only such datagrams, and garbage, arrive here.
Data is never empty (`decode` throws if nothing was written). A packet that can't be
read ends `av_sender_demo`'s loop like the end of the file, so `Source` has the packets
before it; `AVSender` may end at any packet. In `MediaTransfer` every
thread makes its queue in the end; in `Sender` and `Receiver` one may not, and what is
pushed to it is refused.

A second start of `AVReceiver`, which keeps its buffers; a second `start()` of Sender,
Receiver or ReceiverCenter: their queues are gone after `stop()`, so it is undefined
behaviour. Addresses and error reports of `UDPServer` and `UDPClient`. What FFmpeg does
with a file, `MediaReader::seek` and direct writing (unused). Counters that are only
printed, timing and progress callbacks. The demos other than the two of
`MediaTransfer`, which call one component each. `EventQueue::Clear`,
`EventLoop::Stop(false)`: unused. Thread counts of 0: division by zero.
