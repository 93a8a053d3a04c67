-------------------------- MODULE MediaTransfer_proofs --------------------------
(***************************************************************************)
(* Proofs about MediaTransfer, for every file, any number of encoding      *)
(* threads and any sizes of the queues and the window.                     *)
(***************************************************************************)
EXTENDS MediaTransfer, FiniteSetTheorems, SequenceTheorems, TLAPS

(* Where the sending program is, what it has read and how many streams it has
   made; no more streams than these are on their way. *)
SenderInv ==
  /\ phase = "header" => read = 0 /\ counter = 0
  /\ phase = "loop" => counter = read + 1
  /\ phase = "eos" => read = Len(Source) /\ counter >= Len(Source) + 1
  /\ counter <= read + 1 \/ read = Len(Source)
  /\ \A id \in waiting \cup flight \cup offered : id < counter

(* Only end markers wait once the loop has ended. *)
QueuesInv ==
  /\ phase = "header" => waiting = {}
  /\ phase = "eos" => \A id \in waiting : id > Len(Source)

(* Where ReceiverCenter is. *)
CenterInv ==
  /\ floor <= counter
  /\ \A i \in DOMAIN out : out[i] < floor

Increasing(seq) == \A i, j \in DOMAIN seq : i < j => seq[i] < seq[j]

(* What the callback relies on: nothing follows the end marker, and what it
   holds while it looks at the writer is a packet. *)
CallbackInv ==
  /\ headerReceived => floor > 0
  /\ callback = "writing" => /\ headerReceived /\ floor \in offered
                             /\ floor > 0 /\ floor <= read
  /\ eosReceived => floor > read /\ read = Len(Source)

(* The buffer has what was delivered, in its order. *)
BufferInv ==
  /\ \A i \in DOMAIN buffer : buffer[i] < floor
  /\ Increasing(buffer) /\ Elements(buffer) \subseteq Delivered
  /\ main = "waiting" /\ headerReceived => Elements(buffer) = Delivered

(* The file is written once, by a main that was told to, and closed once. *)
WriterInv ==
  /\ main = "waiting" \/ ~headerReceived => trailers = 0
  /\ main # "waiting" => eosReceived \/ stopAsked
  /\ context = "open" => headerReceived /\ trailers = 0

-----------------------------------------------------------------------------
LEMMA SizeOfSource == Len(Source) \in Nat /\ DOMAIN Source = 1..Len(Source)
  BY SourceAssumption, LenProperties

(* The parts of TypeOK: the sender, the way, the program and the writer. *)
TypeSender ==
  /\ phase \in Phases /\ read \in 0..Len(Source)
  /\ counter \in 0..(Len(Source) + 1 + Copies)
  /\ interrupted \in BOOLEAN /\ overflowed \in BOOLEAN
  /\ open \in SUBSET Threads /\ waiting \in SUBSET Ids /\ refused \in SUBSET Ids

TypeWay ==
  /\ flight \in SUBSET Ids /\ lost \in SUBSET Ids /\ offered \in SUBSET Ids
  /\ floor \in 0..(Len(Source) + 1 + Copies) /\ out \in Seq(Ids)

TypeProgram ==
  /\ main \in Mains /\ callback \in {"idle", "writing"}
  /\ stopAsked \in BOOLEAN /\ headerReceived \in BOOLEAN /\ eosReceived \in BOOLEAN

TypeWriter ==
  /\ context \in {"none", "open"} /\ faulty \in BOOLEAN /\ trailers \in Nat
  /\ buffer \in Seq(DOMAIN Source) /\ file \in Seq(DOMAIN Source)

LEMMA TypeParts == TypeOK <=> TypeSender /\ TypeWay /\ TypeProgram /\ TypeWriter
<1>1. /\ {interrupted, stopAsked, headerReceived, eosReceived, overflowed, faulty}
           \subseteq BOOLEAN
         <=> /\ interrupted \in BOOLEAN /\ stopAsked \in BOOLEAN
             /\ headerReceived \in BOOLEAN /\ eosReceived \in BOOLEAN
             /\ overflowed \in BOOLEAN /\ faulty \in BOOLEAN
  OBVIOUS
<1>2. {waiting, flight, lost, refused, offered} \subseteq SUBSET Ids
         <=> /\ waiting \in SUBSET Ids /\ flight \in SUBSET Ids /\ lost \in SUBSET Ids
             /\ refused \in SUBSET Ids /\ offered \in SUBSET Ids
  OBVIOUS
<1> QED
  BY <1>1, <1>2 DEF TypeOK, TypeSender, TypeWay, TypeProgram, TypeWriter

(* The id of a stream that is made is one of Ids. *)
LEMMA SendDataType ==
  ASSUME TypeSender, sendData, counter \in Ids
  PROVE  /\ counter' = counter + 1 /\ counter' \in 0..(Len(Source) + 1 + Copies)
         /\ waiting' \in SUBSET Ids /\ refused' \in SUBSET Ids
         /\ overflowed' \in BOOLEAN
         /\ waiting \subseteq waiting' /\ waiting' \subseteq waiting \cup {counter}
<1>1. counter' = counter + 1 /\ counter' \in 0..(Len(Source) + 1 + Copies)
  BY SizeOfSource DEF sendData, Ids, Copies
<1>2. /\ waiting' \in SUBSET Ids /\ refused' \in SUBSET Ids
      /\ waiting \subseteq waiting' /\ waiting' \subseteq waiting \cup {counter}
  BY DEF sendData, TypeSender
<1>3. overflowed' \in BOOLEAN
  BY DEF sendData, TypeSender
<1> QED
  BY <1>1, <1>2, <1>3

(* The steps of the sending program, each with what it leaves alone. *)
Sending ==
  \/ SendHeader \/ SendPacket \/ EndLoop \/ SendEos \/ StopSender \/ InterruptSender
  \/ \E t \in Threads : CreateQueue(t)

LEMMA SendingStep ==
  ASSUME TypeSender, TypeWay, SenderInv, Sending
  PROVE  /\ TypeSender' /\ lost' \in SUBSET Ids
         /\ UNCHANGED <<flight, centerVars, programVars, writerVars>>
         /\ \/ counter' = counter /\ waiting' \subseteq waiting
            \/ counter' = counter + 1 /\ waiting' \subseteq waiting \cup {counter}
         /\ \/ read' = read
            \/ read' = read + 1 /\ read < Len(Source) /\ counter = read + 1
<1> USE SizeOfSource
<1>1. UNCHANGED <<flight, centerVars, programVars, writerVars>>
  BY DEF Sending, SendHeader, SendPacket, EndLoop, SendEos, StopSender, InterruptSender,
         CreateQueue
<1>2. CASE SendHeader
  <2>1. counter \in Ids /\ sendData /\ phase' \in Phases /\ UNCHANGED <<read, interrupted, open, lost>>
    BY <1>2 DEF SendHeader, SenderInv, Ids, Copies, Phases
  <2> QED
    BY <1>1, <2>1, SendDataType DEF TypeSender, TypeWay
<1>3. CASE SendPacket
  <2>1. /\ counter \in Ids /\ sendData /\ UNCHANGED <<phase, interrupted, open, lost>>
        /\ read < Len(Source) /\ read' = read + 1 /\ counter = read + 1
    BY <1>3 DEF SendPacket, readPacket, SenderInv, Ids, Copies, TypeSender
  <2>2. read' \in 0..Len(Source)
    BY <2>1 DEF TypeSender
  <2> QED
    BY <1>1, <2>1, <2>2, SendDataType DEF TypeSender, TypeWay
<1>4. CASE EndLoop
  BY <1>1, <1>4 DEF EndLoop, TypeSender, TypeWay, Phases
<1>5. CASE SendEos
  <2>1. counter \in Ids /\ sendData /\ UNCHANGED <<phase, read, interrupted, open, lost>>
    BY <1>5 DEF SendEos, EosSent, SenderInv, Ids, Copies, TypeSender
  <2> QED
    BY <1>1, <2>1, SendDataType DEF TypeSender, TypeWay
<1>6. CASE StopSender
  BY <1>1, <1>6 DEF StopSender, TypeSender, TypeWay, Phases
<1>7. CASE InterruptSender
  BY <1>1, <1>7 DEF InterruptSender, TypeSender, TypeWay
<1>8. CASE \E t \in Threads : CreateQueue(t)
  BY <1>1, <1>8 DEF CreateQueue, TypeSender, TypeWay
<1> QED
  BY <1>2, <1>3, <1>4, <1>5, <1>6, <1>7, <1>8 DEF Sending

LEMMA SendingInv ==
  ASSUME TypeSender, TypeWay, SenderInv, QueuesInv, CenterInv, Sending
  PROVE  SenderInv' /\ QueuesInv' /\ CenterInv'
<1> USE SizeOfSource
<1>1. CenterInv'
  <2>1. UNCHANGED centerVars /\ counter' \in {counter, counter + 1}
    BY SendingStep
  <2>2. floor' <= counter'
    BY <2>1 DEF CenterInv, centerVars, TypeSender, TypeWay
  <2> QED
    BY <2>1, <2>2 DEF CenterInv, centerVars
<1>2. \A id \in waiting' \cup flight' \cup offered' : id < counter'
  <2> SUFFICES ASSUME NEW id \in waiting' \cup flight' \cup offered' PROVE id < counter'
    OBVIOUS
  <2>1. UNCHANGED <<flight, offered>> /\ counter' \in {counter, counter + 1}
    BY SendingStep DEF centerVars
  <2>2. id \in waiting \cup flight \cup offered \/ (id = counter /\ counter' = counter + 1)
    BY SendingStep, <2>1
  <2>3. counter \in Nat /\ \A i \in Ids : i \in Nat
    BY DEF TypeSender, Ids, Copies
  <2>4. id \in waiting \cup flight \cup offered => id \in Nat
    BY <2>3 DEF TypeSender, TypeWay
  <2> QED
    BY <2>1, <2>2, <2>3, <2>4 DEF SenderInv
<1>3. SenderInv'
  <2>1. CASE SendHeader
    <3>1. counter' = counter + 1 /\ read' = read /\ read = 0 /\ counter = 0
          /\ phase' \in {"failed", "loop"}
      BY <2>1 DEF SendHeader, sendData, SenderInv
    <3> QED
      BY <1>2, <3>1 DEF SenderInv
  <2>2. CASE SendPacket
    <3>1. /\ counter' = counter + 1 /\ read' = read + 1 /\ counter = read + 1
          /\ phase' = "loop" /\ read \in Nat
      BY <2>2 DEF SendPacket, sendData, readPacket, SenderInv, TypeSender
    <3>2. counter' = read' + 1 /\ counter' <= read' + 1
      BY <3>1
    <3> QED
      BY <1>2, <3>1, <3>2 DEF SenderInv
  <2>3. CASE EndLoop
    <3>1. /\ counter' = counter /\ read' = read /\ counter = read + 1 /\ read = Len(Source)
          /\ phase' = "eos"
      BY <2>3 DEF EndLoop, SenderInv
    <3> QED
      BY <1>2, <3>1 DEF SenderInv
  <2>4. CASE SendEos
    <3>1. /\ counter' = counter + 1 /\ read' = read /\ read = Len(Source)
          /\ phase' = "eos" /\ counter >= Len(Source) + 1 /\ counter \in Nat
      BY <2>4 DEF SendEos, sendData, SenderInv, TypeSender
    <3> QED
      BY <1>2, <3>1 DEF SenderInv
  <2>5. CASE StopSender
    BY <1>2, <2>5 DEF SenderInv, StopSender
  <2>6. CASE InterruptSender \/ \E t \in Threads : CreateQueue(t)
    BY <1>2, <2>6 DEF SenderInv, InterruptSender, CreateQueue
  <2> QED
    BY <2>1, <2>2, <2>3, <2>4, <2>5, <2>6 DEF Sending
<1>4. QueuesInv'
  <2>1. CASE SendHeader \/ SendPacket \/ StopSender
    <3>1. phase' \notin {"header", "eos"}
      BY <2>1 DEF SendHeader, SendPacket, StopSender
    <3> QED
      BY <3>1 DEF QueuesInv
  <2>2. CASE EndLoop
    BY <2>2 DEF EndLoop, QueuesInv
  <2>3. CASE SendEos
    <3>1. /\ phase = "eos" /\ phase' = "eos" /\ counter > Len(Source)
          /\ waiting' \subseteq waiting \cup {counter}
      BY <2>3 DEF SendEos, sendData, SenderInv, TypeSender
    <3> QED
      BY <3>1 DEF QueuesInv
  <2>4. CASE InterruptSender \/ \E t \in Threads : CreateQueue(t)
    BY <2>4 DEF InterruptSender, CreateQueue, QueuesInv
  <2> QED
    BY <2>1, <2>2, <2>3, <2>4 DEF Sending
<1> QED
  BY <1>1, <1>3, <1>4

(* The steps between the programs. *)
Transporting == (\E id \in Ids : Encode(id) \/ Arrive(id)) \/ SkipMissing

LEMMA TransportingStep ==
  ASSUME TypeSender, TypeWay, SenderInv, QueuesInv, CenterInv, Transporting
  PROVE  /\ TypeSender' /\ TypeWay' /\ SenderInv' /\ QueuesInv' /\ CenterInv'
         /\ UNCHANGED <<counter, read, overflowed, out, programVars, writerVars>>
         /\ floor' >= floor /\ offered \subseteq offered'
         /\ callback = "writing" => floor' = floor
<1> USE SizeOfSource
<1>1. floor \in Nat /\ counter \in Nat
  BY DEF TypeSender, TypeWay
<1>2. ASSUME NEW id \in Ids, Encode(id)
      PROVE  /\ UNCHANGED <<phase, read, counter, interrupted, open, refused, overflowed,
                            centerVars, programVars, writerVars>>
             /\ waiting' \subseteq waiting /\ lost' \in SUBSET Ids
             /\ flight' \subseteq flight \cup waiting
  BY <1>2 DEF Encode, TypeSender, TypeWay
<1>3. ASSUME NEW id \in Ids, Encode(id)
      PROVE  TypeSender' /\ TypeWay' /\ SenderInv' /\ QueuesInv' /\ CenterInv'
  <2>1. TypeSender'
    BY <1>2, <1>3 DEF TypeSender
  <2>2. TypeWay'
    BY <1>2, <1>3 DEF TypeSender, TypeWay, centerVars
  <2>3. SenderInv'
    BY <1>2, <1>3 DEF SenderInv, centerVars
  <2>4. QueuesInv'
    BY <1>2, <1>3 DEF QueuesInv
  <2>5. CenterInv'
    BY <1>2, <1>3 DEF CenterInv, centerVars
  <2> QED
    BY <2>1, <2>2, <2>3, <2>4, <2>5
<1>4. ASSUME NEW id \in Ids, Arrive(id)
      PROVE  /\ UNCHANGED <<senderVars, floor, out, programVars, writerVars>>
             /\ flight' \subseteq flight /\ lost' \in SUBSET Ids
             /\ offered \subseteq offered' /\ offered' \subseteq offered \cup flight
  BY <1>4 DEF Arrive, centerVars, Center!Offer, TypeWay
<1>5. ASSUME NEW id \in Ids, Arrive(id)
      PROVE  TypeSender' /\ TypeWay' /\ SenderInv' /\ QueuesInv' /\ CenterInv'
  <2>1. TypeSender' /\ QueuesInv'
    BY <1>4, <1>5 DEF TypeSender, QueuesInv, senderVars
  <2>2. TypeWay'
    BY <1>4, <1>5 DEF TypeWay
  <2>3. SenderInv'
    BY <1>4, <1>5 DEF SenderInv, senderVars
  <2>4. CenterInv'
    BY <1>4, <1>5 DEF CenterInv, senderVars
  <2> QED
    BY <2>1, <2>2, <2>3, <2>4
<1>6. ASSUME NEW k \in Ids, Center!GiveUpBelow(k)
      PROVE  floor' = k /\ k > floor /\ k \in offered /\ k < counter
             /\ UNCHANGED <<offered, out>> /\ k \in Nat
  BY <1>6 DEF Center!GiveUpBelow, SenderInv, Ids, Copies
<1>7. CASE SkipMissing
  <2>1. UNCHANGED <<senderVars, flight, lost, programVars, writerVars>> /\ callback = "idle"
    BY <1>7 DEF SkipMissing
  <2>2. PICK k \in Ids : Center!GiveUpBelow(k)
    BY <1>7 DEF SkipMissing
  <2>3. TypeSender' /\ QueuesInv'
    BY <2>1 DEF TypeSender, QueuesInv, senderVars
  <2>4. TypeWay'
    <3>1. floor' \in 0..(Len(Source) + 1 + Copies)
      BY <1>6, <2>2 DEF Ids, Copies
    <3> QED
      BY <1>6, <2>1, <2>2, <3>1 DEF TypeWay
  <2>5. SenderInv'
    BY <1>6, <2>1, <2>2 DEF SenderInv, senderVars
  <2>6. CenterInv'
    <3>1. \A i \in DOMAIN out : out[i] < floor'
      <4>1. \A i \in DOMAIN out : out[i] \in Nat
        BY ElementOfSeq, LenProperties DEF TypeWay, Ids, Copies
      <4> QED
        BY <1>1, <1>6, <2>2, <4>1 DEF CenterInv
    <3>2. floor' <= counter'
      BY <1>1, <1>6, <2>1, <2>2 DEF senderVars
    <3> QED
      BY <1>6, <2>2, <3>1, <3>2 DEF CenterInv
  <2> QED
    BY <1>1, <1>6, <2>1, <2>2, <2>3, <2>4, <2>5, <2>6 DEF senderVars
<1>8. CASE \E id \in Ids : Encode(id) \/ Arrive(id)
  <2>1. PICK id \in Ids : Encode(id) \/ Arrive(id)
    BY <1>8
  <2>2. CASE Encode(id)
    BY <1>1, <1>2, <1>3, <2>2 DEF centerVars
  <2>3. CASE Arrive(id)
    BY <1>1, <1>4, <1>5, <2>3 DEF senderVars
  <2> QED
    BY <2>1, <2>2, <2>3
<1> QED
  BY <1>7, <1>8 DEF Transporting

-----------------------------------------------------------------------------
LEMMA ElementsAppend ==
  ASSUME NEW S, NEW seq \in Seq(S), NEW x \in S
  PROVE  /\ Append(seq, x) \in Seq(S)
         /\ Elements(Append(seq, x)) = Elements(seq) \cup {x}
         /\ DOMAIN seq = 1..Len(seq) /\ DOMAIN Append(seq, x) = 1..(Len(seq) + 1)
         /\ Len(seq) \in Nat /\ Append(seq, x)[Len(seq) + 1] = x
         /\ \A i \in 1..Len(seq) : Append(seq, x)[i] = seq[i]
<1>1. /\ Append(seq, x) \in Seq(S)
      /\ Len(Append(seq, x)) = Len(seq) + 1 /\ Append(seq, x)[Len(seq) + 1] = x
      /\ \A i \in 1..Len(seq) : Append(seq, x)[i] = seq[i]
  BY AppendProperties
<1>2. Len(seq) \in Nat /\ DOMAIN seq = 1..Len(seq) /\ DOMAIN Append(seq, x) = 1..(Len(seq) + 1)
  BY <1>1, LenProperties
<1>3. \A i \in DOMAIN Append(seq, x) : i \in DOMAIN seq \/ i = Len(seq) + 1
  BY <1>2
<1>4. \A i \in DOMAIN seq : i \in DOMAIN Append(seq, x)
  BY <1>2
<1>5. Len(seq) + 1 \in DOMAIN Append(seq, x)
  BY <1>2
<1>6. Elements(Append(seq, x)) \subseteq Elements(seq) \cup {x}
  BY <1>1, <1>2, <1>3 DEF Elements
<1>7. Elements(seq) \cup {x} \subseteq Elements(Append(seq, x))
  BY <1>1, <1>2, <1>4, <1>5 DEF Elements
<1> QED
  BY <1>1, <1>2, <1>6, <1>7

(* The packets are the streams 1..read. *)
LEMMA ContentAt ==
  ASSUME TypeSender, NEW id \in Nat
  PROVE  /\ Content(id) \in FrameTypes <=> id > 0 /\ id <= read
         /\ Content(id) = "header" <=> id = 0
         /\ Content(id) = "eos" <=> id > read
         /\ id > 0 /\ id <= read => id \in DOMAIN Source /\ Content(id) = Source[id]
<1>1. read \in Nat /\ read <= Len(Source)
  BY SizeOfSource DEF TypeSender
<1>2. ASSUME id > 0, id <= read
      PROVE  id \in DOMAIN Source /\ Content(id) = Source[id] /\ Source[id] \in FrameTypes
  <2>1. id \in DOMAIN Source
    BY <1>1, <1>2, SizeOfSource
  <2>2. Source[id] \in FrameTypes
    BY <2>1, SourceAssumption, SizeOfSource, ElementOfSeq
  <2> QED
    BY <1>2, <2>1, <2>2 DEF Content
<1>3. /\ id = 0 => Content(id) = "header"
      /\ id > read => Content(id) = "eos"
  BY <1>1 DEF Content
<1>4. id = 0 \/ id > read \/ (id > 0 /\ id <= read)
  BY <1>1
<1> QED
  BY <1>1, <1>2, <1>3, <1>4 DEF FrameTypes

(* A stream is given to the user. *)
LEMMA DeliverStep ==
  ASSUME TypeSender, TypeWay, SenderInv, CenterInv, Center!Deliver,
         UNCHANGED <<senderVars, flight, lost>>
  PROVE  /\ TypeSender' /\ TypeWay' /\ SenderInv' /\ CenterInv'
         /\ floor \in Nat /\ floor \in offered /\ floor < counter
         /\ floor' = floor + 1 /\ offered' = offered
         /\ Elements(out') = Elements(out) \cup {floor}
<1> USE SizeOfSource
<1>1. /\ floor \in offered /\ out' = Append(out, floor) /\ floor' = floor + 1
      /\ offered' = offered
  BY DEF Center!Deliver
<1>2. floor \in Nat /\ counter \in Nat /\ floor < counter /\ floor \in Ids
  <2>1. floor \in Nat /\ counter \in Nat
    BY DEF TypeSender, TypeWay, Copies
  <2>2. floor \in Ids /\ floor < counter
    BY <1>1 DEF TypeWay, SenderInv
  <2> QED
    BY <2>1, <2>2
<1>3. TypeSender' /\ SenderInv'
  BY <1>1 DEF TypeSender, SenderInv, senderVars
<1>4. TypeWay'
  <2>1. floor' \in 0..(Len(Source) + 1 + Copies)
    BY <1>1, <1>2 DEF TypeSender, Copies
  <2>2. out' \in Seq(Ids)
    BY <1>1, <1>2, ElementsAppend DEF TypeWay
  <2> QED
    BY <1>1, <2>1, <2>2 DEF TypeWay
<1>5. CenterInv'
  <2>1. ASSUME NEW i \in DOMAIN out' PROVE out'[i] < floor'
    <3>1. CASE i \in DOMAIN out
      <4>1. out'[i] = out[i] /\ out[i] \in Ids
        BY <1>1, <1>2, <3>1, ElementsAppend, ElementOfSeq DEF TypeWay
      <4>2. out[i] < floor /\ out[i] \in Nat
        BY <3>1, <4>1 DEF CenterInv, Ids
      <4> QED
        BY <1>1, <1>2, <4>1, <4>2
    <3>2. CASE i \notin DOMAIN out
      <4>1. i = Len(out) + 1 /\ out'[i] = floor
        BY <1>1, <1>2, <2>1, <3>2, ElementsAppend DEF TypeWay
      <4> QED
        BY <1>1, <1>2, <4>1
    <3> QED
      BY <3>1, <3>2
  <2>2. floor' <= counter'
    BY <1>1, <1>2 DEF senderVars
  <2> QED
    BY <2>1, <2>2 DEF CenterInv
<1>6. Elements(out') = Elements(out) \cup {floor}
  BY <1>1, <1>2, ElementsAppend DEF TypeWay
<1> QED
  BY <1>1, <1>2, <1>3, <1>4, <1>5, <1>6

(* What is in the file's part of the streams changes with what is given out, but
   not when the sender reads on. *)
LEMMA DeliveredBelow ==
  ASSUME TypeWay, CenterInv, NEW p \in Elements(out)
  PROVE  p \in Nat /\ p < floor
<1>1. PICK i \in DOMAIN out : p = out[i]
  BY DEF Elements
<1>2. out[i] \in Ids
  BY <1>1, ElementOfSeq, LenProperties DEF TypeWay
<1> QED
  BY <1>1, <1>2 DEF CenterInv, Ids

LEMMA DeliveredStays ==
  ASSUME TypeSender, TypeWay, CenterInv, out' = out,
         read' = read \/ (read' = read + 1 /\ counter = read + 1)
  PROVE  Delivered' = Delivered
<1>1. read \in Nat /\ counter \in Nat /\ floor \in Nat /\ floor <= counter
  BY SizeOfSource DEF TypeSender, TypeWay, CenterInv
<1>2. ASSUME NEW p \in Elements(out) PROVE Content(p)' = Content(p)
  <2>1. p \in Nat /\ p < floor
    BY DeliveredBelow
  <2>2. p <= read' <=> p <= read
    BY <1>1, <2>1
  <2> QED
    BY <2>2 DEF Content
<1>3. Elements(out)' = Elements(out)
  BY DEF Elements
<1> QED
  BY <1>2, <1>3 DEF Delivered

LEMMA DeliveredGrows ==
  ASSUME read' = read, Elements(out') = Elements(out) \cup {floor}
  PROVE  /\ Delivered \subseteq Delivered'
         /\ Content(floor) \in {"video", "audio"} /\ floor # 0
              => Delivered' = Delivered \cup {floor}
         /\ Content(floor) \notin {"video", "audio"} \/ floor = 0
              => Delivered' = Delivered
<1>1. \A p : Content(p)' = Content(p)
  BY DEF Content
<1>2. PICK f : f = floor
  OBVIOUS
<1>3. Elements(out)' = Elements(out) \cup {f}
  BY <1>2
<1>4. Delivered' = {p \in (Elements(out) \cup {f}) \ {0} : Content(p) \in {"video", "audio"}}
  BY <1>1, <1>3 DEF Delivered
<1> QED
  BY <1>2, <1>4 DEF Delivered

-----------------------------------------------------------------------------
(* All that is to hold of the receiving program. *)
ProgramInv ==
  /\ TypeProgram /\ TypeWriter
  /\ CallbackInv /\ BufferInv /\ WriterInv
  /\ FileIsInOrder /\ EosMeansComplete

(* Steps of others: the sender reads on, streams arrive or are given up. *)
LEMMA OthersStep ==
  ASSUME TypeSender, TypeWay, ProgramInv, read' \in Nat, floor' \in Nat,
         UNCHANGED <<programVars, writerVars>>, Delivered' = Delivered,
         floor' >= floor, offered \subseteq offered',
         callback = "writing" => floor' = floor,
         read' = read \/ (read' = read + 1 /\ read < Len(Source))
  PROVE  ProgramInv'
<1> USE SizeOfSource
<1>1. read \in Nat /\ floor \in Nat
  BY DEF TypeSender, TypeWay
<1>2. UNCHANGED <<callback, headerReceived, eosReceived, stopAsked, main, context, buffer,
                  file, trailers, faulty>>
  BY DEF programVars, writerVars
<1>3. TypeProgram' /\ TypeWriter'
  BY <1>2 DEF ProgramInv, TypeProgram, TypeWriter
<1>4. CallbackInv'
  <2>1. headerReceived => floor > 0
    BY DEF ProgramInv, CallbackInv
  <2>2. floor > 0 => floor' > 0
    BY <1>1
  <2>3. callback = "writing" => headerReceived /\ floor' \in offered' /\ floor' > 0
    BY <2>1, <2>2 DEF ProgramInv, CallbackInv
  <2>4. ASSUME callback = "writing" PROVE floor' <= read'
    <3>1. floor' = floor /\ floor <= read
      BY <2>4 DEF ProgramInv, CallbackInv
    <3> QED
      BY <1>1, <3>1
  <2>5. floor > read /\ read = Len(Source) => floor' > read' /\ read' = Len(Source)
    BY <1>1
  <2>6. eosReceived => floor > read /\ read = Len(Source)
    BY DEF ProgramInv, CallbackInv
  <2> QED
    BY <1>2, <2>1, <2>2, <2>3, <2>4, <2>5, <2>6 DEF CallbackInv
<1>5. BufferInv'
  <2>1. \A i \in DOMAIN buffer : buffer[i] \in Nat
    BY ElementOfSeq, LenProperties DEF ProgramInv, TypeWriter
  <2>2. \A i \in DOMAIN buffer' : buffer'[i] < floor'
    BY <1>1, <1>2, <2>1 DEF ProgramInv, BufferInv
  <2> QED
    BY <1>2, <2>2 DEF ProgramInv, BufferInv, Increasing, Elements
<1>6. WriterInv'
  BY <1>2 DEF ProgramInv, WriterInv
<1>7. FileIsInOrder'
  BY <1>2 DEF ProgramInv, FileIsInOrder, Elements
<1>8. EosMeansComplete'
  BY <1>2 DEF ProgramInv, EosMeansComplete, Elements
<1> QED
  BY <1>3, <1>4, <1>5, <1>6, <1>7, <1>8 DEF ProgramInv

LEMMA EosStep ==
  ASSUME TypeSender, TypeWay, SenderInv, CenterInv, ProgramInv, ReceiveEos
  PROVE  TypeSender' /\ TypeWay' /\ SenderInv' /\ CenterInv' /\ ProgramInv'
<1> USE SizeOfSource
<1>1. /\ Center!Deliver /\ UNCHANGED <<senderVars, flight, lost, writerVars>>
      /\ UNCHANGED <<callback, headerReceived, stopAsked, main>> /\ eosReceived' = TRUE
      /\ callback = "idle" /\ Content(floor) = "eos"
  BY DEF ReceiveEos, Called
<1>2. /\ TypeSender' /\ TypeWay' /\ SenderInv' /\ CenterInv'
      /\ floor \in Nat /\ floor < counter /\ floor' = floor + 1
      /\ Elements(out') = Elements(out) \cup {floor}
  BY <1>1, DeliverStep
<1>3. read \in Nat /\ counter \in Nat /\ read' = read
  BY <1>1 DEF TypeSender, Copies, senderVars
<1>4. floor > read /\ read = Len(Source)
  <2>1. floor > read
    BY <1>1, <1>2, ContentAt
  <2>2. (counter <= read + 1) \/ (read = Len(Source))
    BY DEF SenderInv
  <2>3. ~(counter <= read + 1)
    BY <1>2, <1>3, <2>1
  <2> QED
    BY <2>1, <2>2, <2>3
<1>5. Delivered' = Delivered
  BY <1>1, <1>2, <1>3, DeliveredGrows
<1>6. UNCHANGED <<context, buffer, file, trailers, faulty>>
  BY <1>1 DEF writerVars
<1>7. TypeProgram' /\ TypeWriter'
  BY <1>1, <1>6 DEF ProgramInv, TypeProgram, TypeWriter
<1>8. CallbackInv'
  BY <1>1, <1>2, <1>3, <1>4 DEF ProgramInv, CallbackInv
<1>9. BufferInv'
  <2>1. \A i \in DOMAIN buffer : buffer[i] \in Nat
    BY ElementOfSeq, LenProperties DEF ProgramInv, TypeWriter
  <2>2. \A i \in DOMAIN buffer' : buffer'[i] < floor'
    BY <1>2, <1>6, <2>1 DEF ProgramInv, BufferInv
  <2> QED
    BY <1>1, <1>5, <1>6, <2>2 DEF ProgramInv, BufferInv, Increasing, Elements
<1>10. WriterInv'
  BY <1>1, <1>6 DEF ProgramInv, WriterInv
<1>11. FileIsInOrder' /\ EosMeansComplete'
  BY <1>1, <1>5, <1>6 DEF ProgramInv, FileIsInOrder, EosMeansComplete, Elements
<1> QED
  BY <1>2, <1>7, <1>8, <1>9, <1>10, <1>11 DEF ProgramInv

(* The header is the first stream of all: before it nothing was given out. *)
LEMMA HeaderStep ==
  ASSUME TypeSender, TypeWay, SenderInv, CenterInv, ProgramInv, ReceiveHeader
  PROVE  TypeSender' /\ TypeWay' /\ SenderInv' /\ CenterInv' /\ ProgramInv'
<1> USE SizeOfSource
<1>1. /\ Center!Deliver /\ UNCHANGED <<senderVars, flight, lost>>
      /\ UNCHANGED <<callback, eosReceived, stopAsked, main, file, trailers>>
      /\ callback = "idle" /\ Content(floor) = "header"
      /\ buffer' = <<>> /\ headerReceived' = (context' = "open")
      /\ faulty' \in {faulty, TRUE} /\ context' \in {"open", context}
  BY DEF ReceiveHeader, Called, initialize, openFile
<1>2. /\ TypeSender' /\ TypeWay' /\ SenderInv' /\ CenterInv'
      /\ floor \in Nat /\ floor' = floor + 1
      /\ Elements(out') = Elements(out) \cup {floor}
  BY <1>1, DeliverStep
<1>3. read \in Nat /\ read' = read
  BY <1>1 DEF TypeSender, senderVars
<1>4. floor = 0
  BY <1>1, <1>2, ContentAt
<1>5. Delivered = {} /\ Delivered' = {}
  <2>1. \A p \in Elements(out) : FALSE
    BY <1>4, DeliveredBelow
  <2>2. Delivered = {}
    BY <2>1 DEF Delivered
  <2> QED
    BY <1>2, <1>3, <1>4, <2>2, DeliveredGrows
<1>6. ~headerReceived /\ ~eosReceived /\ trailers = 0 /\ context = "none"
  <2>1. ~(floor > 0) /\ ~(floor > read)
    BY <1>3, <1>4
  <2>2. ~headerReceived /\ ~eosReceived
    BY <2>1 DEF ProgramInv, CallbackInv
  <2> QED
    BY <2>2 DEF ProgramInv, WriterInv, TypeWriter
<1>7. buffer' \in Seq(DOMAIN Source) /\ DOMAIN buffer' = {}
  BY <1>1, EmptySeq
<1>8. TypeProgram' /\ TypeWriter'
  BY <1>1, <1>7 DEF ProgramInv, TypeProgram, TypeWriter
<1>9. CallbackInv'
  BY <1>1, <1>2, <1>4, <1>6 DEF ProgramInv, CallbackInv
<1>10. BufferInv'
  BY <1>5, <1>7 DEF BufferInv, Increasing, Elements
<1>11. WriterInv'
  BY <1>1, <1>6 DEF ProgramInv, WriterInv
<1>12. FileIsInOrder'
  BY <1>1, <1>5 DEF ProgramInv, FileIsInOrder, Elements
<1>13. EosMeansComplete'
  BY <1>1, <1>6 DEF ProgramInv, WriterInv, EosMeansComplete
<1> QED
  BY <1>2, <1>8, <1>9, <1>10, <1>11, <1>12, <1>13 DEF ProgramInv

(* A packet without a header is out of the file's part, and is not looked at. *)
LEMMA PacketStep ==
  ASSUME TypeSender, TypeWay, SenderInv, CenterInv, ProgramInv, ReceivePacket
  PROVE  TypeSender' /\ TypeWay' /\ SenderInv' /\ CenterInv' /\ ProgramInv'
<1> USE SizeOfSource
<1>1. /\ UNCHANGED <<senderVars, flight, lost, writerVars>>
      /\ UNCHANGED <<headerReceived, eosReceived, stopAsked, main>>
      /\ callback = "idle" /\ Content(floor) \in FrameTypes /\ floor \in offered
  BY DEF ReceivePacket, Called
<1>2. UNCHANGED <<context, buffer, file, trailers, faulty>> /\ read' = read
  BY <1>1 DEF writerVars, senderVars
<1>3. floor \in Nat /\ read \in Nat
  BY DEF TypeSender, TypeWay
<1>4. CASE headerReceived /\ callback' = "writing" /\ UNCHANGED centerVars
  <2>1. UNCHANGED <<floor, offered, out>>
    BY <1>4 DEF centerVars
  <2>2. floor > 0 /\ floor <= read
    BY <1>1, <1>3, ContentAt
  <2>3. TypeSender' /\ SenderInv'
    BY <1>1, <2>1 DEF TypeSender, SenderInv, senderVars
  <2>4. TypeWay' /\ CenterInv'
    BY <1>1, <2>1 DEF TypeWay, CenterInv, senderVars
  <2>5. Delivered' = Delivered
    BY <1>2, <2>1, DeliveredStays
  <2>6. TypeProgram' /\ TypeWriter'
    BY <1>1, <1>2, <1>4 DEF ProgramInv, TypeProgram, TypeWriter
  <2>7. CallbackInv'
    BY <1>1, <1>2, <1>4, <2>1, <2>2 DEF ProgramInv, CallbackInv
  <2>8. BufferInv'
    BY <1>1, <1>2, <2>1, <2>5 DEF ProgramInv, BufferInv, Increasing, Elements
  <2>9. WriterInv'
    BY <1>1, <1>2 DEF ProgramInv, WriterInv
  <2>10. FileIsInOrder' /\ EosMeansComplete'
    BY <1>1, <1>2, <2>5 DEF ProgramInv, FileIsInOrder, EosMeansComplete, Elements
  <2> QED
    BY <2>3, <2>4, <2>6, <2>7, <2>8, <2>9, <2>10 DEF ProgramInv
<1>5. CASE ~headerReceived /\ Center!Deliver /\ UNCHANGED callback
  <2>1. /\ TypeSender' /\ TypeWay' /\ SenderInv' /\ CenterInv'
        /\ floor' = floor + 1 /\ Elements(out') = Elements(out) \cup {floor}
    BY <1>1, <1>5, DeliverStep
  <2>2. Delivered \subseteq Delivered'
    BY <1>2, <2>1, DeliveredGrows
  <2>3. TypeProgram' /\ TypeWriter'
    BY <1>1, <1>2, <1>5 DEF ProgramInv, TypeProgram, TypeWriter
  <2>4. CallbackInv'
    <3>1. floor > read => floor' > read'
      BY <1>2, <1>3, <2>1
    <3> QED
      BY <1>1, <1>2, <1>5, <3>1 DEF ProgramInv, CallbackInv
  <2>5. BufferInv'
    <3>1. \A i \in DOMAIN buffer : buffer[i] \in Nat
      BY ElementOfSeq, LenProperties DEF ProgramInv, TypeWriter
    <3>2. \A i \in DOMAIN buffer' : buffer'[i] < floor'
      BY <1>2, <1>3, <2>1, <3>1 DEF ProgramInv, BufferInv
    <3> QED
      BY <1>1, <1>2, <1>5, <2>2, <3>2 DEF ProgramInv, BufferInv, Increasing, Elements
  <2>6. WriterInv'
    BY <1>1, <1>2 DEF ProgramInv, WriterInv
  <2>7. FileIsInOrder' /\ EosMeansComplete'
    BY <1>1, <1>2, <1>5, <2>2 DEF ProgramInv, FileIsInOrder, EosMeansComplete, Elements
  <2> QED
    BY <2>1, <2>3, <2>4, <2>5, <2>6, <2>7 DEF ProgramInv
<1> QED
  BY <1>4, <1>5 DEF ReceivePacket

(* While the callback holds a packet no end marker has come, so it isn't too late:
   the packet goes behind those that are in the buffer. *)
LEMMA WriteStep ==
  ASSUME TypeSender, TypeWay, SenderInv, CenterInv, ProgramInv, WritePacket
  PROVE  TypeSender' /\ TypeWay' /\ SenderInv' /\ CenterInv' /\ ProgramInv'
<1> USE SizeOfSource
<1>1. /\ Center!Deliver /\ UNCHANGED <<senderVars, flight, lost>>
      /\ UNCHANGED <<headerReceived, eosReceived, stopAsked, main, context, file, trailers,
                     faulty>>
      /\ callback = "writing" /\ callback' = "idle"
      /\ buffer' = IF Content(floor) = "other" THEN buffer ELSE Append(buffer, floor)
  BY DEF WritePacket, writePacket
<1>2. /\ TypeSender' /\ TypeWay' /\ SenderInv' /\ CenterInv'
      /\ floor \in Nat /\ floor' = floor + 1
      /\ Elements(out') = Elements(out) \cup {floor}
  BY <1>1, DeliverStep
<1>3. read \in Nat /\ read' = read
  BY <1>1 DEF TypeSender, senderVars
<1>4. headerReceived /\ floor > 0 /\ floor <= read
  BY <1>1 DEF ProgramInv, CallbackInv
<1>5. ~eosReceived
  <2>1. ~(floor > read)
    BY <1>2, <1>3, <1>4
  <2> QED
    BY <2>1 DEF ProgramInv, CallbackInv
<1>6. floor \in DOMAIN Source /\ Content(floor) \in FrameTypes
  BY <1>2, <1>4, ContentAt
<1>7. \A i \in DOMAIN buffer : buffer[i] \in Nat /\ buffer[i] < floor
  BY ElementOfSeq, LenProperties DEF ProgramInv, TypeWriter, BufferInv
<1>8. buffer \in Seq(DOMAIN Source) /\ Increasing(buffer) /\ Elements(buffer) \subseteq Delivered
  BY DEF ProgramInv, TypeWriter, BufferInv
<1>9. /\ buffer' \in Seq(DOMAIN Source) /\ Increasing(buffer')
      /\ \A i \in DOMAIN buffer' : buffer'[i] < floor'
      /\ \E new \in SUBSET {floor} : /\ Elements(buffer') = Elements(buffer) \cup new
                                     /\ Delivered' = Delivered \cup new
  <2>1. CASE Content(floor) = "other"
    <3>1. buffer' = buffer /\ Delivered' = Delivered
      BY <1>1, <1>2, <1>3, <2>1, DeliveredGrows
    <3>2. \A i \in DOMAIN buffer' : buffer'[i] < floor'
      BY <1>2, <1>7, <3>1
    <3>3. Increasing(buffer') /\ Elements(buffer') = Elements(buffer) \cup {}
      BY <1>8, <3>1
    <3> QED
      BY <1>8, <3>1, <3>2, <3>3
  <2>2. CASE Content(floor) # "other"
    <3>1. buffer' = Append(buffer, floor)
      BY <1>1, <2>2
    <3>2. Delivered' = Delivered \cup {floor}
      BY <1>2, <1>3, <1>4, <1>6, <2>2, DeliveredGrows DEF FrameTypes
    <3>3. /\ buffer' \in Seq(DOMAIN Source)
          /\ Elements(buffer') = Elements(buffer) \cup {floor}
          /\ DOMAIN buffer = 1..Len(buffer) /\ DOMAIN buffer' = 1..(Len(buffer) + 1)
          /\ Len(buffer) \in Nat /\ buffer'[Len(buffer) + 1] = floor
          /\ \A i \in 1..Len(buffer) : buffer'[i] = buffer[i]
      BY <1>6, <1>8, <3>1, ElementsAppend
    <3>4. \A i \in DOMAIN buffer' : \/ i \in DOMAIN buffer /\ buffer'[i] = buffer[i]
                                    \/ i = Len(buffer) + 1 /\ buffer'[i] = floor
      BY <3>3
    <3>5. \A i \in DOMAIN buffer' : buffer'[i] < floor'
      BY <1>2, <1>7, <3>4
    <3>6. ASSUME NEW i \in DOMAIN buffer', NEW j \in DOMAIN buffer', i < j
          PROVE  buffer'[i] < buffer'[j]
      <4>1. i \in DOMAIN buffer /\ buffer'[i] = buffer[i]
        BY <3>3, <3>6
      <4>2. CASE j \in DOMAIN buffer
        BY <1>8, <3>3, <3>6, <4>1, <4>2 DEF Increasing
      <4>3. CASE j = Len(buffer) + 1
        BY <1>7, <3>3, <4>1, <4>3
      <4> QED
        BY <3>4, <4>2, <4>3
    <3>7. Increasing(buffer')
      BY <3>6 DEF Increasing
    <3> QED
      BY <3>2, <3>3, <3>5, <3>7
  <2> QED
    BY <2>1, <2>2
<1>10. Delivered \subseteq Delivered' /\ Elements(buffer') \subseteq Delivered'
       /\ (Elements(buffer) = Delivered => Elements(buffer') = Delivered')
  BY <1>8, <1>9
<1>11. TypeProgram' /\ TypeWriter'
  BY <1>1, <1>9 DEF ProgramInv, TypeProgram, TypeWriter
<1>12. CallbackInv'
  <2>1. floor' > 0
    BY <1>2
  <2> QED
    BY <1>1, <1>5, <2>1 DEF CallbackInv
<1>13. BufferInv'
  <2>1. main' = "waiting" /\ headerReceived' => Elements(buffer)' = Delivered'
    BY <1>1, <1>4, <1>10 DEF ProgramInv, BufferInv, Elements
  <2>2. Increasing(buffer)' /\ Elements(buffer)' \subseteq Delivered'
    BY <1>9, <1>10 DEF Increasing, Elements
  <2> QED
    BY <1>9, <2>1, <2>2 DEF BufferInv
<1>14. WriterInv'
  BY <1>1 DEF ProgramInv, WriterInv
<1>15. FileIsInOrder'
  BY <1>1, <1>10 DEF ProgramInv, FileIsInOrder, Elements
<1>16. EosMeansComplete'
  BY <1>1, <1>5 DEF ProgramInv, WriterInv, EosMeansComplete
<1> QED
  BY <1>2, <1>11, <1>12, <1>13, <1>14, <1>15, <1>16 DEF ProgramInv

(* Written in the order of their index, distinct packets stay distinct. *)
LEMMA OrderOfWriting ==
  ASSUME TypeWriter, Increasing(buffer), NEW written \in SUBSET DOMAIN buffer,
         NEW order \in writePacketDirect(written)
  PROVE  LET made == [n \in DOMAIN order |-> buffer[order[n]]] IN
         /\ made \in Seq(DOMAIN Source) /\ Increasing(made)
         /\ Elements(made) \subseteq Elements(buffer)
         /\ Elements(order) = DOMAIN buffer => Elements(made) = Elements(buffer)
<1> DEFINE made == [n \in DOMAIN order |-> buffer[order[n]]]
           size == Cardinality(written)
<1>1. /\ buffer \in Seq(DOMAIN Source) /\ DOMAIN buffer = 1..Len(buffer)
      /\ Len(buffer) \in Nat
  BY LenProperties DEF TypeWriter
<1>2. \A i \in DOMAIN buffer : buffer[i] \in DOMAIN Source /\ buffer[i] \in Nat
  BY <1>1, ElementOfSeq, SizeOfSource
<1>3. size \in Nat
  <2>1. IsFiniteSet(1..Len(buffer))
    BY <1>1, FS_Interval
  <2>2. IsFiniteSet(written)
    BY <1>1, <2>1, FS_Subset
  <2> QED
    BY <2>2, FS_CardinalityType
<1>4. /\ order \in [1..size -> written] /\ Elements(order) = written
      /\ \A m, n \in DOMAIN order :
           m < n => order[m] # order[n] /\ buffer[order[m]] <= buffer[order[n]]
  BY DEF writePacketDirect
<1> HIDE DEF size
<1>5. DOMAIN order = 1..size /\ \A n \in DOMAIN order : order[n] \in DOMAIN buffer
  BY <1>4
<1>6. /\ DOMAIN made = DOMAIN order
      /\ \A n \in DOMAIN order : made[n] = buffer[order[n]]
  OBVIOUS
<1>7. made \in Seq(DOMAIN Source)
  <2>1. made \in [1..size -> DOMAIN Source]
    BY <1>2, <1>5
  <2> QED
    BY <1>3, <2>1, SeqDef
<1>8. ASSUME NEW i \in DOMAIN buffer, NEW j \in DOMAIN buffer, i # j, buffer[i] <= buffer[j]
      PROVE  buffer[i] < buffer[j]
  <2>1. i < j \/ j < i
    BY <1>1, <1>8
  <2>2. j < i => buffer[j] < buffer[i]
    BY DEF Increasing
  <2>3. i < j => buffer[i] < buffer[j]
    BY DEF Increasing
  <2> QED
    BY <1>2, <1>8, <2>1, <2>2, <2>3
<1> HIDE DEF made
<1>9. Increasing(made)
  BY <1>4, <1>5, <1>6, <1>8 DEF Increasing
<1>10. Elements(made) \subseteq Elements(buffer)
  BY <1>5, <1>6 DEF Elements
<1>11. ASSUME Elements(order) = DOMAIN buffer, NEW p \in Elements(buffer)
       PROVE  p \in Elements(made)
  <2>1. PICK i \in DOMAIN buffer : p = buffer[i]
    BY DEF Elements
  <2>2. PICK n \in DOMAIN order : order[n] = i
    BY <1>11 DEF Elements
  <2> QED
    BY <1>6, <2>1, <2>2 DEF Elements
<1> QED
  BY <1>7, <1>9, <1>10, <1>11 DEF made

(* Main's steps: nothing is given out by them. *)
LEMMA MainKeeps ==
  ASSUME TypeSender, TypeWay, SenderInv, CenterInv,
         UNCHANGED <<senderVars, flight, lost, centerVars>>
  PROVE  /\ TypeSender' /\ TypeWay' /\ SenderInv' /\ CenterInv'
         /\ Delivered' = Delivered /\ floor' = floor /\ read' = read
         /\ offered' = offered
<1>1. TypeSender' /\ TypeWay' /\ SenderInv' /\ CenterInv'
  BY DEF TypeSender, TypeWay, SenderInv, CenterInv, senderVars, centerVars
<1>2. floor' = floor /\ read' = read /\ out' = out /\ offered' = offered
  BY DEF senderVars, centerVars
<1>3. Delivered' = Delivered
  BY <1>2, DeliveredStays
<1> QED
  BY <1>1, <1>2, <1>3

LEMMA FinishStep ==
  ASSUME TypeSender, TypeWay, SenderInv, CenterInv, ProgramInv, Finish
  PROVE  TypeSender' /\ TypeWay' /\ SenderInv' /\ CenterInv' /\ ProgramInv'
<1>1. /\ UNCHANGED <<senderVars, flight, lost, centerVars>>
      /\ UNCHANGED <<callback, headerReceived, eosReceived, stopAsked>>
      /\ main = "waiting" /\ main' = "finished"
      /\ eosReceived \/ stopAsked
  BY DEF Finish, WhenFinished
<1>2. /\ TypeSender' /\ TypeWay' /\ SenderInv' /\ CenterInv'
      /\ Delivered' = Delivered /\ floor' = floor /\ read' = read /\ offered' = offered
  BY <1>1, MainKeeps
<1>3. TypeProgram'
  BY <1>1 DEF ProgramInv, TypeProgram, Mains
<1>4. CallbackInv'
  BY <1>1, <1>2 DEF ProgramInv, CallbackInv
<1>5. trailers = 0
  BY <1>1 DEF ProgramInv, WriterInv
<1>6. CASE headerReceived /\ \E written \in SUBSET DOMAIN buffer, trailed, closed \in BOOLEAN :
             \E order \in writePacketDirect(written) : finalize(order, trailed, closed)
  <2>1. PICK written \in SUBSET DOMAIN buffer, trailed \in BOOLEAN, closed \in BOOLEAN :
               \E order \in writePacketDirect(written) : finalize(order, trailed, closed)
    BY <1>6
  <2>2. PICK order \in writePacketDirect(written) : finalize(order, trailed, closed)
    BY <2>1
  <2>3. /\ file' = [n \in DOMAIN order |-> buffer[order[n]]]
        /\ buffer' = <<>> /\ context' = "none"
        /\ trailers' = trailers + (IF trailed THEN 1 ELSE 0) + close(~trailed, closed)
        /\ faulty' = (faulty \/ ~(trailed \/ closed) \/ Elements(order) # DOMAIN buffer)
    BY <2>2 DEF finalize
  <2>4. trailers' \in {0, 1}
    BY <1>5, <2>3 DEF close
  <2>5. /\ file' \in Seq(DOMAIN Source) /\ Increasing(file')
        /\ Elements(file') \subseteq Elements(buffer)
        /\ Elements(order) = DOMAIN buffer => Elements(file') = Elements(buffer)
    BY <2>3, OrderOfWriting DEF ProgramInv, BufferInv
  <2>6. buffer' \in Seq(DOMAIN Source) /\ DOMAIN buffer' = {}
    BY <2>3, EmptySeq
  <2>7. faulty' \in BOOLEAN
    BY <2>3 DEF ProgramInv, TypeWriter
  <2>8. TypeWriter'
    BY <2>3, <2>4, <2>5, <2>6, <2>7 DEF TypeWriter
  <2>9. BufferInv'
    BY <1>1, <2>6 DEF BufferInv, Increasing, Elements
  <2>10. WriterInv'
    BY <1>1, <1>6, <2>3 DEF WriterInv
  <2>11. Elements(buffer) = Delivered
    BY <1>1, <1>6 DEF ProgramInv, BufferInv
  <2>12. FileIsInOrder'
    <3>1. Elements(file)' \subseteq Delivered'
      BY <1>2, <2>5, <2>11 DEF Elements
    <3> QED
      BY <2>4, <2>5, <3>1 DEF FileIsInOrder, Increasing
  <2>13. EosMeansComplete'
    <3>1. ~faulty' => Elements(order) = DOMAIN buffer
      BY <2>3
    <3>2. ~faulty' => Elements(file)' = Delivered'
      BY <1>2, <2>5, <2>11, <3>1 DEF Elements
    <3> QED
      BY <2>3, <3>2 DEF EosMeansComplete
  <2> QED
    BY <1>2, <1>3, <1>4, <2>8, <2>9, <2>10, <2>12, <2>13 DEF ProgramInv
<1>7. CASE ~headerReceived /\ UNCHANGED writerVars
  <2>1. UNCHANGED <<context, buffer, file, trailers, faulty>>
    BY <1>7 DEF writerVars
  <2>2. TypeWriter'
    BY <2>1 DEF ProgramInv, TypeWriter
  <2>3. BufferInv'
    BY <1>1, <1>2, <2>1 DEF ProgramInv, BufferInv, Increasing, Elements
  <2>4. WriterInv'
    BY <1>1, <1>5, <2>1 DEF ProgramInv, WriterInv
  <2>5. FileIsInOrder'
    BY <1>2, <2>1 DEF ProgramInv, FileIsInOrder, Elements
  <2>6. EosMeansComplete'
    BY <1>1, <1>7 DEF EosMeansComplete
  <2> QED
    BY <1>2, <1>3, <1>4, <2>2, <2>3, <2>4, <2>5, <2>6 DEF ProgramInv
<1> QED
  BY <1>6, <1>7 DEF Finish

LEMMA ReturnStep ==
  ASSUME TypeSender, TypeWay, SenderInv, CenterInv, ProgramInv, Return
  PROVE  TypeSender' /\ TypeWay' /\ SenderInv' /\ CenterInv' /\ ProgramInv'
<1>1. /\ UNCHANGED <<senderVars, flight, lost, centerVars>>
      /\ UNCHANGED <<callback, headerReceived, eosReceived, stopAsked, buffer, file>>
      /\ main = "finished" /\ main' = "returned" /\ context' = "none"
  BY DEF Return
<1>2. /\ TypeSender' /\ TypeWay' /\ SenderInv' /\ CenterInv'
      /\ Delivered' = Delivered /\ floor' = floor /\ read' = read /\ offered' = offered
  BY <1>1, MainKeeps
<1>3. PICK closed \in BOOLEAN :
        /\ trailers' = trailers + close(context = "open", closed)
        /\ faulty' = (faulty \/ (context = "open" /\ ~closed))
  BY DEF Return
<1>4. trailers \in Nat /\ trailers <= 1
  BY DEF ProgramInv, TypeWriter, FileIsInOrder
<1>5. /\ trailers' \in Nat /\ trailers' <= 1
      /\ context # "open" => trailers' = trailers
  <2>1. CASE context = "open"
    <3>1. trailers = 0
      BY <2>1 DEF ProgramInv, WriterInv
    <3> QED
      BY <1>3, <2>1, <3>1 DEF close
  <2>2. CASE context # "open"
    BY <1>3, <1>4, <2>2 DEF close
  <2> QED
    BY <2>1, <2>2
<1>6. faulty' \in BOOLEAN /\ (faulty => faulty')
  BY <1>3 DEF ProgramInv, TypeWriter
<1>7. TypeProgram' /\ TypeWriter'
  BY <1>1, <1>5, <1>6 DEF ProgramInv, TypeProgram, TypeWriter, Mains
<1>8. CallbackInv'
  BY <1>1, <1>2 DEF ProgramInv, CallbackInv
<1>9. BufferInv'
  BY <1>1, <1>2 DEF ProgramInv, BufferInv, Increasing, Elements
<1>10. WriterInv'
  <2>1. ~headerReceived => trailers = 0 /\ context # "open"
    BY DEF ProgramInv, WriterInv
  <2> QED
    BY <1>1, <1>5, <2>1 DEF ProgramInv, WriterInv
<1>11. FileIsInOrder'
  BY <1>1, <1>2, <1>5 DEF ProgramInv, FileIsInOrder, Elements
<1>12. EosMeansComplete'
  BY <1>1, <1>2, <1>6 DEF ProgramInv, EosMeansComplete, Elements
<1> QED
  BY <1>2, <1>7, <1>8, <1>9, <1>10, <1>11, <1>12 DEF ProgramInv

LEMMA AskStep ==
  ASSUME TypeSender, TypeWay, SenderInv, CenterInv, ProgramInv, InterruptReceiver
  PROVE  TypeSender' /\ TypeWay' /\ SenderInv' /\ CenterInv' /\ ProgramInv'
<1>1. /\ UNCHANGED <<senderVars, flight, lost, centerVars, writerVars>>
      /\ UNCHANGED <<callback, headerReceived, eosReceived, main>>
      /\ main = "waiting" /\ stopAsked' = TRUE
  BY DEF InterruptReceiver
<1>2. /\ TypeSender' /\ TypeWay' /\ SenderInv' /\ CenterInv'
      /\ Delivered' = Delivered /\ floor' = floor /\ read' = read /\ offered' = offered
  BY <1>1, MainKeeps
<1>3. UNCHANGED <<context, buffer, file, trailers, faulty>>
  BY <1>1 DEF writerVars
<1>4. TypeProgram' /\ TypeWriter'
  BY <1>1, <1>3 DEF ProgramInv, TypeProgram, TypeWriter
<1>5. CallbackInv' /\ WriterInv'
  BY <1>1, <1>2, <1>3 DEF ProgramInv, CallbackInv, WriterInv
<1>6. BufferInv'
  BY <1>1, <1>2, <1>3 DEF ProgramInv, BufferInv, Increasing, Elements
<1>7. FileIsInOrder' /\ EosMeansComplete'
  BY <1>1, <1>2, <1>3 DEF ProgramInv, FileIsInOrder, EosMeansComplete, Elements
<1> QED
  BY <1>2, <1>4, <1>5, <1>6, <1>7 DEF ProgramInv

-----------------------------------------------------------------------------
LEMMA StartHolds ==
  Init => /\ TypeSender /\ TypeWay /\ SenderInv /\ QueuesInv /\ CenterInv /\ ProgramInv
          /\ ~overflowed
<1> SUFFICES ASSUME Init
             PROVE  /\ TypeSender /\ TypeWay /\ SenderInv /\ QueuesInv /\ CenterInv
                    /\ ProgramInv /\ ~overflowed
  OBVIOUS
<1> USE SizeOfSource
<1>1. /\ phase = "header" /\ read = 0 /\ counter = 0 /\ interrupted = FALSE
      /\ open = {} /\ waiting = {} /\ flight = {} /\ lost = {} /\ refused = {}
      /\ overflowed = FALSE /\ offered = {} /\ floor = 0 /\ out = <<>>
  BY DEF Init, Center!Init
<1>2. /\ callback = "idle" /\ headerReceived = FALSE /\ eosReceived = FALSE
      /\ stopAsked = FALSE /\ main = "waiting"
      /\ context = "none" /\ buffer = <<>> /\ file = <<>> /\ trailers = 0
      /\ faulty = FALSE
  BY DEF Init
<1>3. /\ <<>> \in Seq(Ids) /\ <<>> \in Seq(DOMAIN Source) /\ DOMAIN out = {}
      /\ DOMAIN buffer = {} /\ DOMAIN file = {}
  BY <1>1, <1>2, EmptySeq
<1>4. TypeSender /\ TypeWay
  <2>1. 0 \in 0..Len(Source) /\ 0 \in 0..(Len(Source) + 1 + Copies)
    BY DEF Copies
  <2>2. TypeSender
    BY <1>1, <2>1 DEF TypeSender, Phases
  <2>3. TypeWay
    BY <1>1, <1>3, <2>1 DEF TypeWay
  <2> QED
    BY <2>2, <2>3
<1>5. TypeProgram /\ TypeWriter
  BY <1>2, <1>3 DEF TypeProgram, TypeWriter, Mains
<1>6. SenderInv /\ QueuesInv /\ CenterInv
  BY <1>1, <1>3 DEF SenderInv, QueuesInv, CenterInv
<1>7. CallbackInv /\ WriterInv
  BY <1>2 DEF CallbackInv, WriterInv
<1>8. BufferInv
  BY <1>2, <1>3 DEF BufferInv, Increasing, Elements
<1>9. FileIsInOrder /\ EosMeansComplete
  BY <1>2, <1>3 DEF FileIsInOrder, EosMeansComplete, Elements
<1> QED
  BY <1>1, <1>4, <1>5, <1>6, <1>7, <1>8, <1>9 DEF ProgramInv

(* The whole of the invariant but for overflowed. *)
TransferInv ==
  /\ TypeSender /\ TypeWay /\ SenderInv /\ QueuesInv /\ CenterInv /\ ProgramInv

LEMMA TransferStep == TransferInv /\ [Next]_vars => TransferInv'
<1> SUFFICES ASSUME TypeSender, TypeWay, SenderInv, QueuesInv, CenterInv, ProgramInv,
                    [Next]_vars
             PROVE  TransferInv'
  BY DEF TransferInv
<1>1. read \in Nat /\ floor \in Nat
  BY DEF TypeSender, TypeWay
<1>2. CASE Sending
  <2>1. /\ TypeSender' /\ lost' \in SUBSET Ids
        /\ UNCHANGED <<flight, centerVars, programVars, writerVars>>
        /\ read' = read \/ (read' = read + 1 /\ read < Len(Source) /\ counter = read + 1)
    BY <1>2, SendingStep
  <2>2. SenderInv' /\ QueuesInv' /\ CenterInv'
    BY <1>2, SendingInv
  <2>3. UNCHANGED <<offered, floor, out>>
    BY <2>1 DEF centerVars
  <2>4. TypeWay'
    BY <2>1, <2>3 DEF TypeWay
  <2>5. Delivered' = Delivered
    BY <2>1, <2>3, DeliveredStays
  <2>6. read' \in Nat /\ floor' \in Nat /\ floor' >= floor
    BY <1>1, <2>1, <2>3
  <2>7. ProgramInv'
    BY <2>1, <2>3, <2>5, <2>6, OthersStep
  <2> QED
    BY <2>1, <2>2, <2>4, <2>7 DEF TransferInv
<1>3. CASE Transporting
  <2>1. /\ TypeSender' /\ TypeWay' /\ SenderInv' /\ QueuesInv' /\ CenterInv'
        /\ UNCHANGED <<counter, read, overflowed, out, programVars, writerVars>>
        /\ floor' >= floor /\ offered \subseteq offered'
        /\ callback = "writing" => floor' = floor
    BY <1>3, TransportingStep
  <2>2. Delivered' = Delivered
    BY <2>1, DeliveredStays
  <2>3. read' \in Nat /\ floor' \in Nat
    BY <1>1, <2>1 DEF TypeWay
  <2>4. ProgramInv'
    BY <2>1, <2>2, <2>3, OthersStep
  <2> QED
    BY <2>1, <2>4 DEF TransferInv
<1>4. CASE Callback \/ ReceivingProgram \/ InterruptReceiver
  <2>1. TypeSender' /\ TypeWay' /\ SenderInv' /\ CenterInv' /\ ProgramInv'
    BY <1>4, EosStep, HeaderStep, PacketStep, WriteStep, FinishStep, ReturnStep, AskStep
    DEF Callback, ReceivingProgram
  <2>2. UNCHANGED senderVars
    BY <1>4 DEF Callback, ReceivingProgram, ReceiveEos, ReceiveHeader, ReceivePacket,
                WritePacket, Finish, Return, InterruptReceiver
  <2>3. QueuesInv'
    BY <2>2 DEF QueuesInv, senderVars
  <2> QED
    BY <2>1, <2>3 DEF TransferInv
<1>5. CASE UNCHANGED vars
  <2>1. /\ UNCHANGED <<senderVars, flight, lost, centerVars, programVars, writerVars>>
    BY <1>5 DEF vars
  <2>2. /\ TypeSender' /\ TypeWay' /\ SenderInv' /\ CenterInv'
        /\ Delivered' = Delivered /\ floor' = floor /\ read' = read /\ offered' = offered
    BY <2>1, MainKeeps
  <2>3. QueuesInv'
    BY <2>1 DEF QueuesInv, senderVars
  <2>4. ProgramInv'
    BY <1>1, <2>1, <2>2, OthersStep
  <2> QED
    BY <2>2, <2>3, <2>4 DEF TransferInv
<1> QED
  BY <1>2, <1>3, <1>4, <1>5 DEF Next, SendingProgram, Sending, Transporting

LEMMA TransferHolds == Spec => []TransferInv
<1>1. Init => TransferInv
  BY StartHolds DEF TransferInv
<1> QED
  BY <1>1, TransferStep, PTL DEF Spec

(* The types, with the bounds of the ids and of what is in the file. *)
THEOREM TypeCorrect == Spec => []TypeOK
<1>1. TransferInv => TypeOK
  BY TypeParts DEF TransferInv, ProgramInv
<1> QED
  BY <1>1, TransferHolds, PTL

(* The file has what was delivered, in the order of the source, nothing twice, and
   one trailer at most, whoever writes it. *)
THEOREM FileKeepsOrder == Spec => []FileIsInOrder
<1>1. TransferInv => FileIsInOrder
  BY DEF TransferInv, ProgramInv
<1> QED
  BY <1>1, TransferHolds, PTL

(* A reception that the end marker has ended has everything in the file that was
   delivered, and no packet comes afterwards. *)
THEOREM EosIsTheEnd == Spec => []EosMeansComplete
<1>1. TransferInv => EosMeansComplete
  BY DEF TransferInv, ProgramInv
<1> QED
  BY <1>1, TransferHolds, PTL

-----------------------------------------------------------------------------
(* Less than N streams apart means different queues. *)
LEMMA OtherQueue ==
  ASSUME NEW a \in Nat, NEW b \in Nat, a < b, b < a + N
  PROVE  a % N # b % N
<1> DEFINE qa == a \div N
           qb == b \div N
           ra == a % N
           rb == b % N
<1>1. N \in Nat \ {0}
  BY NAssumption
<1>2. /\ qa \in Nat /\ qb \in Nat /\ ra \in 0..(N - 1) /\ rb \in 0..(N - 1)
      /\ a = N * qa + ra /\ b = N * qb + rb
  BY <1>1
<1> HIDE DEF qa, qb, ra, rb
<1>3. ASSUME ra = rb PROVE FALSE
  <2>1. CASE qb <= qa
    <3>1. N * qb <= N * qa
      BY <1>1, <1>2, <2>1
    <3> QED
      BY <1>1, <1>2, <1>3, <3>1
  <2>2. CASE qa + 1 <= qb
    <3>1. N * (qa + 1) <= N * qb
      BY <1>1, <1>2, <2>2
    <3>2. N * (qa + 1) = N * qa + N
      BY <1>1, <1>2
    <3> QED
      BY <1>1, <1>2, <1>3, <3>1, <3>2
  <2> QED
    BY <1>2, <2>1, <2>2
<1> QED
  BY <1>3 DEF ra, rb

LEMMA QueueIsPart ==
  ASSUME TypeSender, NEW t
  PROVE  /\ IsFiniteSet(waiting) /\ IsFiniteSet(InQueue(t))
         /\ Cardinality(waiting) \in Nat /\ Cardinality(InQueue(t)) \in Nat
         /\ Cardinality(InQueue(t)) <= Cardinality(waiting)
<1>1. IsFiniteSet(0..(Len(Source) + Copies))
  BY SizeOfSource, FS_Interval DEF Copies
<1>2. IsFiniteSet(waiting)
  BY <1>1, FS_Subset DEF TypeSender, Ids
<1>3. InQueue(t) \subseteq waiting
  BY DEF InQueue
<1> QED
  BY <1>2, <1>3, FS_Subset, FS_CardinalityType

(* The sender finds room in the queue it needs. *)
LEMMA QueueHasRoom ==
  ASSUME TypeSender, SenderInv, QueuesInv,
         \/ phase = "header"
         \/ phase = "loop" /\ ~Throttled
         \/ phase = "eos" /\ EosSent < Copies
  PROVE  Cardinality(InQueue(counter % N)) < QueueCap
<1> DEFINE queue == InQueue(counter % N)
<1>1. /\ Cardinality(waiting) \in Nat /\ Cardinality(queue) \in Nat
      /\ Cardinality(queue) <= Cardinality(waiting)
  BY QueueIsPart
<1>2. QueueCap \in Nat /\ MaxWaiting \in Nat /\ QueueCap > MaxWaiting /\ QueueCap * N >= 3
  BY QueueCapAssumption, MaxWaitingAssumption DEF Copies
<1>3. \A id \in queue : id \in waiting /\ id \in Nat /\ id < counter /\ id % N = counter % N
  BY DEF InQueue, TypeSender, SenderInv, Ids
<1> HIDE DEF queue
<1>4. CASE phase = "header"
  <2>1. Cardinality(waiting) = 0
    BY <1>4, FS_EmptySet DEF QueuesInv
  <2> QED
    BY <1>1, <1>2, <2>1 DEF queue
<1>5. CASE phase = "loop" /\ ~Throttled
  <2>1. ~(Cardinality(waiting) > MaxWaiting)
    BY <1>5 DEF Throttled
  <2> QED
    BY <1>1, <1>2, <2>1 DEF queue
<1>6. CASE phase = "eos" /\ EosSent < Copies
  <2>1. /\ counter \in Nat /\ Len(Source) \in Nat /\ counter >= Len(Source) + 1
        /\ counter < Len(Source) + 4
    BY <1>6, SizeOfSource DEF SenderInv, TypeSender, EosSent, Copies
  <2>2. \A id \in queue : id \in Nat /\ id > Len(Source) /\ id < counter
    BY <1>3, <1>6 DEF QueuesInv
  <2>3. \A id \in queue : id >= counter - 2
    BY <2>1, <2>2
  <2>4. CASE N >= 3
    <3>1. \A id \in queue : id < counter /\ counter < id + N
      BY <2>1, <2>2, <2>3, <2>4, NAssumption
    <3>2. queue = {}
      BY <1>3, <2>1, <3>1, OtherQueue
    <3>3. Cardinality(queue) = 0
      BY <3>2, FS_EmptySet
    <3> QED
      BY <1>2, <3>3 DEF queue
  <2>5. CASE N = 2
    <3>1. \A id \in queue : id = counter - 2
      <4> SUFFICES ASSUME NEW id \in queue, id # counter - 2 PROVE FALSE
        OBVIOUS
      <4>1. id \in Nat /\ id < counter /\ counter < id + N
        BY <2>1, <2>2, <2>3, <2>5
      <4> QED
        BY <1>3, <2>1, <4>1, OtherQueue
    <3>2. queue \subseteq {counter - 2}
      BY <3>1
    <3>3. IsFiniteSet({counter - 2}) /\ Cardinality({counter - 2}) = 1
      BY FS_Singleton
    <3>4. Cardinality(queue) <= 1
      BY <3>2, <3>3, FS_Subset
    <3> QED
      BY <1>1, <1>2, <2>5, <3>4 DEF queue
  <2>6. CASE N = 1
    <3>1. queue \subseteq (counter - 2)..(counter - 1)
      BY <2>1, <2>2, <2>3
    <3>2. /\ IsFiniteSet((counter - 2)..(counter - 1))
          /\ Cardinality((counter - 2)..(counter - 1)) = 2
      <4>1. counter - 2 \in Int /\ counter - 1 \in Int /\ counter - 2 <= counter - 1
            /\ (counter - 1) - (counter - 2) + 1 = 2
        BY <2>1
      <4> QED
        BY <4>1, FS_Interval
    <3>3. Cardinality(queue) <= 2
      BY <3>1, <3>2, FS_Subset
    <3> QED
      BY <1>1, <1>2, <2>6, <3>3 DEF queue
  <2> QED
    BY <2>4, <2>5, <2>6, NAssumption
<1> QED
  BY <1>4, <1>5, <1>6

(* A stream is refused only if its thread has made no queue yet: the pauses, and
   the wait before the end markers, leave room in each queue. *)
THEOREM PausesSuffice == Spec => []PausesEarlyEnough
<1>1. Init => PausesEarlyEnough
  BY StartHolds DEF PausesEarlyEnough
<1>2. TransferInv /\ PausesEarlyEnough /\ [Next]_vars => PausesEarlyEnough'
  <2> SUFFICES ASSUME TypeSender, TypeWay, SenderInv, QueuesInv, CenterInv,
                      ~overflowed, [Next]_vars
               PROVE  ~overflowed'
    BY DEF TransferInv, PausesEarlyEnough
  <2>1. CASE SendHeader \/ SendPacket \/ SendEos
    <3>1. /\ sendData
          /\ \/ phase = "header"
             \/ phase = "loop" /\ ~Throttled
             \/ phase = "eos" /\ EosSent < Copies
      BY <2>1 DEF SendHeader, SendPacket, SendEos
    <3>2. Cardinality(InQueue(counter % N)) < QueueCap
      BY <3>1, QueueHasRoom
    <3> QED
      BY <3>1, <3>2 DEF sendData
  <2>2. CASE EndLoop \/ StopSender \/ InterruptSender \/ \E t \in Threads : CreateQueue(t)
    BY <2>2 DEF EndLoop, StopSender, InterruptSender, CreateQueue
  <2>3. CASE Transporting
    BY <2>3, TransportingStep
  <2>4. CASE Callback \/ ReceivingProgram \/ InterruptReceiver
    BY <2>4 DEF Callback, ReceivingProgram, ReceiveEos, ReceiveHeader, ReceivePacket,
                WritePacket, Finish, Return, InterruptReceiver, senderVars
  <2>5. CASE UNCHANGED vars
    BY <2>5 DEF vars, senderVars
  <2> QED
    BY <2>1, <2>2, <2>3, <2>4, <2>5 DEF Next, SendingProgram, Transporting
<1> QED
  BY <1>1, <1>2, TransferHolds, PTL DEF Spec
=============================================================================
