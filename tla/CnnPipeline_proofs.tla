------------------------- MODULE CnnPipeline_proofs -------------------------
(***************************************************************************)
(* Theorems about CnnPipeline for any number of buffers, any memory, any   *)
(* length of the queue and any number of failures, kills and restarts.     *)
(***************************************************************************)
EXTENDS CnnPipeline, SequenceTheorems, TLAPS

(***************************************************************************)
(* The inductive invariant.  A program that is not running has nothing;    *)
(* and a buffer that was filled has a picture, which is what makes the     *)
(* memory it is converted into count as allocated.                         *)
(***************************************************************************)

HasPictures ==
  /\ \A i \in DOMAIN filled : picture[filled[i]] \in Pictures
  /\ held # None => picture[held] \in Pictures

IInv ==
  /\ TypeOK /\ HasPictures
  /\ main = "down" => Down
  /\ OnlyOwnAddresses /\ MemoryIsAccountedFor

LEMMA NoneIsNothing ==
  /\ None \notin Addresses /\ None \notin Messages /\ None \notin Buffers
  /\ None \notin Pictures
  BY BuffersAssumption, AddressesAssumption, PicturesAssumption DEF Messages, Pictures

LEMMA NumbersOfPictures == 0 \in Pictures /\ \A n \in Pictures : (n + 1) % PICTURES \in Pictures
<1>1. PICTURES \in Nat \ {0}
  BY PicturesAssumption
<1>2. ASSUME NEW n \in Pictures PROVE (n + 1) % PICTURES \in 0..(PICTURES - 1)
  <2>1. n + 1 \in Nat
    BY <1>1 DEF Pictures
  <2>2. QED
    BY <1>1, <2>1
<1>3. QED
  BY <1>1, <1>2 DEF Pictures

(***************************************************************************)
(* The queue.                                                              *)
(***************************************************************************)

LEMMA Appended ==
  ASSUME NEW T, NEW q \in Seq(T), NEW e \in T
  PROVE  /\ Append(q, e) \in Seq(T) /\ Len(Append(q, e)) = Len(q) + 1
         /\ DOMAIN Append(q, e) = 1..(Len(q) + 1) /\ DOMAIN q = 1..Len(q)
         /\ Len(q) \in Nat
         /\ \A i \in 1..Len(q) : Append(q, e)[i] = q[i]
         /\ Append(q, e)[Len(q) + 1] = e
  OBVIOUS

LEMMA Shortened ==
  ASSUME NEW T, NEW q \in Seq(T), q # <<>>
  PROVE  /\ Tail(q) \in Seq(T) /\ Len(Tail(q)) = Len(q) - 1
         /\ Len(q) \in Nat /\ Len(q) >= 1
         /\ DOMAIN Tail(q) = 1..(Len(q) - 1) /\ DOMAIN q = 1..Len(q)
         /\ Head(q) \in T /\ Head(q) = q[1]
         /\ \A i \in 1..(Len(q) - 1) : Tail(q)[i] = q[i + 1]
  BY HeadTailProperties, EmptySeq

(***************************************************************************)
(* The invariant holds initially and whenever the program is gone.         *)
(***************************************************************************)

LEMMA InitIInv == Init => IInv
<1> SUFFICES ASSUME Init PROVE IInv
  OBVIOUS
<1> USE DEF Init, Down
<1>1. memory \in [Addresses -> Pictures \cup {None}]
        /\ picture \in [Buffers -> Pictures \cup {None}]
  OBVIOUS
<1>2. captured \in Pictures /\ failures \in 0..MaxFailures
  BY NumbersOfPictures, AddressesAssumption
<1>3. queue \in Seq(Messages) /\ Len(queue) <= MAX_MQ_MSG_CNT
  BY QueueAssumption
<1>4. filling \in Seq(Buffers) /\ filled \in Seq(Buffers)
  OBVIOUS
<1>5. TypeOK
  BY <1>1, <1>2, <1>3, <1>4 DEF TypeOK
<1>6. HasPictures /\ OnlyOwnAddresses /\ MemoryIsAccountedFor
  BY DEF HasPictures, OnlyOwnAddresses, MemoryIsAccountedFor
<1>7. QED
  BY <1>5, <1>6 DEF IInv

LEMMA GoneKeeps == ASSUME IInv, Gone PROVE IInv'
<1>1. queue \in Seq(Messages) /\ Len(queue) <= MAX_MQ_MSG_CNT
  BY DEF IInv, TypeOK
<1>2. DOMAIN queue = 1..Len(queue) /\ Len(queue) \in Nat
  BY <1>1
<1>3. \A i \in 1..Len(queue) : [address |-> queue[i].address, own |-> FALSE] \in Messages
  <2>1. \A i \in 1..Len(queue) : queue[i] \in Messages
    BY <1>1, <1>2
  <2>2. QED
    BY <2>1 DEF Messages
<1>4. queue' = [i \in 1..Len(queue) |-> [address |-> queue[i].address, own |-> FALSE]]
  BY <1>2 DEF Gone
<1>5. queue' \in Seq(Messages) /\ Len(queue') = Len(queue)
  BY <1>2, <1>3, <1>4
<1>6. Down'
  BY DEF Gone, Down
<1> USE DEF Down
<1>7. memory' \in [Addresses -> Pictures \cup {None}]
        /\ picture' \in [Buffers -> Pictures \cup {None}]
  BY <1>6
<1>8. captured' \in Pictures /\ failures' \in 0..MaxFailures
  BY <1>6, NumbersOfPictures, AddressesAssumption
<1>9. filling' \in Seq(Buffers) /\ filled' \in Seq(Buffers)
  BY <1>6
<1>10. TypeOK'
  BY <1>1, <1>5, <1>6, <1>7, <1>8, <1>9 DEF TypeOK
<1>11. HasPictures' /\ OnlyOwnAddresses' /\ MemoryIsAccountedFor'
  BY <1>6 DEF HasPictures, OnlyOwnAddresses, MemoryIsAccountedFor
<1>12. QED
  BY <1>6, <1>10, <1>11 DEF IInv

(***************************************************************************)
(* Steps that leave the addresses where they are.                          *)
(***************************************************************************)

LEMMA QuietKeeps ==
  ASSUME IInv, TypeOK', HasPictures', main # "down", main' # "down",
         UNCHANGED <<queue, memory, image, cnn_data, leaked>>
  PROVE  IInv'
<1>1. OnlyOwnAddresses'
  BY DEF IInv, OnlyOwnAddresses
<1>2. MemoryIsAccountedFor'
  BY DEF IInv, MemoryIsAccountedFor, Allocated, InQueue
<1>3. QED
  BY <1>1, <1>2 DEF IInv

LEMMA StartKeeps == ASSUME IInv, Start PROVE IInv'
<1> USE DEF Start
<1>1. Down
  BY DEF IInv
<1>2. filling' \in Seq(Buffers)
  <2>1. VIDEO_BUFFER_NUM \in Nat
    BY BuffersAssumption
  <2>2. \A i \in 1..VIDEO_BUFFER_NUM : i - 1 \in Buffers
    BY <2>1 DEF Buffers
  <2>3. QED
    BY <2>1, <2>2
<1>3. queue' \in Seq(Messages) /\ Len(queue') <= MAX_MQ_MSG_CNT
  BY QueueAssumption
<1>4. TypeOK'
  BY <1>1, <1>2, <1>3 DEF IInv, TypeOK, Down
<1>5. HasPictures'
  BY <1>1 DEF HasPictures, Down
<1>6. OnlyOwnAddresses' /\ MemoryIsAccountedFor'
  BY <1>1 DEF Down, OnlyOwnAddresses, MemoryIsAccountedFor, Allocated, InQueue
<1>7. QED
  BY <1>4, <1>5, <1>6 DEF IInv

\* A thread goes on and nothing changes hands.
GoesOn ==
  \/ FrameDue \/ CompositorLost \/ DequeueFails \/ Broadcast \/ EndFrame
  \/ Check \/ ReceiveFails

LEMMA GoesOnKeeps == ASSUME IInv, GoesOn PROVE IInv'
<1> USE DEF GoesOn, FrameDue, CompositorLost, DequeueFails, Broadcast, EndFrame, Check,
            ReceiveFails
<1>1. TypeOK'
  <2>1. UNCHANGED <<process, queue, memory, image, cnn_data, leaked, driver, held, taken>>
    OBVIOUS
  <2>2. /\ main' \in {"dispatch", "dequeue", "draw", "broadcast", "join"} \/ main' = main
        /\ task' \in {"check", "receive", "ended"} \/ task' = task
        /\ main' = main
             \/ {main, main'} \cap {"down", "convert", "send", "requeue"} = {}
        /\ task' = task \/ (task # "run" /\ task' # "run")
    OBVIOUS
  <2>3. QED
    BY <2>1, <2>2 DEF process, driver, IInv, TypeOK
<1>2. HasPictures' /\ UNCHANGED <<queue, memory, image, cnn_data, leaked>>
  BY DEF driver, IInv, HasPictures
<1>3. main # "down" /\ main' # "down"
  BY DEF IInv, Down
<1>4. QED
  BY <1>1, <1>2, <1>3, QuietKeeps

LEMMA DequeueKeeps == ASSUME IInv, Dequeue PROVE IInv'
<1> USE DEF Dequeue
<1>1. filled \in Seq(Buffers)
  BY DEF IInv, TypeOK
<1>2. /\ filled' \in Seq(Buffers) /\ Len(filled) \in Nat /\ Len(filled) >= 1
      /\ DOMAIN filled' = 1..(Len(filled) - 1) /\ DOMAIN filled = 1..Len(filled)
      /\ held' \in Buffers /\ held' = filled[1]
      /\ \A i \in 1..(Len(filled) - 1) : filled'[i] = filled[i + 1]
  BY <1>1, Shortened
<1>3. \A i \in 1..Len(filled) : picture[filled[i]] \in Pictures
  BY <1>2 DEF IInv, HasPictures
<1>4. HasPictures'
  BY <1>2, <1>3 DEF HasPictures, Pictures
<1>5. taken' \in Pictures
  BY <1>2, <1>3
<1>6. TypeOK'
  BY <1>2, <1>5, NoneIsNothing DEF process, IInv, TypeOK
<1>7. QED
  BY <1>4, <1>6, QuietKeeps

LEMMA RequeueKeeps == ASSUME IInv, Requeue \/ RequeueFails PROVE IInv'
<1> USE DEF Requeue, RequeueFails
<1>1. held \in Buffers /\ main = "requeue"
  BY DEF IInv, TypeOK
<1>2. filling' \in Seq(Buffers)
  <2>1. filling \in Seq(Buffers)
    BY DEF IInv, TypeOK
  <2>2. filling' = Append(filling, held) \/ filling' = filling
    BY DEF driver
  <2>3. Append(filling, held) \in Seq(Buffers)
    BY <1>1, <2>1, Appended
  <2>4. QED
    BY <2>1, <2>2, <2>3
<1>3. failures' \in 0..MaxFailures
  BY DEF IInv, TypeOK, process
<1>4. main' = "draw"
  OBVIOUS
<1>5. TypeOK'
  BY <1>1, <1>2, <1>3, <1>4 DEF process, driver, IInv, TypeOK
<1>6. HasPictures'
  BY DEF driver, IInv, HasPictures
<1>7. QED
  BY <1>1, <1>4, <1>5, <1>6, QuietKeeps

LEMMA FillKeeps == ASSUME IInv, Fill PROVE IInv'
<1> USE DEF Fill
<1>1. filling \in Seq(Buffers) /\ filled \in Seq(Buffers) /\ captured \in Pictures
      /\ picture \in [Buffers -> Pictures \cup {None}]
  BY DEF IInv, TypeOK
<1>2. filling' \in Seq(Buffers) /\ Head(filling) \in Buffers
  BY <1>1, Shortened
<1>3. /\ filled' \in Seq(Buffers) /\ Len(filled) \in Nat
      /\ DOMAIN filled' = 1..(Len(filled) + 1) /\ DOMAIN filled = 1..Len(filled)
      /\ \A i \in 1..Len(filled) : filled'[i] = filled[i]
      /\ filled'[Len(filled) + 1] = Head(filling)
  BY <1>1, <1>2, Appended
<1>4. picture' \in [Buffers -> Pictures \cup {None}] /\ captured' \in Pictures
  BY <1>1, <1>2, NumbersOfPictures
<1>5. \A b \in Buffers : picture[b] \in Pictures \/ b = Head(filling)
                           => picture'[b] \in Pictures
  BY <1>1, <1>2
<1>6. HasPictures'
  <2>1. held # None => held \in Buffers /\ picture[held] \in Pictures
    BY DEF IInv, TypeOK, HasPictures
  <2>2. \A i \in 1..Len(filled) : filled[i] \in Buffers /\ picture[filled[i]] \in Pictures
    <3>1. \A i \in 1..Len(filled) : filled[i] \in Buffers
      BY <1>1, <1>3
    <3>2. \A i \in 1..Len(filled) : picture[filled[i]] \in Pictures
      BY <1>3 DEF IInv, HasPictures
    <3>3. QED
      BY <3>1, <3>2
  <2>3. \A i \in 1..(Len(filled) + 1) : picture'[filled'[i]] \in Pictures
    <3>1. TAKE i \in 1..(Len(filled) + 1)
    <3>2. CASE i \in 1..Len(filled)
      BY <1>3, <1>5, <2>2, <3>2
    <3>3. CASE i = Len(filled) + 1
      BY <1>2, <1>3, <1>5, <3>3
    <3>4. QED
      BY <1>3, <3>2, <3>3
  <2>4. QED
    BY <1>3, <1>5, <2>1, <2>3 DEF HasPictures, Pictures
<1>7. TypeOK'
  BY <1>2, <1>3, <1>4 DEF process, IInv, TypeOK
<1>8. QED
  BY <1>6, <1>7, QuietKeeps

(***************************************************************************)
(* Steps that hand an address on.                                          *)
(***************************************************************************)

Working == IF cnn_data = None THEN {} ELSE {cnn_data.address}
Holding == IF image = None THEN {} ELSE {image}

Distinct == \A i, j \in DOMAIN queue : queue[i].address = queue[j].address => i = j

Parts ==
  /\ Allocated = InQueue \cup Working \cup Holding \cup leaked
  /\ InQueue \cap (Working \cup Holding \cup leaked) = {}
  /\ Working \cap (Holding \cup leaked) = {} /\ Holding \cap leaked = {}
  /\ Distinct

LEMMA PartsAccount == MemoryIsAccountedFor <=> (main # "down" => Parts)
  BY DEF MemoryIsAccountedFor, Parts, Working, Holding, Distinct

\* What a step has to show.
LEMMA Handed ==
  ASSUME IInv, TypeOK', HasPictures', OnlyOwnAddresses', Parts', main' # "down"
  PROVE  IInv'
<1>1. MemoryIsAccountedFor'
  BY DEF MemoryIsAccountedFor, Parts, Working, Holding, Distinct
<1>2. QED
  BY <1>1 DEF IInv

LEMMA ConvertKeeps == ASSUME IInv, Convert PROVE IInv'
<1> USE DEF Convert
<1>1. /\ memory \in [Addresses -> Pictures \cup {None}] /\ image = None
      /\ held # None /\ picture[held] \in Pictures /\ main = "convert"
  BY DEF IInv, TypeOK, HasPictures
<1>2. PICK a \in Addresses \ Allocated :
        image' = a /\ memory' = [memory EXCEPT ![a] = picture[held]]
  OBVIOUS
<1>3. TypeOK'
  BY <1>1, <1>2, NoneIsNothing DEF process, driver, IInv, TypeOK
<1>4. HasPictures' /\ OnlyOwnAddresses'
  BY <1>1 DEF driver, IInv, HasPictures, OnlyOwnAddresses
<1>5. Allocated' = Allocated \cup {a}
  BY <1>1, <1>2, NoneIsNothing DEF Allocated
<1>6. Parts
  BY <1>1, PartsAccount DEF IInv
<1>7. InQueue' = InQueue /\ Working' = Working /\ Holding = {} /\ Holding' = {a}
      /\ Distinct' /\ leaked' = leaked
  BY <1>1, <1>2, <1>6, NoneIsNothing DEF InQueue, Working, Holding, Distinct, Parts
<1>8. Parts'
  BY <1>2, <1>5, <1>6, <1>7 DEF Parts
<1>9. QED
  BY <1>3, <1>4, <1>8, Handed

LEMMA SendKeeps == ASSUME IInv, Send PROVE IInv'
<1> USE DEF Send
<1>1. /\ queue \in Seq(Messages) /\ image \in Addresses /\ main = "send"
      /\ image # None
  BY NoneIsNothing DEF IInv, TypeOK
<1> DEFINE m == [address |-> image, own |-> TRUE]
<1>2. m \in Messages /\ m.address = image /\ m.own
  BY <1>1 DEF Messages
<1> HIDE DEF m
<1>3. queue' = Append(queue, m)
  BY DEF m
<1>4. /\ queue' \in Seq(Messages) /\ Len(queue') = Len(queue) + 1
      /\ DOMAIN queue' = 1..(Len(queue) + 1) /\ DOMAIN queue = 1..Len(queue)
      /\ Len(queue) \in Nat
      /\ \A i \in 1..Len(queue) : queue'[i] = queue[i]
      /\ queue'[Len(queue) + 1] = m
  BY <1>1, <1>2, <1>3, Appended
<1>5. Len(queue') <= MAX_MQ_MSG_CNT
  BY <1>4, QueueAssumption
<1>6. TypeOK'
  BY <1>1, <1>4, <1>5 DEF process, driver, IInv, TypeOK, Messages
<1>7. HasPictures'
  BY DEF driver, IInv, HasPictures
<1>8. OnlyOwnAddresses'
  <2>1. \A i \in 1..Len(queue) : queue[i].own
    BY <1>1, <1>4 DEF IInv, OnlyOwnAddresses
  <2>2. cnn_data # None => cnn_data.own
    BY <1>1 DEF IInv, OnlyOwnAddresses
  <2>3. \A i \in 1..(Len(queue) + 1) : queue'[i].own
    <3>1. TAKE i \in 1..(Len(queue) + 1)
    <3>2. i \in 1..Len(queue) \/ i = Len(queue) + 1
      BY <1>4
    <3>3. QED
      BY <1>2, <1>4, <2>1, <3>2
  <2>4. QED
    BY <1>4, <2>2, <2>3 DEF OnlyOwnAddresses
<1>9. Parts
  BY <1>1, PartsAccount DEF IInv
<1>10. InQueue' = InQueue \cup {image}
  <2>1. ASSUME NEW a \in InQueue' PROVE a \in InQueue \cup {image}
    <3>1. PICK i \in 1..(Len(queue) + 1) : a = queue'[i].address
      BY <1>4, <2>1 DEF InQueue
    <3>2. i \in 1..Len(queue) \/ i = Len(queue) + 1
      BY <1>4
    <3>3. QED
      BY <1>2, <1>4, <3>1, <3>2 DEF InQueue
  <2>2. ASSUME NEW a \in InQueue PROVE a \in InQueue'
    <3>1. PICK i \in 1..Len(queue) : a = queue[i].address
      BY <1>4, <2>2 DEF InQueue
    <3>2. i \in 1..(Len(queue) + 1) /\ queue'[i] = queue[i]
      BY <1>4
    <3>3. QED
      BY <1>4, <3>1, <3>2 DEF InQueue
  <2>3. image \in InQueue'
    <3>1. Len(queue) + 1 \in 1..(Len(queue) + 1)
      BY <1>4
    <3>2. QED
      BY <1>2, <1>4, <3>1 DEF InQueue
  <2>4. QED
    BY <2>1, <2>2, <2>3
<1>11. Working' = Working /\ Holding = {image} /\ Holding' = {} /\ leaked' = leaked
       /\ Allocated' = Allocated
  BY <1>1 DEF Working, Holding, Allocated
<1>12. Distinct'
  <2>1. \A i \in 1..Len(queue) : queue[i].address # image
    BY <1>4, <1>9, <1>11 DEF Parts, InQueue
  <2>2. \A i, j \in 1..Len(queue) : queue[i].address = queue[j].address => i = j
    BY <1>4, <1>9 DEF Parts, Distinct
  <2>3. ASSUME NEW i \in 1..(Len(queue) + 1), NEW j \in 1..(Len(queue) + 1),
               queue'[i].address = queue'[j].address
        PROVE  i = j
    <3>1. i \in 1..Len(queue) \/ i = Len(queue) + 1
      BY <1>4
    <3>2. j \in 1..Len(queue) \/ j = Len(queue) + 1
      BY <1>4
    <3>3. QED
      BY <1>2, <1>4, <2>1, <2>2, <2>3, <3>1, <3>2
  <2>4. QED
    BY <1>4, <2>3 DEF Distinct
<1>13. Parts'
  BY <1>9, <1>10, <1>11, <1>12 DEF Parts
<1>14. QED
  BY <1>6, <1>7, <1>8, <1>13, Handed

\* A failed or interrupted send forgets the address.
LEMMA ForgetKeeps ==
  ASSUME IInv, TypeOK', HasPictures', main = "send", main' # "down",
         image' = None, leaked' = leaked \cup {image},
         UNCHANGED <<queue, memory, cnn_data>>
  PROVE  IInv'
<1>1. image # None
  BY DEF IInv, TypeOK
<1>2. Parts
  BY PartsAccount DEF IInv
<1>3. InQueue' = InQueue /\ Working' = Working /\ Holding = {image} /\ Holding' = {}
      /\ Allocated' = Allocated /\ Distinct'
  BY <1>1, <1>2 DEF InQueue, Working, Holding, Allocated, Distinct, Parts
<1>4. Parts'
  BY <1>2, <1>3 DEF Parts
<1>5. OnlyOwnAddresses'
  BY DEF IInv, OnlyOwnAddresses
<1>6. QED
  BY <1>4, <1>5, Handed

LEMMA SendFailsKeeps == ASSUME IInv, SendFails PROVE IInv'
<1> USE DEF SendFails
<1>1. image \in Addresses /\ failures' \in 0..MaxFailures
  BY AddressesAssumption, NoneIsNothing DEF IInv, TypeOK
<1>2. TypeOK'
  BY <1>1 DEF driver, IInv, TypeOK
<1>3. HasPictures'
  BY DEF driver, IInv, HasPictures
<1>4. QED
  BY <1>2, <1>3, ForgetKeeps

LEMMA InterruptKeeps == ASSUME IInv, Interrupt PROVE IInv'
<1> USE DEF Interrupt
<1>1. HasPictures'
  BY DEF driver, IInv, HasPictures
<1>2. CASE main = "send" /\ Len(queue) = MAX_MQ_MSG_CNT
  <2>1. image \in Addresses
    BY <1>2, NoneIsNothing DEF IInv, TypeOK
  <2>2. TypeOK'
    BY <1>2, <2>1 DEF driver, IInv, TypeOK
  <2>3. QED
    BY <1>1, <1>2, <2>2, ForgetKeeps
<1>3. CASE ~(main = "send" /\ Len(queue) = MAX_MQ_MSG_CNT)
  <2>1. /\ main' \in {"draw", "stuck"} \/ main' = main
        /\ main' = main
             \/ {main, main'} \cap {"down", "convert", "send", "requeue"} = {}
        /\ UNCHANGED <<image, leaked>>
    BY <1>3
  <2>2. TypeOK'
    BY <2>1 DEF driver, IInv, TypeOK
  <2>3. main' # "down"
    BY <2>1
  <2>4. QED
    BY <1>1, <2>1, <2>2, <2>3, QuietKeeps
<1>4. QED
  BY <1>2, <1>3

LEMMA ReceiveKeeps == ASSUME IInv, Receive PROVE IInv'
<1> USE DEF Receive
<1>1. queue \in Seq(Messages) /\ cnn_data = None /\ main # "down"
  BY DEF IInv, TypeOK, Down
<1>2. /\ queue' \in Seq(Messages) /\ Len(queue') = Len(queue) - 1
      /\ Len(queue) \in Nat /\ Len(queue) >= 1
      /\ DOMAIN queue' = 1..(Len(queue) - 1) /\ DOMAIN queue = 1..Len(queue)
      /\ cnn_data' \in Messages /\ cnn_data' = queue[1]
      /\ \A i \in 1..(Len(queue) - 1) : queue'[i] = queue[i + 1]
  BY <1>1, Shortened
<1>3. Len(queue') <= MAX_MQ_MSG_CNT
  BY <1>2, QueueAssumption DEF IInv, TypeOK
<1>4. TypeOK'
  BY <1>2, <1>3, NoneIsNothing DEF process, driver, IInv, TypeOK, Messages
<1>5. HasPictures'
  BY DEF driver, IInv, HasPictures
<1>6. \A i \in 1..Len(queue) : queue[i].own
  BY <1>1, <1>2 DEF IInv, OnlyOwnAddresses
<1>7. OnlyOwnAddresses'
  BY <1>2, <1>6 DEF OnlyOwnAddresses
<1>8. Parts
  BY <1>1, PartsAccount DEF IInv
<1>9. cnn_data' # None
  BY <1>2, NoneIsNothing
<1>10. Working = {} /\ Working' = {queue[1].address} /\ Holding' = Holding
       /\ leaked' = leaked /\ Allocated' = Allocated
  BY <1>1, <1>2, <1>9 DEF Working, Holding, Allocated
<1>11. \A i, j \in 1..Len(queue) : queue[i].address = queue[j].address => i = j
  BY <1>2, <1>8 DEF Parts, Distinct
<1>12. InQueue' = InQueue \ {queue[1].address} /\ queue[1].address \in InQueue
  <2>1. ASSUME NEW a \in InQueue' PROVE a \in InQueue /\ a # queue[1].address
    <3>1. PICK i \in 1..(Len(queue) - 1) : a = queue'[i].address
      BY <1>2, <2>1 DEF InQueue
    <3>2. i + 1 \in 1..Len(queue) /\ i + 1 # 1 /\ a = queue[i + 1].address
      BY <1>2, <3>1
    <3>3. QED
      BY <1>2, <1>11, <3>2 DEF InQueue
  <2>2. ASSUME NEW a \in InQueue, a # queue[1].address PROVE a \in InQueue'
    <3>1. PICK i \in 1..Len(queue) : a = queue[i].address
      BY <1>2, <2>2 DEF InQueue
    <3>2. i - 1 \in 1..(Len(queue) - 1) /\ queue'[i - 1] = queue[i]
      BY <1>2, <2>2, <3>1
    <3>3. QED
      BY <1>2, <3>1, <3>2 DEF InQueue
  <2>3. queue[1].address \in InQueue
    BY <1>2 DEF InQueue
  <2>4. QED
    BY <2>1, <2>2, <2>3
<1>13. Distinct'
  <2>1. ASSUME NEW i \in 1..(Len(queue) - 1), NEW j \in 1..(Len(queue) - 1),
               queue'[i].address = queue'[j].address
        PROVE  i = j
    <3>1. i + 1 \in 1..Len(queue) /\ j + 1 \in 1..Len(queue)
      BY <1>2
    <3>2. i + 1 = j + 1
      BY <1>2, <1>11, <2>1, <3>1
    <3>3. QED
      BY <3>2
  <2>2. QED
    BY <1>2, <2>1 DEF Distinct
<1>14. Parts'
  BY <1>8, <1>10, <1>12, <1>13 DEF Parts
<1>15. QED
  BY <1>1, <1>4, <1>5, <1>7, <1>14, Handed

LEMMA RunKeeps == ASSUME IInv, Run PROVE IInv'
<1> USE DEF Run
<1>1. /\ cnn_data \in Messages /\ cnn_data # None /\ main # "down"
      /\ memory \in [Addresses -> Pictures \cup {None}]
  BY DEF IInv, TypeOK, Down
<1>2. cnn_data.address \in Addresses
  BY <1>1 DEF Messages
<1>3. TypeOK'
  BY <1>1, <1>2 DEF process, driver, IInv, TypeOK
<1>4. HasPictures' /\ OnlyOwnAddresses'
  BY <1>1 DEF driver, IInv, HasPictures, OnlyOwnAddresses
<1>5. Parts
  BY <1>1, PartsAccount DEF IInv
<1>6. Allocated' = Allocated \ {cnn_data.address}
  BY <1>1, <1>2 DEF Allocated
<1>7. InQueue' = InQueue /\ Working = {cnn_data.address} /\ Working' = {}
      /\ Holding' = Holding /\ leaked' = leaked /\ Distinct'
  BY <1>1, <1>5 DEF InQueue, Working, Holding, Distinct, Parts
<1>8. Parts'
  BY <1>5, <1>6, <1>7 DEF Parts
<1>9. QED
  BY <1>1, <1>3, <1>4, <1>8, Handed

LEMMA NextIInv == IInv /\ [Next]_vars => IInv'
<1>1. ASSUME IInv, UNCHANGED vars PROVE IInv'
  BY <1>1 DEF IInv, vars, process, driver, TypeOK, HasPictures, Down, OnlyOwnAddresses,
              MemoryIsAccountedFor, Allocated, InQueue
<1>2. QED
  BY <1>1, StartKeeps, GoneKeeps, InterruptKeeps, GoesOnKeeps, DequeueKeeps,
     ConvertKeeps, SendKeeps, SendFailsKeeps, RequeueKeeps, ReceiveKeeps, RunKeeps,
     FillKeeps DEF Next, MainStep, TaskStep, GoesOn, Kill, Join

(***************************************************************************)
(* The theorems.                                                           *)
(***************************************************************************)

LEMMA Invariant == Spec => []IInv
  BY InitIInv, NextIInv, PTL DEF Spec

\* The threads, the queue and the buffers keep their ranges through failures,
\* kills and restarts.
THEOREM TypeCorrect == Spec => []TypeOK
<1>1. IInv => TypeOK
  BY DEF IInv
<1>2. QED
  BY <1>1, Invariant, PTL

\* No address of a killed run reaches the network of the next.
THEOREM OwnAddressesOnly == Spec => []OnlyOwnAddresses
<1>1. IInv => OnlyOwnAddresses
  BY DEF IInv
<1>2. QED
  BY <1>1, Invariant, PTL

\* Every piece of memory is in one place, or forgotten by a failed send:
\* nothing is freed twice or used after it was freed.
THEOREM MemorySafety == Spec => []MemoryIsAccountedFor
<1>1. IInv => MemoryIsAccountedFor
  BY DEF IInv
<1>2. QED
  BY <1>1, Invariant, PTL

(***************************************************************************)
(* The age of a picture.                                                   *)
(***************************************************************************)

\* The remainder of a number that is off by one period at most.
LEMMA Remainder ==
  ASSUME NEW P \in Nat \ {0}, NEW x \in (-P)..(P - 1)
  PROVE  x % P = IF x >= 0 THEN x ELSE x + P
  OBVIOUS

\* How old picture p is when the next one has number c.
AgeAt(c, p) == (c - 1 - p) % PICTURES

\* The new picture has age 0, all others grow one older.
LEMMA AgeGrows ==
  ASSUME NEW c \in Pictures
  PROVE  /\ AgeAt((c + 1) % PICTURES, c) = 0
         /\ \A p \in Pictures : AgeAt(c, p) \in 0..(PICTURES - 1)
         /\ \A p \in Pictures : AgeAt(c, p) < PICTURES - 1
              => AgeAt((c + 1) % PICTURES, p) = AgeAt(c, p) + 1
<1> DEFINE next == (c + 1) % PICTURES
<1>1. PICTURES \in Nat \ {0} /\ c \in 0..(PICTURES - 1)
  BY PicturesAssumption DEF Pictures
<1>2. next = IF c = PICTURES - 1 THEN 0 ELSE c + 1
  BY <1>1
<1> HIDE DEF next
<1>3. next \in 0..(PICTURES - 1)
  BY <1>1, <1>2
<1>4. \A p, d \in 0..(PICTURES - 1) :
        AgeAt(d, p) = IF p < d THEN d - 1 - p ELSE d - 1 - p + PICTURES
  <2> TAKE p, d \in 0..(PICTURES - 1)
  <2>1. d - 1 - p \in (-PICTURES)..(PICTURES - 1)
    BY <1>1
  <2>2. (d - 1 - p) % PICTURES
          = IF d - 1 - p >= 0 THEN d - 1 - p ELSE d - 1 - p + PICTURES
    BY <1>1, <2>1, Remainder
  <2>3. QED
    BY <1>1, <2>2 DEF AgeAt
<1>5. AgeAt(next, c) = 0
  BY <1>1, <1>2, <1>3, <1>4
<1>6. \A p \in 0..(PICTURES - 1) : AgeAt(c, p) \in 0..(PICTURES - 1)
  BY <1>1, <1>4
<1>7. ASSUME NEW p \in 0..(PICTURES - 1), AgeAt(c, p) < PICTURES - 1
      PROVE  AgeAt(next, p) = AgeAt(c, p) + 1
  <2>1. /\ AgeAt(c, p) = IF p < c THEN c - 1 - p ELSE c - 1 - p + PICTURES
        /\ AgeAt(next, p)
             = IF p < next THEN next - 1 - p ELSE next - 1 - p + PICTURES
    BY <1>1, <1>3, <1>4
  <2>2. CASE c = PICTURES - 1
    BY <1>1, <1>2, <1>7, <2>1, <2>2
  <2>3. CASE c # PICTURES - 1
    BY <1>1, <1>2, <1>7, <2>1, <2>3
  <2>4. QED
    BY <2>2, <2>3
<1>8. QED
  BY <1>5, <1>6, <1>7 DEF next, Pictures

(***************************************************************************)
(* The buffers.                                                            *)
(***************************************************************************)

\* The buffer in the hand of the main thread.
InHand == IF held = None THEN 0 ELSE 1

\* Every buffer is with the driver, empty or full, or with the main thread: in
\* one place only. A buffer that could not be given back is in none.
BuffersInv ==
  /\ Len(filling) + Len(filled) + InHand <= VIDEO_BUFFER_NUM
  /\ \A i, j \in DOMAIN filling : filling[i] = filling[j] => i = j
  /\ \A i, j \in DOMAIN filled : filled[i] = filled[j] => i = j
  /\ \A i \in DOMAIN filling, j \in DOMAIN filled : filling[i] # filled[j]
  /\ \A i \in DOMAIN filling : filling[i] # held
  /\ \A i \in DOMAIN filled : filled[i] # held

LEMMA BuffersDown == ASSUME Down PROVE BuffersInv
<1>1. VIDEO_BUFFER_NUM \in Nat
  BY BuffersAssumption
<1>2. /\ filling = <<>> /\ filled = <<>> /\ held = None
      /\ Len(<<>>) = 0 /\ DOMAIN <<>> = {}
  BY DEF Down
<1>3. QED
  BY <1>1, <1>2 DEF BuffersInv, InHand

LEMMA BuffersGone == ASSUME Gone PROVE BuffersInv'
<1>1. VIDEO_BUFFER_NUM \in Nat
  BY BuffersAssumption
<1>2. /\ filling' = <<>> /\ filled' = <<>> /\ held' = None
      /\ Len(<<>>) = 0 /\ DOMAIN <<>> = {}
  BY DEF Gone
<1>3. QED
  BY <1>1, <1>2 DEF BuffersInv, InHand

LEMMA BuffersStart == ASSUME IInv, BuffersInv, Start PROVE BuffersInv'
<1>1. filled = <<>> /\ held = None /\ filled' = filled /\ held' = held
  BY DEF Start, IInv, Down
<1>2. VIDEO_BUFFER_NUM \in Nat
  BY BuffersAssumption
<1>3. filling' = [i \in 1..VIDEO_BUFFER_NUM |-> i - 1]
  BY DEF Start
<1>4. /\ DOMAIN filling' = 1..VIDEO_BUFFER_NUM /\ Len(filling') = VIDEO_BUFFER_NUM
      /\ \A i \in 1..VIDEO_BUFFER_NUM : filling'[i] = i - 1 /\ filling'[i] \in Buffers
  BY <1>2, <1>3 DEF Buffers
<1>5. Len(<<>>) = 0 /\ DOMAIN <<>> = {}
  OBVIOUS
<1>6. QED
  BY <1>1, <1>2, <1>4, <1>5, NoneIsNothing DEF BuffersInv, InHand

LEMMA BuffersDequeue == ASSUME IInv, BuffersInv, Dequeue PROVE BuffersInv'
<1> USE DEF Dequeue
<1>1. /\ filled \in Seq(Buffers) /\ filling' = filling /\ filling \in Seq(Buffers)
      /\ held = None
  BY DEF IInv, TypeOK
<1>2. /\ Len(filled) \in Nat /\ Len(filled) >= 1 /\ Len(filled') = Len(filled) - 1
      /\ DOMAIN filled' = 1..(Len(filled) - 1) /\ DOMAIN filled = 1..Len(filled)
      /\ held' \in Buffers /\ held' = filled[1]
      /\ \A i \in 1..(Len(filled) - 1) : filled'[i] = filled[i + 1]
  BY <1>1, Shortened
<1>3. Len(filling) \in Nat /\ VIDEO_BUFFER_NUM \in Nat
  BY <1>1, BuffersAssumption
<1>4. InHand = 0 /\ InHand' = 1
  BY <1>1, <1>2, NoneIsNothing DEF InHand
<1>5. Len(filling') + Len(filled') + InHand' <= VIDEO_BUFFER_NUM
  BY <1>1, <1>2, <1>3, <1>4 DEF BuffersInv
<1>6. \A i \in 1..(Len(filled) - 1) : i + 1 \in 1..Len(filled) /\ i + 1 # 1
  BY <1>2
<1>7. 1 \in 1..Len(filled)
  BY <1>2
<1>8. \A i, j \in 1..Len(filled) : filled[i] = filled[j] => i = j
  BY <1>2 DEF BuffersInv
<1>9. \A i, j \in 1..(Len(filled) - 1) : filled'[i] = filled'[j] => i = j
  <2> TAKE i, j \in 1..(Len(filled) - 1)
  <2>1. filled'[i] = filled'[j] => i + 1 = j + 1
    BY <1>2, <1>6, <1>8
  <2>2. QED
    BY <2>1
<1>10. \A i \in 1..(Len(filled) - 1) : filled'[i] # held'
  BY <1>2, <1>6, <1>7, <1>8
<1>11. \A i \in DOMAIN filling, j \in 1..Len(filled) : filling[i] # filled[j]
  BY <1>2 DEF BuffersInv
<1>12. QED
  BY <1>1, <1>2, <1>5, <1>6, <1>7, <1>9, <1>10, <1>11 DEF BuffersInv

LEMMA BuffersRequeue == ASSUME IInv, BuffersInv, Requeue PROVE BuffersInv'
<1> USE DEF Requeue
<1>1. /\ filling \in Seq(Buffers) /\ held \in Buffers /\ filled' = filled
      /\ held # None /\ held' = None /\ filled \in Seq(Buffers)
  BY DEF IInv, TypeOK
<1>2. /\ Len(filling') = Len(filling) + 1 /\ Len(filling) \in Nat
      /\ DOMAIN filling' = 1..(Len(filling) + 1) /\ DOMAIN filling = 1..Len(filling)
      /\ \A i \in 1..Len(filling) : filling'[i] = filling[i]
      /\ filling'[Len(filling) + 1] = held
      /\ filling' \in Seq(Buffers)
  BY <1>1, Appended
<1>3. Len(filled) \in Nat /\ VIDEO_BUFFER_NUM \in Nat
  BY <1>1, BuffersAssumption
<1>4. InHand = 1 /\ InHand' = 0
  BY <1>1 DEF InHand
<1>5. Len(filling') + Len(filled') + InHand' <= VIDEO_BUFFER_NUM
  BY <1>1, <1>2, <1>3, <1>4 DEF BuffersInv
<1>6. \A i \in 1..(Len(filling) + 1) : i \in 1..Len(filling) \/ i = Len(filling) + 1
  BY <1>2
<1>7. /\ \A i, j \in 1..Len(filling) : filling[i] = filling[j] => i = j
      /\ \A i \in 1..Len(filling), j \in DOMAIN filled : filling[i] # filled[j]
      /\ \A i \in 1..Len(filling) : filling[i] # held
      /\ \A j \in DOMAIN filled : filled[j] # held
  BY <1>2 DEF BuffersInv
<1>8. \A i, j \in 1..(Len(filling) + 1) : filling'[i] = filling'[j] => i = j
  BY <1>2, <1>6, <1>7
<1>9. \A i \in 1..(Len(filling) + 1), j \in DOMAIN filled : filling'[i] # filled[j]
  BY <1>2, <1>6, <1>7
<1>10. /\ \A i \in 1..(Len(filling) + 1) : filling'[i] # None
       /\ \A j \in DOMAIN filled : filled[j] # None
  <2>1. /\ \A i \in 1..(Len(filling) + 1) : filling'[i] \in Buffers
        /\ \A j \in DOMAIN filled : filled[j] \in Buffers
    BY <1>1, <1>2
  <2>2. QED
    BY <2>1, NoneIsNothing
<1>11. \A i, j \in DOMAIN filled : filled[i] = filled[j] => i = j
  BY DEF BuffersInv
<1>12. QED
  BY <1>1, <1>2, <1>5, <1>8, <1>9, <1>10, <1>11 DEF BuffersInv

LEMMA BuffersRequeueFails ==
  ASSUME IInv, BuffersInv, RequeueFails PROVE BuffersInv'
<1> USE DEF RequeueFails
<1>1. /\ filling \in Seq(Buffers) /\ filled \in Seq(Buffers) /\ held # None
      /\ held' = None /\ filling' = filling /\ filled' = filled
  BY DEF IInv, TypeOK, driver
<1>2. Len(filling) \in Nat /\ Len(filled) \in Nat /\ VIDEO_BUFFER_NUM \in Nat
  BY <1>1, BuffersAssumption
<1>3. InHand = 1 /\ InHand' = 0
  BY <1>1 DEF InHand
<1>4. Len(filling') + Len(filled') + InHand' <= VIDEO_BUFFER_NUM
  BY <1>1, <1>2, <1>3 DEF BuffersInv
<1>5. /\ \A i \in DOMAIN filling : filling[i] # None
      /\ \A j \in DOMAIN filled : filled[j] # None
  <2>1. /\ \A i \in DOMAIN filling : filling[i] \in Buffers
        /\ \A j \in DOMAIN filled : filled[j] \in Buffers
    BY <1>1
  <2>2. QED
    BY <2>1, NoneIsNothing
<1>6. QED
  BY <1>1, <1>4, <1>5 DEF BuffersInv

LEMMA BuffersFill == ASSUME IInv, BuffersInv, Fill PROVE BuffersInv'
<1> USE DEF Fill
<1>1. filling \in Seq(Buffers) /\ filled \in Seq(Buffers) /\ held' = held
  BY DEF IInv, TypeOK
<1>2. /\ Len(filling) \in Nat /\ Len(filling) >= 1 /\ Len(filling') = Len(filling) - 1
      /\ DOMAIN filling' = 1..(Len(filling) - 1) /\ DOMAIN filling = 1..Len(filling)
      /\ Head(filling) \in Buffers /\ Head(filling) = filling[1]
      /\ \A i \in 1..(Len(filling) - 1) : filling'[i] = filling[i + 1]
  BY <1>1, Shortened
<1>3. /\ Len(filled') = Len(filled) + 1 /\ Len(filled) \in Nat
      /\ DOMAIN filled' = 1..(Len(filled) + 1) /\ DOMAIN filled = 1..Len(filled)
      /\ \A i \in 1..Len(filled) : filled'[i] = filled[i]
      /\ filled'[Len(filled) + 1] = filling[1]
  BY <1>1, <1>2, Appended
<1>4. InHand' = InHand /\ InHand \in Nat /\ VIDEO_BUFFER_NUM \in Nat
  BY <1>1, BuffersAssumption DEF InHand
<1>5. Len(filling') + Len(filled') + InHand' <= VIDEO_BUFFER_NUM
  BY <1>2, <1>3, <1>4 DEF BuffersInv
<1>6. /\ \A i \in 1..(Len(filled) + 1) : i \in 1..Len(filled) \/ i = Len(filled) + 1
      /\ \A i \in 1..(Len(filling) - 1) : i + 1 \in 1..Len(filling) /\ i + 1 # 1
      /\ 1 \in 1..Len(filling)
  BY <1>2, <1>3
<1>7. /\ \A i, j \in 1..Len(filling) : filling[i] = filling[j] => i = j
      /\ \A i, j \in 1..Len(filled) : filled[i] = filled[j] => i = j
      /\ \A i \in 1..Len(filling), j \in 1..Len(filled) : filling[i] # filled[j]
      /\ \A i \in 1..Len(filling) : filling[i] # held
      /\ \A j \in 1..Len(filled) : filled[j] # held
  BY <1>2, <1>3 DEF BuffersInv
<1>8. \A i, j \in 1..(Len(filling) - 1) : filling'[i] = filling'[j] => i = j
  <2> TAKE i, j \in 1..(Len(filling) - 1)
  <2>1. filling'[i] = filling'[j] => i + 1 = j + 1
    BY <1>2, <1>6, <1>7
  <2>2. QED
    BY <2>1
<1>9. \A i, j \in 1..(Len(filled) + 1) : filled'[i] = filled'[j] => i = j
  BY <1>3, <1>6, <1>7
<1>10. \A i \in 1..(Len(filling) - 1), j \in 1..(Len(filled) + 1) :
         filling'[i] # filled'[j]
  BY <1>2, <1>3, <1>6, <1>7
<1>11. /\ \A i \in 1..(Len(filling) - 1) : filling'[i] # held'
       /\ \A j \in 1..(Len(filled) + 1) : filled'[j] # held'
  BY <1>1, <1>2, <1>3, <1>6, <1>7
<1>12. QED
  BY <1>2, <1>3, <1>5, <1>8, <1>9, <1>10, <1>11 DEF BuffersInv

\* A buffer that render works on is not filled meanwhile.
LEMMA BuffersInOnePlace == Spec => []BuffersInv
<1>1. Init => BuffersInv
  BY BuffersDown DEF Init
<1>2. IInv /\ BuffersInv /\ [Next]_vars => BuffersInv'
  <2> SUFFICES ASSUME IInv, BuffersInv, [Next]_vars PROVE BuffersInv'
    OBVIOUS
  <2>1. CASE UNCHANGED <<filling, filled, held>>
    BY <2>1 DEF BuffersInv, InHand
  <2>2. CASE Start
    BY <2>2, BuffersStart
  <2>3. CASE Kill \/ Join
    BY <2>3, BuffersGone DEF Kill, Join
  <2>4. CASE Dequeue \/ Requeue \/ RequeueFails \/ Fill
    BY <2>4, BuffersDequeue, BuffersRequeue, BuffersRequeueFails, BuffersFill
  <2>5. QED
    BY <2>1, <2>2, <2>3, <2>4
    DEF Next, MainStep, TaskStep, Interrupt, CompositorLost, FrameDue, DequeueFails,
        Convert, Send, SendFails, Broadcast, EndFrame, Check, Receive, ReceiveFails, Run,
        driver, vars
<1>3. QED
  BY <1>1, <1>2, Invariant, PTL DEF Spec

(***************************************************************************)
(* The order of the pictures.  The line of pictures, from the oldest to the*)
(* youngest, is: what the network works on, the queue, what render holds,  *)
(* the full buffers.                                                       *)
(***************************************************************************)

\* Taken from the driver, not yet sent; all that is not yet sent; what failed
\* or interrupted calls may have lost since the start.
Sending == main \in {"convert", "send"}
Unsent == Len(filled) + (IF Sending THEN 1 ELSE 0)
Lost == failures + (IF interrupted THEN 1 ELSE 0)
Queued(i) == memory[queue[i].address]

\* The driver hands over every picture in turn, the last one captured last.
FilledInv ==
  \A j \in DOMAIN filled : AgeAt(captured, picture[filled[j]]) = Len(filled) - j

\* The picture render works on is the next older one.
SendingInv ==
  /\ Sending => picture[held] = taken /\ AgeAt(captured, taken) = Len(filled)
  /\ main = "send" => memory[image] = taken

\* What was sent is older than what was not, and by no more than what was sent
\* after it or lost: that is why no picture number comes round again.
QueueInv ==
  /\ \A i \in DOMAIN queue :
       AgeAt(captured, Queued(i)) \in Unsent..(Unsent + Len(queue) - i + Lost)
  /\ \A i, j \in DOMAIN queue : i < j => AgeAt(captured, Queued(i)) > AgeAt(captured, Queued(j))

WorkInv ==
  cnn_data # None =>
    /\ AgeAt(captured, memory[cnn_data.address]) \in Unsent..(Unsent + Len(queue) + Lost)
    /\ \A i \in DOMAIN queue : AgeAt(captured, memory[cnn_data.address]) > AgeAt(captured, Queued(i))

OrderInv == main # "down" => FilledInv /\ SendingInv /\ QueueInv /\ WorkInv

\* What the invariants say about what is in use.
LEMMA InUse ==
  ASSUME IInv, BuffersInv, main # "down"
  PROVE  /\ Len(filling) \in Nat /\ Len(filled) \in Nat /\ Len(queue) \in Nat
         /\ Len(filled) + (IF Sending THEN 1 ELSE 0) + Len(filling) <= VIDEO_BUFFER_NUM
         /\ Len(queue) <= MAX_MQ_MSG_CNT
         /\ Lost \in 0..(MaxFailures + 1) /\ Unsent \in Nat
         /\ DOMAIN filled = 1..Len(filled) /\ DOMAIN queue = 1..Len(queue)
         /\ \A j \in 1..Len(filled) : filled[j] \in Buffers /\ picture[filled[j]] \in Pictures
         /\ Sending => held \in Buffers /\ held # None /\ picture[held] \in Pictures
         /\ \A i \in 1..Len(queue) :
              queue[i] \in Messages /\ queue[i].address \in Addresses /\ Queued(i) \in Pictures
         /\ cnn_data # None => /\ cnn_data \in Messages /\ cnn_data.address \in Addresses
                               /\ memory[cnn_data.address] \in Pictures
<1>1. /\ filling \in Seq(Buffers) /\ filled \in Seq(Buffers) /\ queue \in Seq(Messages)
      /\ Len(queue) <= MAX_MQ_MSG_CNT /\ failures \in 0..MaxFailures
      /\ memory \in [Addresses -> Pictures \cup {None}]
      /\ held \in Buffers \cup {None} /\ cnn_data \in Messages \cup {None}
      /\ held # None <=> main \in {"convert", "send", "requeue"}
  BY DEF IInv, TypeOK
<1>2. /\ Len(filling) \in Nat /\ Len(filled) \in Nat /\ Len(queue) \in Nat
      /\ DOMAIN filled = 1..Len(filled) /\ DOMAIN queue = 1..Len(queue)
      /\ VIDEO_BUFFER_NUM \in Nat /\ MaxFailures \in Nat
  BY <1>1, BuffersAssumption, AddressesAssumption
<1>3. Len(filled) + (IF Sending THEN 1 ELSE 0) + Len(filling) <= VIDEO_BUFFER_NUM
  BY <1>1, <1>2 DEF BuffersInv, InHand, Sending
<1>4. Lost \in 0..(MaxFailures + 1) /\ Unsent \in Nat
  BY <1>1, <1>2 DEF Lost, Unsent
<1>5. \A j \in 1..Len(filled) : filled[j] \in Buffers /\ picture[filled[j]] \in Pictures
  <2>1. \A j \in 1..Len(filled) : filled[j] \in Buffers
    BY <1>1, <1>2
  <2>2. \A j \in 1..Len(filled) : picture[filled[j]] \in Pictures
    BY <1>2 DEF IInv, HasPictures
  <2>3. QED
    BY <2>1, <2>2
<1>6. Sending => held \in Buffers /\ held # None /\ picture[held] \in Pictures
  BY <1>1 DEF IInv, HasPictures, Sending
<1>7. Parts
  BY PartsAccount DEF IInv
<1>8. \A a \in Allocated : a \in Addresses /\ memory[a] \in Pictures
  BY <1>1 DEF Allocated
<1>9. \A i \in 1..Len(queue) :
        queue[i] \in Messages /\ queue[i].address \in Addresses /\ Queued(i) \in Pictures
  <2> TAKE i \in 1..Len(queue)
  <2>1. queue[i] \in Messages
    BY <1>1, <1>2
  <2>2. queue[i].address \in Allocated
    BY <1>2, <1>7 DEF Parts, InQueue
  <2>3. QED
    BY <2>1, <2>2, <1>8 DEF Queued
<1>10. cnn_data # None => /\ cnn_data \in Messages /\ cnn_data.address \in Addresses
                          /\ memory[cnn_data.address] \in Pictures
  BY <1>1, <1>7, <1>8 DEF Parts, Working
<1>11. QED
  BY <1>1, <1>2, <1>3, <1>4, <1>5, <1>6, <1>9, <1>10

\* A capture makes every picture one older, and none so old that its number
\* is used again.
LEMMA OrderFill ==
  ASSUME IInv, IInv', BuffersInv, OrderInv, Fill PROVE OrderInv'
<1> USE DEF Fill
<1>1. /\ main # "down" /\ main' = main /\ held' = held /\ taken' = taken
      /\ UNCHANGED <<memory, queue, cnn_data, image, failures, interrupted>>
      /\ captured \in Pictures /\ captured' = (captured + 1) % PICTURES
      /\ filling \in Seq(Buffers) /\ filled \in Seq(Buffers)
      /\ picture \in [Buffers -> Pictures \cup {None}]
  BY DEF IInv, TypeOK, process
<1>2. /\ Len(filling) \in Nat /\ Len(filling) >= 1 /\ DOMAIN filling = 1..Len(filling)
      /\ Head(filling) \in Buffers /\ Head(filling) = filling[1]
      /\ 1 \in 1..Len(filling)
  BY <1>1, Shortened
<1>3. /\ Len(filled') = Len(filled) + 1 /\ Len(filled) \in Nat
      /\ DOMAIN filled' = 1..(Len(filled) + 1) /\ DOMAIN filled = 1..Len(filled)
      /\ \A i \in 1..Len(filled) : filled'[i] = filled[i]
      /\ filled'[Len(filled) + 1] = filling[1]
  BY <1>1, <1>2, Appended
<1>4. /\ \A j \in 1..Len(filled) : filled[j] # filling[1]
      /\ filling[1] # held
  BY <1>2, <1>3 DEF BuffersInv
<1>5. /\ picture'[filling[1]] = captured
      /\ \A b \in Buffers : b # filling[1] => picture'[b] = picture[b]
  BY <1>1, <1>2
<1>6. /\ AgeAt(captured', captured) = 0
      /\ \A p \in Pictures : AgeAt(captured, p) \in 0..(PICTURES - 1)
      /\ \A p \in Pictures : AgeAt(captured, p) < PICTURES - 1
              => AgeAt(captured', p) = AgeAt(captured, p) + 1
  BY <1>1, AgeGrows
<1>7. Unsent' = Unsent + 1 /\ Lost' = Lost
  BY <1>1, <1>3 DEF Unsent, Lost, Sending
<1>8. Unsent + Len(queue) + Lost < PICTURES - 1 /\ Len(filled) < PICTURES - 1
  BY <1>1, <1>2, InUse, PicturesAssumption, BuffersAssumption, QueueAssumption,
     AddressesAssumption DEF Unsent
<1>9. FilledInv'
  <2>1. \A j \in 1..Len(filled) :
          AgeAt(captured', picture'[filled'[j]]) = Len(filled) + 1 - j
    <3> TAKE j \in 1..Len(filled)
    <3>1. /\ picture[filled[j]] \in Pictures /\ filled[j] \in Buffers
          /\ AgeAt(captured, picture[filled[j]]) = Len(filled) - j
      BY <1>1, <1>3, InUse DEF OrderInv, FilledInv
    <3>2. picture'[filled'[j]] = picture[filled[j]]
      BY <1>3, <1>4, <1>5, <3>1
    <3>3. Len(filled) - j < PICTURES - 1
      BY <1>3, <1>8, PicturesAssumption
    <3>4. QED
      BY <1>3, <1>6, <3>1, <3>2, <3>3
  <2>2. AgeAt(captured', picture'[filled'[Len(filled) + 1]]) = 0
    BY <1>3, <1>5, <1>6
  <2>3. QED
    BY <1>3, <2>1, <2>2 DEF FilledInv
<1>10. SendingInv'
  <2>1. ASSUME Sending
        PROVE  picture'[held] = taken /\ AgeAt(captured', taken) = Len(filled) + 1
    <3>1. /\ held \in Buffers /\ picture[held] \in Pictures /\ picture[held] = taken
          /\ AgeAt(captured, taken) = Len(filled)
      BY <1>1, <2>1, InUse DEF OrderInv, SendingInv
    <3>2. picture'[held] = picture[held]
      BY <1>4, <1>5, <3>1
    <3>3. QED
      BY <1>6, <1>8, <3>1, <3>2
  <2>2. main = "send" => memory[image] = taken
    BY <1>1 DEF OrderInv, SendingInv
  <2>3. QED
    BY <1>1, <1>3, <2>1, <2>2 DEF SendingInv, Sending
<1>11. ASSUME NEW p \in Pictures, NEW h \in 0..(Unsent + Len(queue) + Lost),
              AgeAt(captured, p) \in Unsent..h
       PROVE  /\ AgeAt(captured', p) = AgeAt(captured, p) + 1
              /\ AgeAt(captured', p) \in (Unsent + 1)..(h + 1)
  <2>1. Unsent \in Nat /\ Len(queue) \in Nat /\ Lost \in Nat
    BY <1>1, InUse
  <2>2. AgeAt(captured, p) < PICTURES - 1
    BY <1>8, <1>11, <2>1, PicturesAssumption
  <2>3. QED
    BY <1>6, <1>11, <2>1, <2>2
<1>12. /\ Unsent \in Nat /\ Len(queue) \in Nat /\ Lost \in Nat
       /\ DOMAIN queue = 1..Len(queue)
  BY <1>1, InUse
<1>13. /\ \A i \in 1..Len(queue) :
            /\ Queued(i) \in Pictures
            /\ AgeAt(captured, Queued(i)) \in Unsent..(Unsent + Len(queue) - i + Lost)
       /\ \A i, j \in 1..Len(queue) :
            i < j => AgeAt(captured, Queued(i)) > AgeAt(captured, Queued(j))
  BY <1>1, InUse DEF OrderInv, QueueInv
<1>14. \A i \in 1..Len(queue) :
         /\ AgeAt(captured', Queued(i)) = AgeAt(captured, Queued(i)) + 1
         /\ AgeAt(captured', Queued(i))
              \in (Unsent + 1)..(Unsent + Len(queue) - i + Lost + 1)
  <2> TAKE i \in 1..Len(queue)
  <2>1. Unsent + Len(queue) - i + Lost \in 0..(Unsent + Len(queue) + Lost)
    BY <1>12
  <2>2. QED
    BY <1>11, <1>13, <2>1
<1>15. QueueInv'
  <2>1. \A i \in 1..Len(queue) :
          AgeAt(captured', Queued(i)) \in Unsent'..(Unsent' + Len(queue) - i + Lost')
    <3> TAKE i \in 1..Len(queue)
    <3>1. Unsent + Len(queue) - i + Lost + 1 = Unsent' + Len(queue) - i + Lost'
      BY <1>7, <1>12
    <3>2. QED
      BY <1>7, <1>14, <3>1
  <2>2. \A i, j \in 1..Len(queue) :
          i < j => AgeAt(captured', Queued(i)) > AgeAt(captured', Queued(j))
    <3> TAKE i, j \in 1..Len(queue)
    <3>1. AgeAt(captured, Queued(i)) \in Int /\ AgeAt(captured, Queued(j)) \in Int
      BY <1>6, <1>13
    <3>2. QED
      BY <1>13, <1>14, <3>1
  <2>3. QED
    BY <1>1, <1>12, <2>1, <2>2 DEF QueueInv, Queued
<1>16. WorkInv'
  <2> SUFFICES ASSUME cnn_data # None
               PROVE  /\ AgeAt(captured', memory[cnn_data.address])
                           \in Unsent'..(Unsent' + Len(queue) + Lost')
                      /\ \A i \in 1..Len(queue) :
                           AgeAt(captured', memory[cnn_data.address])
                             > AgeAt(captured', Queued(i))
    BY <1>1, <1>12 DEF WorkInv, Queued
  <2> DEFINE w == memory[cnn_data.address]
  <2>1. /\ w \in Pictures /\ AgeAt(captured, w) \in Unsent..(Unsent + Len(queue) + Lost)
        /\ \A i \in 1..Len(queue) : AgeAt(captured, w) > AgeAt(captured, Queued(i))
    BY <1>1, <1>12, InUse DEF OrderInv, WorkInv
  <2> HIDE DEF w
  <2>2. Unsent + Len(queue) + Lost \in 0..(Unsent + Len(queue) + Lost)
    BY <1>12
  <2>3. /\ AgeAt(captured', w) = AgeAt(captured, w) + 1
        /\ AgeAt(captured', w) \in (Unsent + 1)..(Unsent + Len(queue) + Lost + 1)
    BY <1>11, <2>1, <2>2
  <2>4. AgeAt(captured', w) \in Unsent'..(Unsent' + Len(queue) + Lost')
    BY <1>7, <1>12, <2>3
  <2>5. \A i \in 1..Len(queue) : AgeAt(captured', w) > AgeAt(captured', Queued(i))
    <3> TAKE i \in 1..Len(queue)
    <3>1. /\ AgeAt(captured, w) \in Int /\ AgeAt(captured, Queued(i)) \in Int
          /\ AgeAt(captured, w) > AgeAt(captured, Queued(i))
      BY <1>6, <1>13, <2>1
    <3>2. QED
      BY <1>14, <2>3, <3>1
  <2>6. QED
    BY <2>4, <2>5 DEF w
<1>17. QED
  BY <1>9, <1>10, <1>15, <1>16 DEF OrderInv

\* A step keeps the order of what has been sent if it touches neither the queue
\* nor the pictures in it, and if what is no longer to be sent counts as lost.
LEMMA SentKept ==
  ASSUME IInv, BuffersInv, OrderInv, main # "down",
         UNCHANGED <<captured, queue>>, cnn_data' \in {cnn_data, None},
         \A i \in DOMAIN queue : Queued(i)' = Queued(i),
         cnn_data' # None => memory'[cnn_data.address] = memory[cnn_data.address],
         NEW u \in 0..Unsent, Unsent' = u, NEW l \in Nat, Lost' = l,
         Unsent + Lost <= u + l
  PROVE  QueueInv' /\ WorkInv'
<1>1. /\ Unsent \in Nat /\ Len(queue) \in Nat /\ Lost \in Nat
      /\ DOMAIN queue = 1..Len(queue)
  BY InUse
<1>2. ASSUME NEW n \in Nat, NEW a \in Unsent..(Unsent + n + Lost)
      PROVE  a \in u..(u + n + l)
  BY <1>1
<1>3. QueueInv /\ WorkInv
  BY DEF OrderInv
<1>4. ASSUME NEW i \in 1..Len(queue)
      PROVE  AgeAt(captured, Queued(i)) \in u..(u + Len(queue) - i + l)
  <2>1. AgeAt(captured, Queued(i)) \in Unsent..(Unsent + (Len(queue) - i) + Lost)
    BY <1>1, <1>3 DEF QueueInv
  <2>2. Len(queue) - i \in Nat
    BY <1>1
  <2>3. QED
    BY <1>1, <1>2, <2>1, <2>2
<1>5. \A i \in 1..Len(queue) : memory'[queue[i].address] = Queued(i)
  BY <1>1 DEF Queued
<1>6. QueueInv'
  BY <1>1, <1>3, <1>4, <1>5 DEF QueueInv, Queued
<1>7. WorkInv'
  <2> SUFFICES ASSUME cnn_data' # None
               PROVE  /\ AgeAt(captured, memory[cnn_data.address])
                           \in u..(u + Len(queue) + l)
                      /\ \A i \in 1..Len(queue) :
                           AgeAt(captured, memory[cnn_data.address])
                             > AgeAt(captured, Queued(i))
    BY <1>1, <1>5 DEF WorkInv, Queued
  <2>1. /\ AgeAt(captured, memory[cnn_data.address]) \in Unsent..(Unsent + Len(queue) + Lost)
        /\ \A i \in 1..Len(queue) :
              AgeAt(captured, memory[cnn_data.address]) > AgeAt(captured, Queued(i))
    BY <1>1, <1>3 DEF WorkInv
  <2>2. QED
    BY <1>1, <1>2, <2>1
<1>8. QED
  BY <1>6, <1>7

\* The steps of the main thread that leave the driver and the queue alone, and
\* the end of the network's run.
LEMMA OrderKept ==
  ASSUME IInv, BuffersInv, OrderInv, main # "down",
         UNCHANGED <<filled, picture, captured, taken, queue>>,
         cnn_data' \in {cnn_data, None},
         \A i \in DOMAIN queue : Queued(i)' = Queued(i),
         cnn_data' # None => memory'[cnn_data.address] = memory[cnn_data.address],
         Lost' \in Nat, Sending' => Sending /\ held' = held,
         Sending /\ ~Sending' => Lost' = Lost + 1,
         Sending' \/ ~Sending => Lost' >= Lost,
         main' = "send" => memory'[image'] = taken
  PROVE  OrderInv'
<1>1. Len(filled) \in Nat /\ Lost \in Nat
  BY InUse
<1>2. PICK u, l : Unsent' = u /\ Lost' = l
  OBVIOUS
<1>3. u \in 0..Unsent /\ l \in Nat /\ Unsent + Lost <= u + l
  BY <1>1, <1>2 DEF Unsent
<1>4. QueueInv' /\ WorkInv'
  BY <1>2, <1>3, SentKept
<1>5. FilledInv'
  BY DEF OrderInv, FilledInv
<1>6. SendingInv'
  BY DEF OrderInv, SendingInv
<1>7. QED
  BY <1>4, <1>5, <1>6 DEF OrderInv

\* Losses are counted.
LEMMA LostCount == ASSUME IInv PROVE Lost \in Nat /\ failures \in Nat
<1>1. failures \in 0..MaxFailures /\ MaxFailures \in Nat
  BY AddressesAssumption DEF IInv, TypeOK
<1>2. QED
  BY <1>1 DEF Lost

LEMMA OrderQuiet ==
  ASSUME IInv, IInv', BuffersInv, OrderInv, main # "down",
         GoesOn \/ Requeue \/ RequeueFails
  PROVE  OrderInv'
<1> USE DEF GoesOn, FrameDue, CompositorLost, DequeueFails, Broadcast, EndFrame, Check,
            ReceiveFails, Requeue, RequeueFails
<1>1. /\ UNCHANGED <<filled, picture, captured, taken, queue, memory, cnn_data>>
      /\ Sending' <=> Sending
      /\ main' = "send" => main = "send" /\ image' = image
      /\ Sending' => held' = held
  BY DEF driver, Sending
<1>2. Lost' >= Lost /\ Lost' \in Nat
  BY LostCount DEF Lost, process
<1>3. main' = "send" => memory'[image'] = taken
  BY <1>1 DEF OrderInv, SendingInv
<1>4. QED
  BY <1>1, <1>2, <1>3, OrderKept DEF Queued

\* A failed send, or one that SIGINT interrupts, leaves a gap but no disorder.
LEMMA OrderForget ==
  ASSUME IInv, IInv', BuffersInv, OrderInv, main # "down",
         SendFails \/ Interrupt
  PROVE  OrderInv'
<1> USE DEF SendFails, Interrupt
<1>1. /\ UNCHANGED <<filled, picture, captured, taken, queue, memory, cnn_data, held>>
      /\ Sending' => Sending
      /\ main' = "send" => main = "send" /\ image' = image
  BY DEF driver, Sending
<1>2. Lost' \in Nat
  BY LostCount DEF Lost
<1>3. Sending /\ ~Sending' => Lost' = Lost + 1
  BY LostCount DEF Lost, Sending
<1>4. Lost' >= Lost
  BY LostCount DEF Lost
<1>5. main' = "send" => memory'[image'] = taken
  BY <1>1 DEF OrderInv, SendingInv
<1>6. QED
  BY <1>1, <1>2, <1>3, <1>4, <1>5, OrderKept DEF Queued

LEMMA OrderConvert ==
  ASSUME IInv, BuffersInv, OrderInv, main # "down", Convert PROVE OrderInv'
<1> USE DEF Convert
<1>1. /\ UNCHANGED <<filled, picture, captured, taken, queue, cnn_data, held>>
      /\ Sending /\ Sending' /\ Lost' = Lost
  BY DEF driver, process, Sending, Lost
<1>2. PICK a \in Addresses \ Allocated :
        image' = a /\ memory' = [memory EXCEPT ![a] = picture[held]]
  OBVIOUS
<1>3. /\ memory \in [Addresses -> Pictures \cup {None}]
      /\ DOMAIN queue = 1..Len(queue) /\ Parts
  BY InUse, PartsAccount DEF IInv, TypeOK
<1>4. \A b \in Allocated : memory'[b] = memory[b]
  BY <1>2, <1>3 DEF Allocated
<1>5. \A i \in DOMAIN queue : Queued(i)' = Queued(i)
  <2>1. \A i \in DOMAIN queue : queue[i].address \in Allocated
    BY <1>3 DEF Parts, InQueue
  <2>2. QED
    BY <1>1, <1>4, <2>1 DEF Queued
<1>6. cnn_data' # None => memory'[cnn_data.address] = memory[cnn_data.address]
  BY <1>1, <1>3, <1>4 DEF Parts, Working
<1>7. memory'[image'] = taken
  BY <1>1, <1>2, <1>3 DEF OrderInv, SendingInv
<1>8. QED
  BY <1>1, <1>5, <1>6, <1>7, LostCount, OrderKept

LEMMA OrderRun ==
  ASSUME IInv, BuffersInv, OrderInv, main # "down", Run PROVE OrderInv'
<1> USE DEF Run
<1>1. /\ UNCHANGED <<filled, picture, captured, taken, queue, held, main, image>>
      /\ Sending' = Sending /\ Lost' = Lost /\ cnn_data' = None
      /\ memory' = [memory EXCEPT ![cnn_data.address] = None]
  BY DEF driver, process, Sending, Lost
<1>2. cnn_data # None /\ DOMAIN queue = 1..Len(queue) /\ Parts
      /\ memory \in [Addresses -> Pictures \cup {None}]
  BY InUse, PartsAccount DEF IInv, TypeOK
<1>3. \A b \in Allocated : b # cnn_data.address => memory'[b] = memory[b]
  BY <1>1, <1>2 DEF Allocated
<1>4. \A i \in DOMAIN queue : Queued(i)' = Queued(i)
  <2>1. \A i \in DOMAIN queue :
          queue[i].address \in Allocated /\ queue[i].address # cnn_data.address
    BY <1>2 DEF Parts, InQueue, Working
  <2>2. QED
    BY <1>1, <1>3, <2>1 DEF Queued
<1>5. main = "send" => memory'[image] = taken
  <2>1. main = "send" => /\ image \in Allocated /\ image # cnn_data.address
                         /\ memory[image] = taken
    BY <1>2 DEF Parts, Working, Holding, IInv, TypeOK, OrderInv, SendingInv
  <2>2. QED
    BY <1>3, <2>1
<1>6. QED
  BY <1>1, <1>4, <1>5, LostCount, OrderKept

LEMMA OrderDequeue ==
  ASSUME IInv, BuffersInv, OrderInv, main # "down", Dequeue PROVE OrderInv'
<1> USE DEF Dequeue
<1>1. /\ UNCHANGED <<picture, captured, queue, memory, cnn_data>>
      /\ ~Sending /\ Sending' /\ Lost' = Lost /\ main' = "convert"
      /\ filled \in Seq(Buffers)
  BY DEF process, Sending, Lost, IInv, TypeOK
<1>2. /\ Len(filled) \in Nat /\ Len(filled) >= 1 /\ Len(filled') = Len(filled) - 1
      /\ DOMAIN filled' = 1..(Len(filled) - 1) /\ DOMAIN filled = 1..Len(filled)
      /\ held' = filled[1] /\ taken' = picture[filled[1]]
      /\ \A i \in 1..(Len(filled) - 1) : filled'[i] = filled[i + 1]
  BY <1>1, Shortened
<1>3. Unsent' = Unsent /\ Unsent \in Nat
  BY <1>1, <1>2 DEF Unsent
<1>4. QueueInv' /\ WorkInv'
  BY <1>1, <1>3, LostCount, SentKept DEF Queued
<1>5. \A j \in 1..Len(filled) : AgeAt(captured, picture[filled[j]]) = Len(filled) - j
  BY <1>2 DEF OrderInv, FilledInv
<1>6. FilledInv'
  <2>1. \A j \in 1..(Len(filled) - 1) :
          AgeAt(captured, picture[filled'[j]]) = Len(filled) - 1 - j
    <3> TAKE j \in 1..(Len(filled) - 1)
    <3>1. j + 1 \in 1..Len(filled) /\ filled'[j] = filled[j + 1]
      BY <1>2
    <3>2. QED
      BY <1>2, <1>5, <3>1
  <2>2. QED
    BY <1>1, <1>2, <2>1 DEF FilledInv
<1>7. SendingInv'
  <2>1. 1 \in 1..Len(filled)
    BY <1>2
  <2>2. QED
    BY <1>1, <1>2, <1>5, <2>1 DEF SendingInv
<1>8. QED
  BY <1>4, <1>6, <1>7 DEF OrderInv

LEMMA OrderSend ==
  ASSUME IInv, BuffersInv, OrderInv, main # "down", Send PROVE OrderInv'
<1> USE DEF Send
<1>1. /\ UNCHANGED <<filled, picture, captured, memory, cnn_data, taken>>
      /\ Sending /\ ~Sending' /\ Lost' = Lost /\ main' = "requeue"
      /\ queue \in Seq(Messages) /\ image \in Addresses /\ memory[image] = taken
      /\ AgeAt(captured, taken) = Len(filled)
  BY NoneIsNothing DEF driver, process, Sending, Lost, IInv, TypeOK, OrderInv, SendingInv
<1> DEFINE m == [address |-> image, own |-> TRUE]
<1>2. m \in Messages /\ m.address = image
  BY <1>1 DEF Messages
<1> HIDE DEF m
<1>3. queue' = Append(queue, m)
  BY DEF m
<1>4. /\ Len(queue') = Len(queue) + 1 /\ Len(queue) \in Nat
      /\ DOMAIN queue' = 1..(Len(queue) + 1) /\ DOMAIN queue = 1..Len(queue)
      /\ \A i \in 1..Len(queue) : queue'[i] = queue[i]
      /\ queue'[Len(queue) + 1] = m
  BY <1>1, <1>2, <1>3, Appended
<1>5. Len(filled) \in Nat /\ Lost \in Nat
  BY InUse, LostCount
<1>6. Unsent = Len(filled) + 1 /\ Unsent' = Len(filled)
  BY <1>1 DEF Unsent
<1>7. /\ \A i \in 1..Len(queue) :
           AgeAt(captured, Queued(i))
             \in (Len(filled) + 1)..(Len(filled) + 1 + Len(queue) - i + Lost)
      /\ \A i, j \in 1..Len(queue) :
           i < j => AgeAt(captured, Queued(i)) > AgeAt(captured, Queued(j))
  BY <1>4, <1>6 DEF OrderInv, QueueInv
<1>8. /\ \A i \in 1..Len(queue) : Queued(i)' = Queued(i)
      /\ memory'[queue'[Len(queue) + 1].address] = taken
  BY <1>1, <1>2, <1>4 DEF Queued
<1>9. \A i \in 1..(Len(queue) + 1) : i \in 1..Len(queue) \/ i = Len(queue) + 1
  BY <1>4
<1> DEFINE q(i) == memory'[queue'[i].address]
<1>10. /\ \A i \in 1..Len(queue) : q(i) = Queued(i)
       /\ q(Len(queue) + 1) = taken
  BY <1>8 DEF Queued
<1> HIDE DEF q
<1>11. \A i \in 1..(Len(queue) + 1) :
         AgeAt(captured, q(i)) \in Len(filled)..(Len(filled) + Len(queue) + 1 - i + Lost)
  <2> TAKE i \in 1..(Len(queue) + 1)
  <2>1. CASE i \in 1..Len(queue)
    <3>1. AgeAt(captured, q(i))
            \in (Len(filled) + 1)..(Len(filled) + 1 + Len(queue) - i + Lost)
      BY <1>7, <1>10, <2>1
    <3>2. QED
      BY <1>4, <1>5, <3>1
  <2>2. CASE i = Len(queue) + 1
    <3>1. AgeAt(captured, q(i)) = Len(filled)
      BY <1>1, <1>10, <2>2
    <3>2. QED
      BY <1>4, <1>5, <2>2, <3>1
  <2>3. QED
    BY <1>9, <2>1, <2>2
<1>12. \A i, j \in 1..(Len(queue) + 1) :
         i < j => AgeAt(captured, q(i)) > AgeAt(captured, q(j))
  <2> SUFFICES ASSUME NEW i \in 1..(Len(queue) + 1), NEW j \in 1..(Len(queue) + 1), i < j
               PROVE  AgeAt(captured, q(i)) > AgeAt(captured, q(j))
    OBVIOUS
  <2>1. i \in 1..Len(queue)
    BY <1>4
  <2>2. CASE j \in 1..Len(queue)
    BY <1>7, <1>10, <2>1, <2>2
  <2>3. CASE j = Len(queue) + 1
    <3>1. AgeAt(captured, q(j)) = Len(filled)
      BY <1>1, <1>10, <2>3
    <3>2. AgeAt(captured, q(i))
            \in (Len(filled) + 1)..(Len(filled) + 1 + Len(queue) - i + Lost)
      BY <1>7, <1>10, <2>1
    <3>3. QED
      BY <1>5, <3>1, <3>2
  <2>4. QED
    BY <1>9, <2>2, <2>3
<1>13. QueueInv'
  <2>1. \A i \in DOMAIN queue' :
          AgeAt(captured', q(i)) \in Unsent'..(Unsent' + Len(queue') - i + Lost')
    <3> TAKE i \in DOMAIN queue'
    <3>1. Unsent' + Len(queue') - i + Lost' = Len(filled) + Len(queue) + 1 - i + Lost
      BY <1>1, <1>4, <1>5, <1>6
    <3>2. QED
      BY <1>1, <1>4, <1>6, <1>11, <3>1
  <2>2. \A i, j \in DOMAIN queue' :
          i < j => AgeAt(captured', q(i)) > AgeAt(captured', q(j))
    BY <1>1, <1>4, <1>12
  <2>3. QED
    BY <2>1, <2>2, Zenon DEF QueueInv, Queued, q
<1>14. WorkInv'
  <2> SUFFICES ASSUME cnn_data # None
               PROVE  /\ AgeAt(captured, memory[cnn_data.address])
                           \in Len(filled)..(Len(filled) + Len(queue) + 1 + Lost)
                      /\ \A i \in 1..(Len(queue) + 1) :
                           AgeAt(captured, memory[cnn_data.address])
                             > AgeAt(captured, q(i))
    BY <1>1, <1>4, <1>6 DEF WorkInv, Queued, q
  <2>1. /\ AgeAt(captured, memory[cnn_data.address])
             \in (Len(filled) + 1)..(Len(filled) + 1 + Len(queue) + Lost)
        /\ \A i \in 1..Len(queue) :
             AgeAt(captured, memory[cnn_data.address]) > AgeAt(captured, Queued(i))
    BY <1>4, <1>6 DEF OrderInv, WorkInv
  <2>2. AgeAt(captured, q(Len(queue) + 1)) = Len(filled)
    BY <1>1, <1>10
  <2>3. AgeAt(captured, memory[cnn_data.address]) > AgeAt(captured, q(Len(queue) + 1))
    BY <1>5, <2>1, <2>2
  <2>4. AgeAt(captured, memory[cnn_data.address])
          \in Len(filled)..(Len(filled) + Len(queue) + 1 + Lost)
    BY <1>4, <1>5, <2>1
  <2>5. QED
    BY <1>9, <1>10, <2>1, <2>3, <2>4
<1>15. FilledInv' /\ SendingInv'
  BY <1>1 DEF OrderInv, FilledInv, SendingInv
<1>16. QED
  BY <1>13, <1>14, <1>15 DEF OrderInv

LEMMA OrderReceive ==
  ASSUME IInv, BuffersInv, OrderInv, main # "down", Receive PROVE OrderInv'
<1> USE DEF Receive
<1>1. /\ UNCHANGED <<filled, picture, captured, memory, taken, held, image, main>>
      /\ Sending' = Sending /\ Lost' = Lost /\ Unsent' = Unsent
      /\ queue \in Seq(Messages)
  BY DEF driver, process, Sending, Lost, Unsent, IInv, TypeOK
<1>2. /\ Len(queue') = Len(queue) - 1
      /\ Len(queue) \in Nat /\ Len(queue) >= 1
      /\ DOMAIN queue' = 1..(Len(queue) - 1) /\ DOMAIN queue = 1..Len(queue)
      /\ cnn_data' = queue[1]
      /\ \A i \in 1..(Len(queue) - 1) : queue'[i] = queue[i + 1]
  BY <1>1, Shortened
<1>3. Unsent \in Nat /\ Lost \in Nat
  BY InUse
<1>4. /\ \A i \in 1..Len(queue) :
           AgeAt(captured, Queued(i)) \in Unsent..(Unsent + Len(queue) - i + Lost)
      /\ \A i, j \in 1..Len(queue) :
           i < j => AgeAt(captured, Queued(i)) > AgeAt(captured, Queued(j))
  BY <1>2 DEF OrderInv, QueueInv
<1>5. \A i \in 1..(Len(queue) - 1) :
        memory'[queue'[i].address] = Queued(i + 1) /\ i + 1 \in 1..Len(queue) /\ 1 < i + 1
  BY <1>1, <1>2 DEF Queued
<1>6. QueueInv'
  <2>1. ASSUME NEW i \in 1..(Len(queue) - 1)
        PROVE  AgeAt(captured, Queued(i + 1))
                 \in Unsent..(Unsent + (Len(queue) - 1) - i + Lost)
    <3>1. AgeAt(captured, Queued(i + 1)) \in Unsent..(Unsent + Len(queue) - (i + 1) + Lost)
      BY <1>4, <1>5
    <3>2. QED
      BY <1>2, <1>3, <3>1
  <2>2. ASSUME NEW i \in 1..(Len(queue) - 1), NEW j \in 1..(Len(queue) - 1), i < j
        PROVE  AgeAt(captured, Queued(i + 1)) > AgeAt(captured, Queued(j + 1))
    <3>1. i + 1 < j + 1
      BY <2>2
    <3>2. QED
      BY <1>4, <1>5, <3>1
  <2>3. \A i \in DOMAIN queue' :
          AgeAt(captured', Queued(i)') \in Unsent'..(Unsent' + Len(queue') - i + Lost')
    BY <1>1, <1>2, <1>5, <2>1 DEF Queued
  <2>4. \A i, j \in DOMAIN queue' :
          i < j => AgeAt(captured', Queued(i)') > AgeAt(captured', Queued(j)')
    BY <1>1, <1>2, <1>5, <2>2 DEF Queued
  <2>5. QED
    BY <2>3, <2>4, Zenon DEF QueueInv, Queued
<1>7. WorkInv'
  <2>1. memory'[cnn_data'.address] = Queued(1) /\ 1 \in 1..Len(queue)
    BY <1>1, <1>2 DEF Queued
  <2>2. AgeAt(captured, Queued(1)) \in Unsent..(Unsent + (Len(queue) - 1) + Lost)
    BY <1>4, <2>1
  <2>3. \A i \in 1..(Len(queue) - 1) :
          AgeAt(captured, Queued(1)) > AgeAt(captured, Queued(i + 1))
    BY <1>4, <1>5, <2>1
  <2>4. QED
    BY <1>1, <1>2, <1>5, <2>1, <2>2, <2>3 DEF WorkInv, Queued
<1>8. FilledInv' /\ SendingInv'
  BY <1>1 DEF OrderInv, FilledInv, SendingInv
<1>9. QED
  BY <1>6, <1>7, <1>8 DEF OrderInv

LEMMA OrderStart == ASSUME IInv, Start PROVE OrderInv'
<1>1. /\ filled' = <<>> /\ queue' = <<>> /\ cnn_data' = None /\ main' = "dispatch"
      /\ DOMAIN <<>> = {}
  BY DEF Start, IInv, Down
<1>2. QED
  BY <1>1 DEF OrderInv, FilledInv, SendingInv, QueueInv, WorkInv, Sending

\* The line of pictures keeps its order from the device to the network.
LEMMA PicturesStayInOrder == Spec => []OrderInv
<1>1. Init => OrderInv
  BY DEF Init, Down, OrderInv
<1>2. IInv /\ IInv' /\ BuffersInv /\ OrderInv /\ [Next]_vars => OrderInv'
  <2> SUFFICES ASSUME IInv, IInv', BuffersInv, OrderInv, [Next]_vars PROVE OrderInv'
    OBVIOUS
  <2>1. CASE UNCHANGED vars
    BY <2>1 DEF vars, process, driver, OrderInv, FilledInv, SendingInv, QueueInv, WorkInv,
                Sending, Unsent, Lost, Queued
  <2>2. CASE Start
    BY <2>2, OrderStart
  <2>3. CASE Kill \/ Join
    BY <2>3 DEF Kill, Join, Gone, OrderInv
  <2>4. CASE main # "down" /\ Next /\ ~Kill /\ ~Join /\ ~Start
    BY <2>4, OrderQuiet, OrderForget, OrderConvert, OrderRun, OrderDequeue, OrderSend,
       OrderReceive, OrderFill DEF Next, MainStep, TaskStep, GoesOn
  <2>5. CASE main = "down" /\ Next
    BY <2>2, <2>3, <2>5
    DEF IInv, Down, Next, MainStep, TaskStep, Interrupt, CompositorLost, FrameDue, Dequeue,
        DequeueFails, Convert, Send, Requeue, SendFails, RequeueFails, Broadcast, EndFrame,
        Check, Receive, ReceiveFails, Run, Fill
  <2>6. QED
    BY <2>1, <2>2, <2>3, <2>4, <2>5
<1>3. QED
  BY <1>1, <1>2, Invariant, BuffersInOnePlace, PTL DEF Spec

\* Older pictures come first.
Descending(s) ==
  \A i, j \in DOMAIN s : i < j => AgeAt(captured, s[i]) > AgeAt(captured, s[j])

\* Two such lines make one if all of the first is older than all of the second.
LEMMA Joined ==
  ASSUME NEW s \in Seq(Pictures), NEW t \in Seq(Pictures), Descending(s), Descending(t),
         \A i \in DOMAIN s, j \in DOMAIN t : AgeAt(captured, s[i]) > AgeAt(captured, t[j])
  PROVE  /\ s \o t \in Seq(Pictures) /\ Descending(s \o t)
         /\ \A i \in DOMAIN (s \o t) :
              \/ \E k \in DOMAIN s : (s \o t)[i] = s[k]
              \/ \E k \in DOMAIN t : (s \o t)[i] = t[k]
<1>1. /\ s \o t \in Seq(Pictures) /\ Len(s) \in Nat /\ Len(t) \in Nat
      /\ DOMAIN s = 1..Len(s) /\ DOMAIN t = 1..Len(t)
      /\ DOMAIN (s \o t) = 1..(Len(s) + Len(t))
  OBVIOUS
<1> DEFINE both == s \o t
<1>2. \A i \in 1..(Len(s) + Len(t)) :
        \/ i \in 1..Len(s) /\ both[i] = s[i]
        \/ i - Len(s) \in 1..Len(t) /\ i > Len(s) /\ both[i] = t[i - Len(s)]
  <2> TAKE i \in 1..(Len(s) + Len(t))
  <2>1. CASE i <= Len(s)
    BY <1>1, <2>1
  <2>2. CASE i > Len(s)
    BY <1>1, <2>2
  <2>3. QED
    BY <1>1, <2>1, <2>2
<1> HIDE DEF both
<1>3. ASSUME NEW i \in 1..(Len(s) + Len(t)), NEW k \in 1..(Len(s) + Len(t)), i < k
      PROVE  AgeAt(captured, both[i]) > AgeAt(captured, both[k])
  <2>1. CASE i \in 1..Len(s) /\ both[i] = s[i]
    <3>1. CASE k \in 1..Len(s) /\ both[k] = s[k]
      BY <1>1, <1>3, <2>1, <3>1 DEF Descending
    <3>2. CASE k - Len(s) \in 1..Len(t) /\ both[k] = t[k - Len(s)]
      BY <1>1, <2>1, <3>2
    <3>3. QED
      BY <1>2, <3>1, <3>2
  <2>2. CASE i - Len(s) \in 1..Len(t) /\ i > Len(s) /\ both[i] = t[i - Len(s)]
    <3>1. k - Len(s) \in 1..Len(t) /\ both[k] = t[k - Len(s)] /\ i - Len(s) < k - Len(s)
      BY <1>1, <1>2, <1>3, <2>2
    <3>2. QED
      BY <1>1, <2>2, <3>1 DEF Descending
  <2>3. QED
    BY <1>2, <2>1, <2>2
<1>4. Descending(both)
  BY <1>1, <1>3 DEF Descending, both
<1>5. QED
  BY <1>1, <1>2, <1>4 DEF both

\* The network gets the pictures in the order of their capture, through full
\* queues, failed sends, lost buffers, SIGINT, kills and restarts, and none
\* older than what buffers and queue can hold; and what is sent is what was
\* taken from the driver last.
THEOREM PictureOrder == Spec => []PicturesInOrder
<1>1. IInv /\ BuffersInv /\ OrderInv => PicturesInOrder
  <2> SUFFICES ASSUME IInv, BuffersInv, OrderInv, main # "down" PROVE PicturesInOrder
    BY DEF PicturesInOrder
  <2> DEFINE age(p) == AgeAt(captured, p)
             first == IF cnn_data = None THEN <<>> ELSE <<memory[cnn_data.address]>>
             middle == [i \in DOMAIN queue |-> memory[queue[i].address]]
             last == IF image = None THEN <<>> ELSE <<memory[image]>>
  <2>1. /\ DOMAIN queue = 1..Len(queue) /\ Len(queue) \in Nat
        /\ \A i \in 1..Len(queue) : Queued(i) \in Pictures
        /\ cnn_data # None => memory[cnn_data.address] \in Pictures
        /\ Len(filled) \in Nat
    BY InUse
  <2>2. image # None => /\ Sending /\ memory[image] = taken /\ taken \in Pictures
                        /\ age(taken) = Len(filled) /\ Unsent = Len(filled) + 1
    BY InUse DEF IInv, TypeOK, OrderInv, SendingInv, Sending, Unsent
  <2>3. /\ middle \in Seq(Pictures) /\ DOMAIN middle = 1..Len(queue)
        /\ \A i \in 1..Len(queue) : middle[i] = Queued(i)
    BY <2>1 DEF Queued
  <2>4. /\ first \in Seq(Pictures) /\ last \in Seq(Pictures)
        /\ \A i \in DOMAIN first : i = 1 /\ cnn_data # None /\ first[i] = memory[cnn_data.address]
        /\ \A i \in DOMAIN last : i = 1 /\ image # None /\ last[i] = taken
    <3>1. /\ \A x : DOMAIN <<x>> = {1} /\ <<x>>[1] = x
          /\ \A x \in Pictures : <<x>> \in Seq(Pictures)
          /\ <<>> \in Seq(Pictures) /\ DOMAIN <<>> = {}
      OBVIOUS
    <3>2. QED
      BY <2>1, <2>2, <3>1
  <2> HIDE DEF first, middle, last
  <2>5. Descending(first) /\ Descending(last)
    BY <2>4 DEF Descending
  <2>6. Descending(middle)
    BY <2>1, <2>3 DEF Descending, OrderInv, QueueInv
  <2>7. \A i \in DOMAIN first, j \in DOMAIN middle : age(first[i]) > age(middle[j])
    BY <2>1, <2>3, <2>4 DEF OrderInv, WorkInv
  <2> DEFINE sent == first \o middle
  <2>8. /\ sent \in Seq(Pictures) /\ Descending(sent)
        /\ \A i \in DOMAIN sent : \/ \E k \in DOMAIN first : sent[i] = first[k]
                                  \/ \E k \in DOMAIN middle : sent[i] = middle[k]
    BY <2>3, <2>4, <2>5, <2>6, <2>7, Joined
  <2>9. /\ \A k \in DOMAIN first : age(first[k]) \in Int /\ age(first[k]) >= Unsent
        /\ \A k \in DOMAIN middle : age(middle[k]) \in Int /\ age(middle[k]) >= Unsent
    <3>1. Unsent \in Nat /\ Lost \in Nat
      BY InUse
    <3>2. QED
      BY <2>1, <2>3, <2>4, <3>1 DEF OrderInv, WorkInv, QueueInv
  <2> HIDE DEF sent
  <2>10. \A i \in DOMAIN sent, j \in DOMAIN last : age(sent[i]) > age(last[j])
    <3> TAKE i \in DOMAIN sent, j \in DOMAIN last
    <3>1. age(sent[i]) \in Int /\ age(sent[i]) >= Unsent
      BY <2>8, <2>9
    <3>2. age(last[j]) = Len(filled) /\ Unsent = Len(filled) + 1
      BY <2>2, <2>4
    <3>3. QED
      BY <2>1, <3>1, <3>2
  <2>11. Descending(sent \o last)
    BY <2>4, <2>5, <2>8, <2>10, Joined
  <2>12. image # None => memory[image] = taken
    BY <2>2
  <2>13. QED
    BY <2>11, <2>12 DEF PicturesInOrder, Descending, Age, AgeAt, sent, first, middle, last
<1>2. QED
  BY <1>1, Invariant, BuffersInOnePlace, PicturesStayInOrder, PTL

=============================================================================
