----------------------------- MODULE CnnPipeline -----------------------------
(***************************************************************************)
(* The way of a picture from the video device to the network, in           *)
(* 차량 보드/wayland_npu_app.c: the main thread draws frames (render),      *)
(* takes a filled buffer from the driver, converts the picture into memory *)
(* it allocates, and sends the address through a POSIX message queue to    *)
(* cnn_task, which runs the network and frees the memory.  A frame ends,   *)
(* once in a while, with a broadcast to the other cars, for which render   *)
(* holds peer_mutex.  The queue belongs to the kernel and outlives the     *)
(* program; the program is started, interrupted, killed and started again. *)
(*                                                                         *)
(* The image and its stCnnData record are one allocation.  Pictures are    *)
(* numbered modulo PICTURES.                                               *)
(***************************************************************************)
EXTENDS Integers, Sequences, FiniteSets

CONSTANTS
  VIDEO_BUFFER_NUM,     \* buffers of the device
  Addresses,            \* where memory can be allocated
  MAX_MQ_MSG_CNT,
  PICTURES,             \* bound: picture numbers
  MaxFailures,          \* bound: failing sends in one run of the program
  None

Buffers == 0..(VIDEO_BUFFER_NUM - 1)

ASSUME BuffersAssumption == VIDEO_BUFFER_NUM \in Nat /\ None \notin Buffers
ASSUME QueueAssumption == MAX_MQ_MSG_CNT \in Nat \ {0}
ASSUME PicturesAssumption ==
  /\ PICTURES \in Nat \ {0}
  /\ PICTURES > VIDEO_BUFFER_NUM + MAX_MQ_MSG_CNT + MaxFailures + 1
  /\ None \notin 0..(PICTURES - 1)
ASSUME AddressesAssumption ==
  /\ IsFiniteSet(Addresses) /\ None \notin Addresses
  /\ None \notin [address : Addresses, own : BOOLEAN]
  /\ MaxFailures \in Nat
  /\ Cardinality(Addresses) >= MAX_MQ_MSG_CNT + 2 + MaxFailures

VARIABLES
  main,                 \* where the main thread is
  task,                 \* where cnn_task is
  running, interrupted, \* the flag; SIGINT has come once
  queue,                \* MQ_NAME_CNN_BUF: addresses, and if of this run
  memory,               \* what is allocated, and the picture in it
  image,                \* rgbdata_for_cnn: the address render holds
  cnn_data,             \* the message cnn_task works on
  leaked,               \* addresses nobody knows any more
  filling, filled,      \* buffers of the driver: empty ones, full ones
  held,                 \* video_buf.index: the buffer render holds
  picture,              \* the picture in every buffer
  captured,             \* the number of the next picture
  taken,                \* history: the picture of the buffer taken last
  failures

driver == <<filling, filled, picture, captured>>
process == <<running, interrupted, failures>>
vars == <<main, task, process, queue, memory, image, cnn_data, leaked, driver,
          held, taken>>

Down ==
  /\ main = "down" /\ task = "none"
  /\ running = FALSE /\ interrupted = FALSE /\ failures = 0
  /\ memory = [a \in Addresses |-> None] /\ leaked = {}
  /\ image = None /\ cnn_data = None
  /\ filling = <<>> /\ filled = <<>> /\ held = None /\ taken = None
  /\ picture = [b \in Buffers |-> None] /\ captured = 0

Init == Down /\ queue = <<>>

Allocated == {a \in Addresses : memory[a] # None}

-----------------------------------------------------------------------------
(* The program.                                                            *)

\* Mutant: what an earlier run left in the queue stays there.
StartKeepsQueue ==
  /\ main = "down" /\ main' = "dispatch" /\ task' = "check"
  /\ running' = TRUE
  /\ filling' = [i \in 1..VIDEO_BUFFER_NUM |-> i - 1]
  /\ UNCHANGED <<interrupted, failures, queue, memory, image, cnn_data, leaked,
                 filled, picture, captured, held, taken>>

\* main() queues every buffer, removes the message queue of an earlier run
\* and creates cnn_task.
Start ==
  /\ main = "down" /\ main' = "dispatch" /\ task' = "check"
  /\ running' = TRUE
  /\ queue' = <<>>
  /\ filling' = [i \in 1..VIDEO_BUFFER_NUM |-> i - 1]
  /\ UNCHANGED <<interrupted, failures, memory, image, cnn_data, leaked,
                 filled, picture, captured, held, taken>>

\* The memory of the process is gone, the queue is not.
Gone ==
  /\ main' = "down" /\ task' = "none"
  /\ running' = FALSE /\ interrupted' = FALSE /\ failures' = 0
  /\ memory' = [a \in Addresses |-> None] /\ leaked' = {}
  /\ image' = None /\ cnn_data' = None
  /\ filling' = <<>> /\ filled' = <<>> /\ held' = None /\ taken' = None
  /\ picture' = [b \in Buffers |-> None] /\ captured' = 0
  /\ queue' = [i \in DOMAIN queue |-> [address |-> queue[i].address, own |-> FALSE]]

\* SIGKILL, a crash, or the second SIGINT (SA_RESETHAND).
Kill == main # "down" /\ Gone

-----------------------------------------------------------------------------
(* The main thread: wl_display_dispatch and render.                        *)

\* The compositor asks for a frame.
FrameDue ==
  /\ main = "dispatch" /\ main' = "dequeue"
  /\ UNCHANGED <<task, process, queue, memory, image, cnn_data, leaked, driver,
                 held, taken>>

\* wl_display_dispatch fails: the loop ends, running stays.
CompositorLost ==
  /\ main = "dispatch" /\ main' = "join"
  /\ UNCHANGED <<task, process, queue, memory, image, cnn_data, leaked, driver,
                 held, taken>>

\* Mutant: the buffer filled last is taken.
DequeueLatest ==
  /\ main = "dequeue" /\ filled # <<>> /\ main' = "convert"
  /\ held' = filled[Len(filled)]
  /\ filled' = SubSeq(filled, 1, Len(filled) - 1)
  /\ taken' = picture[filled[Len(filled)]]
  /\ UNCHANGED <<task, process, queue, memory, image, cnn_data, leaked,
                 filling, picture, captured>>

\* VIDIOC_DQBUF blocks until a buffer is filled.
Dequeue ==
  /\ main = "dequeue" /\ filled # <<>> /\ main' = "convert"
  /\ held' = Head(filled) /\ filled' = Tail(filled)
  /\ taken' = picture[Head(filled)]
  /\ UNCHANGED <<task, process, queue, memory, image, cnn_data, leaked,
                 filling, picture, captured>>

\* It fails: the frame is drawn without a picture.
DequeueFails ==
  /\ main = "dequeue" /\ main' = "draw"
  /\ UNCHANGED <<task, process, queue, memory, image, cnn_data, leaked, driver,
                 held, taken>>

\* malloc and the conversion for the network.
Convert ==
  /\ main = "convert" /\ main' = "send"
  /\ \E a \in Addresses \ Allocated :
       image' = a /\ memory' = [memory EXCEPT ![a] = picture[held]]
  /\ UNCHANGED <<task, process, queue, cnn_data, leaked, driver, held, taken>>

\* mq_open or mq_send fails: the address is forgotten.
SendFails ==
  /\ main = "send" /\ failures < MaxFailures /\ main' = "requeue"
  /\ failures' = failures + 1
  /\ leaked' = leaked \cup {image} /\ image' = None
  /\ UNCHANGED <<task, running, interrupted, queue, memory, cnn_data, driver,
                 held, taken>>

\* mq_send blocks while the queue is full.
Send ==
  /\ main = "send" /\ Len(queue) < MAX_MQ_MSG_CNT /\ main' = "requeue"
  /\ queue' = Append(queue, [address |-> image, own |-> TRUE])
  /\ image' = None
  /\ UNCHANGED <<task, process, memory, cnn_data, leaked, driver, held, taken>>

\* VIDIOC_QBUF gives the buffer back.
Requeue ==
  /\ main = "requeue" /\ main' = "draw"
  /\ filling' = Append(filling, held) /\ held' = None
  /\ UNCHANGED <<task, process, queue, memory, image, cnn_data, leaked, filled,
                 picture, captured, taken>>

\* The call fails: the frame is drawn all the same, the buffer is lost.
RequeueFails ==
  /\ main = "requeue" /\ main' = "draw" /\ held' = None
  /\ UNCHANGED <<task, process, queue, memory, image, cnn_data, leaked, driver,
                 taken>>

\* v2v_send_event: peer_mutex is locked for the broadcast.
Broadcast ==
  /\ main = "draw" /\ main' = "broadcast"
  /\ UNCHANGED <<task, process, queue, memory, image, cnn_data, leaked, driver,
                 held, taken>>

\* The frame is done, the mutex given back; the loop of main() goes on unless
\* running is cleared.
EndFrame ==
  /\ main \in {"draw", "broadcast"}
  /\ main' = IF running THEN "dispatch" ELSE "join"
  /\ UNCHANGED <<task, process, queue, memory, image, cnn_data, leaked, driver,
                 held, taken>>

\* pthread_join: main() returns when cnn_task has ended.
Join == main = "join" /\ task = "ended" /\ Gone

\* Mutant: the handler stops the other threads only.
InterruptRunsOn ==
  /\ main # "down" /\ ~interrupted
  /\ interrupted' = TRUE
  /\ UNCHANGED <<main, running, task, failures, queue, memory, image, cnn_data,
                 leaked, driver, held, taken>>

\* signal_int, in the main thread: a call that blocks returns with EINTR.  An
\* interrupted mq_send is a failed one, an interrupted VIDIOC_DQBUF ends the
\* frame without a picture.  v2v_stop() locks peer_mutex: in the middle of a
\* broadcast the thread waits for itself.
Interrupt ==
  /\ main # "down" /\ ~interrupted
  /\ interrupted' = TRUE /\ running' = FALSE
  /\ \/ /\ main = "send" /\ Len(queue) = MAX_MQ_MSG_CNT
        /\ main' = "requeue" /\ image' = None /\ leaked' = leaked \cup {image}
     \/ /\ \/ main = "dequeue" /\ filled = <<>> /\ main' = "draw"
           \/ main = "broadcast" /\ main' = "stuck"
           \/ /\ main # "broadcast" /\ main' = main
              /\ main = "send" => Len(queue) < MAX_MQ_MSG_CNT
              /\ main = "dequeue" => filled # <<>>
        /\ UNCHANGED <<image, leaked>>
  /\ UNCHANGED <<task, failures, queue, memory, cnn_data, driver, held, taken>>

-----------------------------------------------------------------------------
(* cnn_task.                                                               *)

Check ==
  /\ task = "check" /\ task' = IF running THEN "receive" ELSE "ended"
  /\ UNCHANGED <<main, process, queue, memory, image, cnn_data, leaked, driver,
                 held, taken>>

\* mq_receive blocks while the queue is empty.
Receive ==
  /\ task = "receive" /\ queue # <<>> /\ task' = "run"
  /\ cnn_data' = Head(queue) /\ queue' = Tail(queue)
  /\ UNCHANGED <<main, process, memory, image, leaked, driver, held, taken>>

\* mq_open or mq_receive fails.
ReceiveFails ==
  /\ task = "receive" /\ task' = "check"
  /\ UNCHANGED <<main, process, queue, memory, image, cnn_data, leaked, driver,
                 held, taken>>

\* Mutant: the memory is left to the network.
RunKeepsMemory ==
  /\ task = "run" /\ task' = "check"
  /\ cnn_data' = None
  /\ UNCHANGED <<main, process, queue, memory, image, leaked, driver, held, taken>>

\* The network has run; image and record are freed.
Run ==
  /\ task = "run" /\ task' = "check"
  /\ memory' = [memory EXCEPT ![cnn_data.address] = None]
  /\ cnn_data' = None
  /\ UNCHANGED <<main, process, queue, image, leaked, driver, held, taken>>

-----------------------------------------------------------------------------
(* The video device.                                                       *)

\* A picture goes into the buffer that waits longest.
Fill ==
  /\ main # "down" /\ filling # <<>>
  /\ picture' = [picture EXCEPT ![Head(filling)] = captured]
  /\ captured' = (captured + 1) % PICTURES
  /\ filling' = Tail(filling) /\ filled' = Append(filled, Head(filling))
  /\ UNCHANGED <<main, task, process, queue, memory, image, cnn_data, leaked,
                 held, taken>>

-----------------------------------------------------------------------------

MainStep ==
  \/ FrameDue \/ Dequeue \/ Convert \/ Send \/ Requeue
  \/ Broadcast \/ EndFrame \/ Join
TaskStep == Check \/ Receive \/ Run

Next ==
  \/ Start \/ Kill \/ Interrupt \/ CompositorLost
  \/ MainStep \/ DequeueFails \/ SendFails \/ RequeueFails
  \/ TaskStep \/ ReceiveFails \/ Fill

Spec == Init /\ [][Next]_vars

FairSpec == Spec /\ WF_vars(MainStep) /\ WF_vars(TaskStep) /\ WF_vars(Fill)

-----------------------------------------------------------------------------
(* Properties.                                                             *)

Messages == [address : Addresses, own : BOOLEAN]
Pictures == 0..(PICTURES - 1)

TypeOK ==
  /\ main \in {"down", "dispatch", "dequeue", "convert", "send", "requeue",
               "draw", "broadcast", "stuck", "join"}
  /\ task \in {"none", "check", "receive", "run", "ended"}
  /\ running \in BOOLEAN /\ interrupted \in BOOLEAN
  /\ failures \in 0..MaxFailures
  /\ queue \in Seq(Messages) /\ Len(queue) <= MAX_MQ_MSG_CNT
  /\ memory \in [Addresses -> Pictures \cup {None}]
  /\ image \in Addresses \cup {None} /\ (image # None <=> main = "send")
  /\ cnn_data \in Messages \cup {None} /\ (cnn_data # None <=> task = "run")
  /\ leaked \subseteq Addresses
  /\ filling \in Seq(Buffers) /\ filled \in Seq(Buffers)
  /\ held \in Buffers \cup {None}
  /\ (held # None <=> main \in {"convert", "send", "requeue"})
  /\ picture \in [Buffers -> Pictures \cup {None}]
  /\ captured \in Pictures /\ taken \in Pictures \cup {None}

InQueue == {queue[i].address : i \in DOMAIN queue}

\* While the program runs, the queue and cnn_task hold addresses of this run
\* only: a pointer that an earlier run left in the kernel's queue never reaches
\* the network (main(), mq_unlink).
OnlyOwnAddresses ==
  main # "down" => /\ \A i \in DOMAIN queue : queue[i].own
                   /\ cnn_data # None => cnn_data.own

\* What is allocated is exactly what render holds, what waits in the queue and
\* what the network works on, each in one place, and what a failed send
\* forgot: nothing is used after it was freed, freed twice or forgotten
\* otherwise.
MemoryIsAccountedFor ==
  main # "down" =>
    LET working == IF cnn_data = None THEN {} ELSE {cnn_data.address}
        holding == IF image = None THEN {} ELSE {image}
    IN  /\ Allocated = InQueue \cup working \cup holding \cup leaked
        /\ InQueue \cap (working \cup holding \cup leaked) = {}
        /\ working \cap (holding \cup leaked) = {} /\ holding \cap leaked = {}
        /\ \A i, j \in DOMAIN queue :
             queue[i].address = queue[j].address => i = j

\* How many pictures were captured since picture p.
Age(p) == (captured - 1 - p) % PICTURES

\* The network gets the pictures in the order in which they were captured, and
\* none that is older than the buffers, the queue and the two threads can hold.
PicturesInOrder ==
  main # "down" =>
    LET waiting ==
          (IF cnn_data = None THEN <<>> ELSE <<memory[cnn_data.address]>>)
            \o [i \in DOMAIN queue |-> memory[queue[i].address]]
            \o (IF image = None THEN <<>> ELSE <<memory[image]>>)
    IN  /\ \A i, j \in DOMAIN waiting : i < j => Age(waiting[i]) > Age(waiting[j])
        /\ image # None => memory[image] = taken

\* After SIGINT the program ends, or it is in one of four dead ends: main()
\* joins cnn_task, which waits for a picture that will never come; render waits
\* for room in the queue that cnn_task has left for good, or for a buffer when
\* all of them were lost; or the handler, which came in the middle of a
\* broadcast, waits for the mutex of the thread it runs in.
InterruptEnds ==
  interrupted ~>
    \/ main = "down"
    \/ main = "join" /\ task = "receive" /\ queue = <<>>
    \/ main = "send" /\ task = "ended" /\ Len(queue) = MAX_MQ_MSG_CNT
    \/ main = "dequeue" /\ filling = <<>> /\ filled = <<>>
    \/ main = "stuck"

=============================================================================
