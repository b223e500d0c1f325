---------------------------- MODULE CaptureSetup ----------------------------
(***************************************************************************)
(* Opening the video devices: v4l2_initialize() of the boards and          *)
(* nc_v4l2_init_device_and_stream_on() of v4l2_interface.c.  Every call to *)
(* the driver may fail; some failures end the program, some are only       *)
(* printed.  A step is one call, or the calls that cannot be told apart.   *)
(***************************************************************************)
EXTENDS Integers, FiniteSets

CONSTANTS
  VIDEO_MAX_CH,
  VIDEO_BUFFER_NUM,     \* buffers asked for; the driver may grant fewer
  Boards,               \* of "car" and "ministry", each with its v4l2_initialize
  Sizes,                \* sizes of pictures a sensor may have, <<width, height>>
  Configs,              \* what a channel may be set to
  UINT,                 \* how many numbers an unsigned int has
  None

Channels == 1..VIDEO_MAX_CH
Indices == 0..(VIDEO_BUFFER_NUM - 1)

ASSUME DevicesAssumption ==
  /\ VIDEO_MAX_CH \in Nat \ {0} /\ VIDEO_BUFFER_NUM \in Nat \ {0}
  /\ Boards \subseteq {"car", "ministry"}
ASSUME SizesAssumption ==
  /\ UINT \in Nat \ {0}
  /\ Sizes \subseteq (Nat \ {0}) \X (Nat \ {0}) /\ None \notin Nat \X Nat
  /\ Configs \subseteq
       [data_idx : {"CNN_MODE", "CODA_MODE", "OFRC_MODE", "CSI_MODE", "invalid"},
        img_process : {"MODE_CROP", "MODE_DS", "MODE_CROP_TO_DS", "MODE_BYPASS"},
        pos : Nat \X Nat, crop : Nat \X Nat, ds : (Nat \ {0}) \X (Nat \ {0})]
  /\ None \notin [pos : Nat \X Nat, from : Nat \X Nat, to : Nat \X Nat]

VARIABLES
  step, ch, i,          \* where main() is: the call, the channel, the buffer
  board,
  config,               \* v4l2_config
  fd,                   \* video_fd: unopened, open, failed (-errno), closed;
                        \* mistaken: open, but taken for a failure
  sensor,               \* sensor_width, sensor_height
  capture,              \* app_info.capture: one for all channels
  announced, selection, \* driver: S_EXT_CTRLS, S_SELECTION of a channel
  granted,              \* driver: buffers of a channel
  start,                \* buffers[i].start: NULL, mapped, MAP_FAILED
  queued, streaming     \* driver

picture == <<board, config, sensor, capture, announced, selection>>
buffers == <<granted, start, queued, streaming>>
vars == <<step, ch, i, fd, picture, buffers>>

Init ==
  /\ step = "open" /\ ch = 1 /\ i = 0
  /\ board \in Boards /\ config \in [Channels -> Configs]
  /\ fd = [c \in Channels |-> "unopened"]
  /\ sensor = [c \in Channels |-> None] /\ capture = None
  /\ announced = [c \in Channels |-> None]
  /\ selection = [c \in Channels |-> None]
  /\ granted = [c \in Channels |-> 0]
  /\ start = [c \in Channels |-> [k \in Indices |-> "NULL"]]
  /\ queued = [c \in Channels |-> {}]
  /\ streaming = [c \in Channels |-> FALSE]

NextChannel ==
  IF ch = VIDEO_MAX_CH THEN step' = "running" /\ UNCHANGED ch
                       ELSE step' = "open" /\ ch' = ch + 1

\* A failure that v4l2_initialize passes on: main() returns.
Exit == step' = "exited" /\ UNCHANGED ch

-----------------------------------------------------------------------------
(* The device and the format of its pictures.                              *)

\* The ministry's board tests for a negative descriptor and goes on without a
\* picture.  The car compares it with errno, which is positive: it goes on with
\* the descriptor it does not have.
OpenFails ==
  /\ fd' = [fd EXCEPT ![ch] = "failed"]
  /\ IF board = "ministry" THEN NextChannel
                           ELSE step' = "get_format" /\ UNCHANGED ch

\* An open() that succeeds leaves errno as it was, and the car may find the
\* new descriptor equal to the number of some earlier error.
TakenForFailure ==
  board = "car" /\ fd' = [fd EXCEPT ![ch] = "mistaken"] /\ NextChannel

nc_v4l2_open ==
  /\ step = "open"
  /\ \/ fd' = [fd EXCEPT ![ch] = "open"] /\ step' = "get_format" /\ UNCHANGED ch
     \/ OpenFails
     \/ TakenForFailure
  /\ UNCHANGED <<i, picture, buffers>>

\* A failure closes the device and returns 1, which the caller does not take
\* for a failure.
nc_v4l2_get_format ==
  /\ step = "get_format" /\ step' = "set_format"
  /\ \/ /\ fd[ch] = "open"
        /\ \E size \in Sizes : sensor' = [sensor EXCEPT ![ch] = size]
        /\ UNCHANGED fd
     \/ /\ sensor' = [sensor EXCEPT ![ch] = <<0, 0>>]
        /\ fd' = [fd EXCEPT ![ch] = "closed"]
  /\ UNCHANGED <<ch, i, board, config, capture, announced, selection, buffers>>

\* Mutant: the size is recorded for the first channel only.
RecordSizeOnce == capture' = IF capture = None THEN sensor[ch] ELSE capture

RecordSize == capture' = sensor[ch]

\* S_FMT and G_FMT, after an S_INPUT whose failure is ignored.
nc_v4l2_set_format ==
  /\ step = "set_format"
  /\ \/ fd[ch] = "open" /\ RecordSize /\ step' = "crop" /\ UNCHANGED ch
     \/ Exit /\ UNCHANGED capture
  /\ UNCHANGED <<i, fd, board, config, sensor, announced, selection, buffers>>

-----------------------------------------------------------------------------
(* Cropping and scaling by the DMA.                                        *)

\* The sums are unsigned and may wrap.
Inside(g) == \A d \in {1, 2} : (g.pos[d] + g.crop[d]) % UINT <= capture[d]

\* The quotients are whole numbers when they are compared with 4.0.
Ratio(from, to) == from[1] \div to[1] <= 4 /\ from[2] \div to[2] <= 4

Verified(g) ==
  CASE g.img_process = "MODE_CROP"       -> Inside(g)
    [] g.img_process = "MODE_DS"         -> Ratio(capture, g.ds)
    [] g.img_process = "MODE_CROP_TO_DS" -> Inside(g) /\ Ratio(g.crop, g.ds)
    [] g.img_process = "MODE_BYPASS"     -> TRUE

Crops(g) == g.img_process \in {"MODE_CROP", "MODE_CROP_TO_DS"}

\* The size of the pictures that the driver is told to expect.
Result(g) ==
  CASE g.img_process = "MODE_CROP"   -> g.crop
    [] g.img_process = "MODE_BYPASS" -> capture
    [] OTHER                         -> g.ds

Selection(g) ==
  [pos  |-> IF Crops(g) THEN g.pos ELSE <<0, 0>>,
   from |-> IF Crops(g) THEN g.crop ELSE capture,
   to   |-> CASE g.img_process = "MODE_CROP"   -> g.crop
              [] g.img_process = "MODE_BYPASS" -> capture
              [] OTHER                         -> g.ds]

\* nc_v4l2_set_vdma_cnn_crop_ds and nc_v4l2_set_vdma_coda_crop_ds, which
\* differ in the name of the mode and the DMA mode they announce.
set_vdma_crop_ds ==
  LET g == config[ch]
  IN  \/ UNCHANGED <<announced, selection>>
      \/ /\ Verified(g)
         /\ announced' = [announced EXCEPT ![ch] = Result(g)]
         /\ \/ selection' = [selection EXCEPT ![ch] = Selection(g)]
            \/ UNCHANGED selection

\* Whatever comes of it, the start goes on, unless there is no such DMA.
Crop ==
  /\ step = "crop"
  /\ IF config[ch].data_idx = "invalid"
       THEN Exit /\ UNCHANGED <<announced, selection>>
       ELSE /\ step' = "alloc" /\ UNCHANGED ch
            /\ IF config[ch].data_idx \in {"CNN_MODE", "CODA_MODE"}
                 THEN set_vdma_crop_ds
                 ELSE UNCHANGED <<announced, selection>>
  /\ UNCHANGED <<i, fd, board, config, sensor, capture, buffers>>

-----------------------------------------------------------------------------
(* Buffers.                                                                *)

\* REQBUFS.
nc_v4l2_alloc_mapped ==
  /\ step = "alloc" /\ i' = 0
  /\ \/ /\ \E n \in 1..VIDEO_BUFFER_NUM : granted' = [granted EXCEPT ![ch] = n]
        /\ step' = "map" /\ UNCHANGED ch
     \/ Exit /\ UNCHANGED granted
  /\ UNCHANGED <<fd, picture, start, queued, streaming>>

MappedAll == i + 1 = granted[ch]

\* QUERYBUF, mmap and memset of one buffer.
Map ==
  /\ step = "map"
  /\ \/ /\ start' = [start EXCEPT ![ch][i] = "mapped"]
        /\ IF MappedAll THEN step' = "queue" /\ i' = 0
                        ELSE i' = i + 1 /\ UNCHANGED step
     \/ step' = "free" /\ UNCHANGED <<start, i>>
     \/ /\ start' = [start EXCEPT ![ch][i] = "MAP_FAILED"]
        /\ step' = "free" /\ UNCHANGED i
  /\ UNCHANGED <<ch, fd, picture, granted, queued, streaming>>

\* munmap of what is not NULL, in order, up to the first failure.
Unmapped ==
  start' = [start EXCEPT ![ch] = [k \in Indices |->
              IF k <= i /\ start[ch][k] = "mapped" THEN "NULL" ELSE start[ch][k]]]

\* Mutant: the failure is not passed on.
FreeAndQueue ==
  /\ step = "free" /\ Unmapped
  /\ step' = "queue" /\ i' = 0
  /\ UNCHANGED <<ch, granted, fd, picture, queued, streaming>>

\* nc_v4l2_free_mapped: munmap(MAP_FAILED) fails, and the buffers of the
\* driver are not given back.
nc_v4l2_free_mapped ==
  /\ step = "free" /\ Unmapped
  /\ \/ start[ch][i] # "MAP_FAILED" /\ granted' = [granted EXCEPT ![ch] = 0]
     \/ UNCHANGED granted
  /\ Exit
  /\ UNCHANGED <<i, fd, picture, queued, streaming>>

\* QBUF of as many buffers as were asked for; the driver refuses those it did
\* not grant.
nc_v4l2_queue_buffer ==
  /\ step = "queue"
  /\ \/ /\ i < granted[ch]
        /\ queued' = [queued EXCEPT ![ch] = @ \cup {i}]
        /\ IF i + 1 = VIDEO_BUFFER_NUM THEN step' = "stream" /\ UNCHANGED i
                                       ELSE i' = i + 1 /\ UNCHANGED step
        /\ UNCHANGED ch
     \/ Exit /\ UNCHANGED <<i, queued>>
  /\ UNCHANGED <<fd, picture, granted, start, streaming>>

\* STREAMON.
nc_v4l2_start_capture ==
  /\ step = "stream"
  /\ \/ streaming' = [streaming EXCEPT ![ch] = TRUE] /\ NextChannel
     \/ Exit /\ UNCHANGED streaming
  /\ UNCHANGED <<i, fd, picture, granted, start, queued>>

Next ==
  \/ nc_v4l2_open \/ nc_v4l2_get_format \/ nc_v4l2_set_format \/ Crop
  \/ nc_v4l2_alloc_mapped \/ Map \/ nc_v4l2_free_mapped
  \/ nc_v4l2_queue_buffer \/ nc_v4l2_start_capture

Spec == Init /\ [][Next]_vars

-----------------------------------------------------------------------------
(* Properties.                                                             *)

Window == [pos : Nat \X Nat, from : Nat \X Nat, to : Nat \X Nat]

TypeOK ==
  /\ step \in {"open", "get_format", "set_format", "crop", "alloc", "map", "free",
               "queue", "stream", "running", "exited"}
  /\ ch \in Channels /\ i \in Indices
  /\ board \in Boards /\ config \in [Channels -> Configs]
  /\ fd \in [Channels -> {"unopened", "open", "mistaken", "failed", "closed"}]
  /\ sensor \in [Channels -> (Nat \X Nat) \cup {None}]
  /\ capture \in Sizes \cup {None}
  /\ announced \in [Channels -> (Nat \X Nat) \cup {None}]
  /\ selection \in [Channels -> Window \cup {None}]
  /\ granted \in [Channels -> 0..VIDEO_BUFFER_NUM]
  /\ start \in [Channels -> [Indices -> {"NULL", "mapped", "MAP_FAILED"}]]
  /\ queued \in [Channels -> SUBSET Indices]
  /\ streaming \in [Channels -> BOOLEAN]

\* While the program runs no channel is half set up: it is open, has all its
\* buffers mapped and queued, and streams; or nothing was asked of the driver,
\* because it did not open (ministry's board) or seemed not to (car).
RunningMeansStreaming ==
  step = "running" =>
    \A c \in Channels :
      \/ /\ fd[c] = "open" /\ streaming[c]
         /\ queued[c] = Indices /\ \A k \in Indices : start[c][k] = "mapped"
      \/ /\ fd[c] = (IF board = "ministry" THEN "failed" ELSE "mistaken")
         /\ granted[c] = 0 /\ queued[c] = {} /\ ~streaming[c]

\* Whatever index VIDIOC_DQBUF may return, render finds that buffer mapped.
QueuedIsMapped ==
  \A c \in Channels : \A k \in queued[c] : start[c][k] = "mapped"

\* What the DMA is told to read lies within the picture of that channel's own
\* sensor, unless the sum that was to be compared passes an unsigned int, is
\* scaled down by less than five, and was told after S_FMT, to the size that
\* was announced (comment at line 240: S_FMT before S_SELECTION).
SelectionFits ==
  \A c \in Channels :
    LET s == selection[c]
    IN  s # None =>
          /\ s.to = announced[c]
          /\ \A d \in {1, 2} : /\ \/ s.pos[d] + s.from[d] <= sensor[c][d]
                                  \/ s.pos[d] + s.from[d] >= UINT
                               /\ s.from[d] < 5 * s.to[d] \/ s.from = s.to

=============================================================================
