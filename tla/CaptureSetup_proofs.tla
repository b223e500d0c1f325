------------------------ MODULE CaptureSetup_proofs ------------------------
(***************************************************************************)
(* Theorems about CaptureSetup for any number of channels and buffers, any *)
(* sizes of pictures and any settings.                                     *)
(***************************************************************************)
EXTENDS CaptureSetup, TLAPS

(***************************************************************************)
(* The inductive invariant: what is true of the channel being set up, and  *)
(* of those before and behind it.                                          *)
(***************************************************************************)

\* The channels that main() is through with.
Finished(c) == step # "exited" /\ (c < ch \/ step = "running")

\* Nothing was asked of the driver.
Fresh(c) == granted[c] = 0 /\ queued[c] = {} /\ ~streaming[c]

MappedUpTo(c, n) == \A k \in Indices : k < n => start[c][k] = "mapped"

Ready(c) ==
  \/ /\ fd[c] = "open" /\ streaming[c]
     /\ queued[c] = Indices /\ MappedUpTo(c, VIDEO_BUFFER_NUM)
  \/ fd[c] = (IF board = "ministry" THEN "failed" ELSE "mistaken") /\ Fresh(c)

\* From the allocation on the channel is open, and its buffers are mapped and
\* queued from the first on.
BeingSetUp ==
  /\ step \in {"crop", "alloc", "map", "free", "queue", "stream"} => fd[ch] = "open"
  /\ step = "map" => i < granted[ch] /\ MappedUpTo(ch, i)
  /\ step \in {"queue", "stream"} => MappedUpTo(ch, granted[ch])
  /\ step = "queue" => queued[ch] = {k \in Indices : k < i}
  /\ step = "stream" => queued[ch] = Indices /\ granted[ch] = VIDEO_BUFFER_NUM
  /\ step \in {"open", "get_format", "set_format", "crop", "alloc"} => Fresh(ch)
  /\ step \in {"map", "free"} => queued[ch] = {}

Untouched == step # "exited" => \A c \in Channels : c > ch => Fresh(c)

SizesKnown ==
  /\ step = "set_format" /\ fd[ch] = "open" => sensor[ch] \in Sizes
  /\ step = "crop" => capture \in Sizes

IInv ==
  /\ TypeOK /\ BeingSetUp /\ Untouched /\ SizesKnown
  /\ \A c \in Channels : Finished(c) => Ready(c)
  /\ QueuedIsMapped

(***************************************************************************)
(* The invariant holds initially.                                          *)
(***************************************************************************)

LEMMA InitIInv == Init => IInv
<1> SUFFICES ASSUME Init PROVE IInv
  OBVIOUS
<1> USE DevicesAssumption DEF Init
<1>1. TypeOK
  BY DEF TypeOK, Channels, Indices
<1>2. BeingSetUp /\ Untouched /\ SizesKnown
  BY DEF BeingSetUp, Untouched, Fresh, SizesKnown, Channels, Indices
<1>3. (\A c \in Channels : Finished(c) => Ready(c)) /\ QueuedIsMapped
  BY DEF Finished, QueuedIsMapped, Channels
<1>4. QED
  BY <1>1, <1>2, <1>3 DEF IInv

(***************************************************************************)
(* Every call preserves it.                                                *)
(***************************************************************************)

\* Going on with the next channel: the one before is ready.
LEMMA NextChannelKeeps ==
  ASSUME IInv, NextChannel, TypeOK', step \notin {"exited", "running"},
         UNCHANGED <<board, start, queued, sensor, capture>>,
         \A c \in Channels : c # ch => /\ fd'[c] = fd[c] /\ granted'[c] = granted[c]
                                      /\ streaming'[c] = streaming[c],
         \A c \in Channels : c = ch => Ready(c)'
  PROVE  IInv'
<1>1. /\ ch \in 1..VIDEO_MAX_CH /\ ch' \in 1..VIDEO_MAX_CH /\ VIDEO_MAX_CH \in Nat
      /\ \/ ch = VIDEO_MAX_CH /\ step' = "running" /\ ch' = ch
         \/ ch # VIDEO_MAX_CH /\ step' = "open" /\ ch' = ch + 1
  BY DevicesAssumption DEF IInv, TypeOK, NextChannel, Channels
<1>2. ASSUME NEW c \in Channels, Finished(c)' PROVE Ready(c)'
  <2>1. CASE c = ch
    BY <2>1
  <2>2. CASE c # ch
    <3>1. Finished(c)
      BY <1>1, <1>2, <2>2 DEF Finished, Channels
    <3>2. Ready(c)
      BY <3>1 DEF IInv
    <3>3. QED
      BY <3>2, <2>2 DEF Ready, Fresh, MappedUpTo
  <2>3. QED
    BY <2>1, <2>2
<1>3. Untouched' /\ (step' = "open" => Fresh(ch)')
  <2>1. \A c \in Channels : c > ch => Fresh(c)'
    BY <1>1 DEF IInv, Untouched, Fresh, Channels
  <2>2. QED
    BY <1>1, <2>1 DEF Untouched, Fresh, Channels
<1>4. BeingSetUp'
  BY <1>1, <1>3 DEF BeingSetUp
<1>5. SizesKnown' /\ QueuedIsMapped'
  BY <1>1 DEF SizesKnown, QueuedIsMapped, IInv
<1>6. QED
  BY <1>2, <1>3, <1>4, <1>5 DEF IInv

\* Leaving the program, with the driver's queues as they are.
LEMMA ExitKeeps ==
  ASSUME IInv, Exit, TypeOK', UNCHANGED queued,
         \A c \in Channels : \A k \in queued[c] : start'[c][k] = "mapped"
  PROVE  IInv'
<1>1. BeingSetUp' /\ Untouched' /\ SizesKnown'
  BY DEF Exit, IInv, BeingSetUp, Untouched, SizesKnown
<1>2. (\A c \in Channels : Finished(c) => Ready(c))' /\ QueuedIsMapped'
  BY DEF Exit, Finished, QueuedIsMapped
<1>3. QED
  BY <1>1, <1>2 DEF IInv

\* Going on with the same channel: what concerns the others stands.
LEMMA SameChannelKeeps ==
  ASSUME IInv, TypeOK', UNCHANGED <<ch, board>>,
         step \notin {"exited", "running"}, step' \notin {"exited", "running"},
         \A c \in Channels : c # ch => /\ fd'[c] = fd[c] /\ start'[c] = start[c]
                                      /\ queued'[c] = queued[c]
                                      /\ granted'[c] = granted[c]
                                      /\ streaming'[c] = streaming[c],
         \A k \in queued'[ch] : start'[ch][k] = "mapped"
  PROVE  /\ Untouched' /\ QueuedIsMapped'
         /\ (\A c \in Channels : Finished(c) => Ready(c))'
<1>1. ch \in 1..VIDEO_MAX_CH /\ VIDEO_MAX_CH \in Nat
  BY DevicesAssumption DEF IInv, TypeOK, Channels
<1>2. Untouched'
  BY <1>1 DEF IInv, Untouched, Fresh, Channels
<1>3. QueuedIsMapped'
  <2>1. ASSUME NEW c \in Channels, NEW k \in queued'[c] PROVE start'[c][k] = "mapped"
    BY <2>1 DEF IInv, QueuedIsMapped
  <2>2. QED
    BY <2>1 DEF QueuedIsMapped
<1>4. ASSUME NEW c \in Channels, Finished(c)' PROVE Ready(c)'
  <2>1. c # ch /\ Finished(c)
    BY <1>1, <1>4 DEF Finished, Channels
  <2>2. Ready(c)
    BY <2>1 DEF IInv
  <2>3. QED
    BY <2>1, <2>2 DEF Ready, Fresh, MappedUpTo
<1>5. QED
  BY <1>2, <1>3, <1>4

\* Opening the device: what is taken for a failure ends the channel.
LEMMA OpenKeeps == ASSUME IInv, nc_v4l2_open PROVE IInv'
<1> USE DEF nc_v4l2_open, picture, buffers
<1>1. TypeOK'
  <2>1. fd' \in [Channels -> {"unopened", "open", "mistaken", "failed", "closed"}]
    BY DEF IInv, TypeOK, OpenFails, TakenForFailure
  <2>2. step' \in {"get_format", "open", "running"} /\ ch' \in Channels
    <3>1. ch \in 1..VIDEO_MAX_CH /\ VIDEO_MAX_CH \in Nat
      BY DevicesAssumption DEF IInv, TypeOK, Channels
    <3>2. NextChannel \/ (step' = "get_format" /\ UNCHANGED ch)
      BY DEF OpenFails, TakenForFailure
    <3>3. QED
      BY <3>1, <3>2 DEF NextChannel, Channels
  <2>3. QED
    BY <2>1, <2>2 DEF IInv, TypeOK
<1>2. \A c \in Channels : c # ch => fd'[c] = fd[c]
  BY DEF IInv, TypeOK, OpenFails, TakenForFailure
<1>3. CASE /\ NextChannel
           /\ \/ board = "ministry" /\ fd' = [fd EXCEPT ![ch] = "failed"]
              \/ board # "ministry" /\ fd' = [fd EXCEPT ![ch] = "mistaken"]
  <2>1. Fresh(ch) /\ ch \in Channels /\ fd \in
          [Channels -> {"unopened", "open", "mistaken", "failed", "closed"}]
    BY DEF IInv, BeingSetUp, TypeOK
  <2>2. fd'[ch] = (IF board' = "ministry" THEN "failed" ELSE "mistaken")
    BY <1>3, <2>1
  <2>3. \A c \in Channels : c = ch => Ready(c)'
    BY <1>3, <2>1, <2>2 DEF Ready, Fresh
  <2>4. QED
    BY <1>1, <1>2, <1>3, <2>3, NextChannelKeeps
<1>4. CASE step' = "get_format" /\ UNCHANGED ch
  <2>1. \A k \in queued'[ch] : start'[ch][k] = "mapped"
    BY DEF IInv, BeingSetUp, Fresh
  <2>2. BeingSetUp' /\ SizesKnown'
    BY <1>4 DEF IInv, BeingSetUp, Fresh, SizesKnown
  <2>3. QED
    BY <1>1, <1>2, <1>4, <2>1, <2>2, SameChannelKeeps DEF IInv
<1>5. QED
  BY <1>3, <1>4 DEF OpenFails, TakenForFailure

LEMMA GetFormatKeeps == ASSUME IInv, nc_v4l2_get_format PROVE IInv'
<1> USE DEF nc_v4l2_get_format, buffers
<1>1. TypeOK'
  <2>1. fd' \in [Channels -> {"unopened", "open", "mistaken", "failed", "closed"}]
    BY DEF IInv, TypeOK
  <2>2. sensor' \in [Channels -> (Nat \X Nat) \cup {None}]
    <3>1. <<0, 0>> \in Nat \X Nat /\ Sizes \subseteq Nat \X Nat
      BY SizesAssumption
    <3>2. QED
      BY <3>1 DEF IInv, TypeOK
  <2>3. QED
    BY <2>1, <2>2 DEF IInv, TypeOK
<1>2. \A c \in Channels : c # ch => fd'[c] = fd[c]
  BY DEF IInv, TypeOK
<1>3. BeingSetUp'
  BY DEF IInv, BeingSetUp, Fresh
<1>4. SizesKnown'
  BY DEF IInv, TypeOK, SizesKnown
<1>5. \A k \in queued'[ch] : start'[ch][k] = "mapped"
  BY DEF IInv, BeingSetUp, Fresh
<1>6. QED
  BY <1>1, <1>2, <1>3, <1>4, <1>5, SameChannelKeeps DEF IInv

LEMMA SetFormatKeeps == ASSUME IInv, nc_v4l2_set_format PROVE IInv'
<1> USE DEF nc_v4l2_set_format, buffers
<1>1. CASE fd[ch] = "open" /\ RecordSize /\ step' = "crop" /\ UNCHANGED ch
  <2>1. sensor[ch] \in Sizes
    BY <1>1 DEF IInv, SizesKnown
  <2>2. TypeOK'
    BY <1>1, <2>1 DEF IInv, TypeOK, RecordSize
  <2>3. BeingSetUp' /\ SizesKnown'
    BY <1>1, <2>1 DEF IInv, BeingSetUp, Fresh, SizesKnown, RecordSize
  <2>4. \A k \in queued'[ch] : start'[ch][k] = "mapped"
    BY DEF IInv, BeingSetUp, Fresh
  <2>5. QED
    BY <1>1, <2>2, <2>3, <2>4, SameChannelKeeps DEF IInv
<1>2. CASE Exit /\ UNCHANGED capture
  <2>1. TypeOK'
    BY <1>2 DEF IInv, TypeOK, Exit
  <2>2. QED
    BY <1>2, <2>1, ExitKeeps DEF IInv, QueuedIsMapped
<1>3. QED
  BY <1>1, <1>2

\* What the driver is told is of the right form.
LEMMA SelectionTyped ==
  ASSUME NEW g \in Configs, capture \in Sizes
  PROVE  Result(g) \in Nat \X Nat /\ Selection(g) \in Window
<1>1. /\ g.pos \in Nat \X Nat /\ g.crop \in Nat \X Nat /\ g.ds \in Nat \X Nat
      /\ capture \in Nat \X Nat
  BY SizesAssumption
<1>2. QED
  BY <1>1 DEF Result, Selection, Window

LEMMA CropKeeps == ASSUME IInv, Crop PROVE IInv'
<1> USE DEF Crop, buffers
<1>1. capture \in Sizes /\ ch \in Channels /\ config[ch] \in Configs
  BY DEF IInv, TypeOK, SizesKnown
<1>2. announced' \in [Channels -> (Nat \X Nat) \cup {None}]
        /\ selection' \in [Channels -> Window \cup {None}]
  <2>1. CASE UNCHANGED <<announced, selection>>
    BY <2>1 DEF IInv, TypeOK
  <2>2. CASE /\ announced' = [announced EXCEPT ![ch] = Result(config[ch])]
             /\ \/ selection' = [selection EXCEPT ![ch] = Selection(config[ch])]
                \/ UNCHANGED selection
    BY <1>1, <2>2, SelectionTyped DEF IInv, TypeOK
  <2>3. QED
    BY <2>1, <2>2 DEF set_vdma_crop_ds
<1>3. TypeOK'
  <2>1. step' \in {"alloc", "exited"} /\ UNCHANGED ch
    BY DEF Exit
  <2>2. QED
    BY <1>2, <2>1 DEF IInv, TypeOK
<1>4. CASE Exit
  BY <1>3, <1>4, ExitKeeps DEF IInv, QueuedIsMapped
<1>5. CASE step' = "alloc" /\ UNCHANGED ch
  <2>1. BeingSetUp' /\ SizesKnown'
    BY <1>5 DEF IInv, BeingSetUp, Fresh, SizesKnown
  <2>2. \A k \in queued'[ch] : start'[ch][k] = "mapped"
    BY DEF IInv, BeingSetUp, Fresh
  <2>3. QED
    BY <1>3, <1>5, <2>1, <2>2, SameChannelKeeps DEF IInv
<1>6. QED
  BY <1>4, <1>5

LEMMA AllocKeeps == ASSUME IInv, nc_v4l2_alloc_mapped PROVE IInv'
<1> USE DEF nc_v4l2_alloc_mapped, picture
<1>1. TypeOK'
  <2>1. granted' \in [Channels -> 0..VIDEO_BUFFER_NUM]
    BY DevicesAssumption DEF IInv, TypeOK
  <2>2. i' \in Indices
    BY DevicesAssumption DEF Indices
  <2>3. step' \in {"map", "exited"} /\ UNCHANGED ch
    BY DEF Exit
  <2>4. QED
    BY <2>1, <2>2, <2>3 DEF IInv, TypeOK
<1>2. CASE Exit
  BY <1>1, <1>2, ExitKeeps DEF IInv, QueuedIsMapped
<1>3. CASE /\ \E n \in 1..VIDEO_BUFFER_NUM : granted' = [granted EXCEPT ![ch] = n]
           /\ step' = "map" /\ UNCHANGED ch
  <2>1. granted'[ch] > 0
    BY <1>3, DevicesAssumption DEF IInv, TypeOK
  <2>2. BeingSetUp' /\ SizesKnown'
    BY <1>3, <2>1, DevicesAssumption
    DEF IInv, BeingSetUp, Fresh, SizesKnown, MappedUpTo, Indices
  <2>3. \A k \in queued'[ch] : start'[ch][k] = "mapped"
    BY DEF IInv, BeingSetUp, Fresh
  <2>4. QED
    BY <1>1, <1>3, <2>2, <2>3, SameChannelKeeps DEF IInv
<1>4. QED
  BY <1>2, <1>3

LEMMA MapKeeps == ASSUME IInv, Map PROVE IInv'
<1> USE DEF Map, picture
<1>1. /\ ch \in Channels /\ i \in Indices /\ i < granted[ch] /\ MappedUpTo(ch, i)
      /\ granted[ch] \in 0..VIDEO_BUFFER_NUM /\ VIDEO_BUFFER_NUM \in Nat
      /\ fd[ch] = "open" /\ queued[ch] = {}
  BY DevicesAssumption DEF IInv, TypeOK, BeingSetUp
<1>2. start' \in [Channels -> [Indices -> {"NULL", "mapped", "MAP_FAILED"}]]
        /\ \A c \in Channels : c # ch => start'[c] = start[c]
  <2>1. start \in [Channels -> [Indices -> {"NULL", "mapped", "MAP_FAILED"}]]
    BY DEF IInv, TypeOK
  <2>2. \/ UNCHANGED start
        \/ start' = [start EXCEPT ![ch][i] = "mapped"]
        \/ start' = [start EXCEPT ![ch][i] = "MAP_FAILED"]
    OBVIOUS
  <2>3. QED
    BY <1>1, <2>1, <2>2
<1>3. i' \in Indices
  BY <1>1 DEF MappedAll, Indices
<1>4. TypeOK'
  BY <1>2, <1>3 DEF IInv, TypeOK
<1>5. ASSUME start' = [start EXCEPT ![ch][i] = "mapped"]
      PROVE  \A k \in Indices : k < i + 1 => start'[ch][k] = "mapped"
  <2>1. start'[ch] = [start[ch] EXCEPT ![i] = "mapped"] /\ start[ch] \in
          [Indices -> {"NULL", "mapped", "MAP_FAILED"}]
    BY <1>1, <1>5 DEF IInv, TypeOK
  <2>2. ASSUME NEW k \in Indices, k < i + 1 PROVE start'[ch][k] = "mapped"
    <3>1. k = i \/ k < i
      BY <1>1, <2>2 DEF Indices
    <3>2. QED
      BY <1>1, <2>1, <3>1 DEF MappedUpTo
  <2>3. QED
    BY <2>2
<1>6. BeingSetUp'
  <2>1. CASE step' = "free"
    BY <1>1, <2>1 DEF BeingSetUp
  <2>2. CASE start' = [start EXCEPT ![ch][i] = "mapped"] /\ ~MappedAll /\ i' = i + 1
             /\ step' = "map"
    <3>1. i' < granted[ch]
      BY <1>1, <2>2 DEF MappedAll, Indices
    <3>2. \A k \in Indices : k < i' => start'[ch][k] = "mapped"
      BY <1>5, <2>2
    <3>3. QED
      BY <1>1, <2>2, <3>1, <3>2 DEF BeingSetUp, MappedUpTo
  <2>3. CASE start' = [start EXCEPT ![ch][i] = "mapped"] /\ MappedAll /\ i' = 0
             /\ step' = "queue"
    <3>1. \A k \in Indices : k < granted[ch] => start'[ch][k] = "mapped"
      BY <1>5, <2>3 DEF MappedAll
    <3>2. {k \in Indices : k < 0} = {}
      BY <1>1 DEF Indices
    <3>3. QED
      BY <1>1, <2>3, <3>1, <3>2 DEF BeingSetUp, MappedUpTo
  <2>4. QED
    BY <2>1, <2>2, <2>3
<1>7. SizesKnown'
  BY DEF SizesKnown
<1>8. \A k \in queued'[ch] : start'[ch][k] = "mapped"
  BY <1>1
<1>9. QED
  BY <1>2, <1>4, <1>6, <1>7, <1>8, SameChannelKeeps DEF IInv

LEMMA FreeKeeps == ASSUME IInv, nc_v4l2_free_mapped PROVE IInv'
<1> USE DEF nc_v4l2_free_mapped, picture
<1>1. ch \in Channels /\ queued[ch] = {}
  BY DEF IInv, TypeOK, BeingSetUp
<1>2. /\ start' \in [Channels -> [Indices -> {"NULL", "mapped", "MAP_FAILED"}]]
      /\ \A c \in Channels : c # ch => start'[c] = start[c]
  BY <1>1 DEF IInv, TypeOK, Unmapped
<1>3. granted' \in [Channels -> 0..VIDEO_BUFFER_NUM]
  BY DevicesAssumption DEF IInv, TypeOK
<1>4. TypeOK'
  BY <1>2, <1>3 DEF IInv, TypeOK, Exit
<1>5. \A c \in Channels : \A k \in queued[c] : start'[c][k] = "mapped"
  BY <1>1, <1>2 DEF IInv, QueuedIsMapped
<1>6. QED
  BY <1>4, <1>5, ExitKeeps

LEMMA QueueKeeps == ASSUME IInv, nc_v4l2_queue_buffer PROVE IInv'
<1> USE DEF nc_v4l2_queue_buffer, picture
<1>1. /\ ch \in Channels /\ i \in Indices /\ MappedUpTo(ch, granted[ch])
      /\ queued[ch] = {k \in Indices : k < i}
      /\ granted[ch] \in 0..VIDEO_BUFFER_NUM /\ VIDEO_BUFFER_NUM \in Nat
      /\ fd[ch] = "open"
  BY DevicesAssumption DEF IInv, TypeOK, BeingSetUp
<1>2. CASE Exit /\ UNCHANGED <<i, queued>>
  <2>1. TypeOK'
    BY <1>2 DEF IInv, TypeOK, Exit
  <2>2. QED
    BY <1>2, <2>1, ExitKeeps DEF IInv, QueuedIsMapped
<1>3. CASE /\ i < granted[ch] /\ UNCHANGED ch
           /\ queued' = [queued EXCEPT ![ch] = @ \cup {i}]
           /\ IF i + 1 = VIDEO_BUFFER_NUM THEN step' = "stream" /\ UNCHANGED i
                                          ELSE i' = i + 1 /\ UNCHANGED step
  <2>1. /\ queued' \in [Channels -> SUBSET Indices]
        /\ \A c \in Channels : c # ch => queued'[c] = queued[c]
        /\ queued'[ch] = {k \in Indices : k < i + 1}
    BY <1>1, <1>3 DEF IInv, TypeOK, Indices
  <2>2. i' \in Indices
    BY <1>1, <1>3 DEF Indices
  <2>3. TypeOK'
    BY <1>3, <2>1, <2>2 DEF IInv, TypeOK
  <2>4. BeingSetUp'
    <3>1. CASE i + 1 = VIDEO_BUFFER_NUM
      <4>1. queued'[ch] = Indices /\ granted[ch] = VIDEO_BUFFER_NUM
        BY <1>1, <1>3, <2>1, <3>1 DEF Indices
      <4>2. QED
        BY <1>1, <1>3, <3>1, <4>1 DEF BeingSetUp, MappedUpTo
    <3>2. CASE i + 1 # VIDEO_BUFFER_NUM
      BY <1>1, <1>3, <2>1, <3>2 DEF BeingSetUp, MappedUpTo
    <3>3. QED
      BY <3>1, <3>2
  <2>5. SizesKnown'
    BY <1>3 DEF SizesKnown
  <2>6. \A k \in queued'[ch] : start'[ch][k] = "mapped"
    BY <1>1, <1>3, <2>1 DEF MappedUpTo, Indices
  <2>7. QED
    BY <1>3, <2>1, <2>3, <2>4, <2>5, <2>6, SameChannelKeeps DEF IInv
<1>4. QED
  BY <1>2, <1>3

LEMMA StreamKeeps == ASSUME IInv, nc_v4l2_start_capture PROVE IInv'
<1> USE DEF nc_v4l2_start_capture, picture
<1>1. /\ ch \in Channels /\ fd[ch] = "open" /\ queued[ch] = Indices
      /\ MappedUpTo(ch, VIDEO_BUFFER_NUM)
  BY DEF IInv, TypeOK, BeingSetUp
<1>2. CASE Exit
  <2>1. TypeOK'
    BY <1>2 DEF IInv, TypeOK, Exit
  <2>2. QED
    BY <1>2, <2>1, ExitKeeps DEF IInv, QueuedIsMapped
<1>3. CASE streaming' = [streaming EXCEPT ![ch] = TRUE] /\ NextChannel
  <2>1. /\ streaming' \in [Channels -> BOOLEAN] /\ streaming'[ch]
        /\ \A c \in Channels : c # ch => streaming'[c] = streaming[c]
    BY <1>1, <1>3 DEF IInv, TypeOK
  <2>2. TypeOK'
    BY <1>3, <2>1, DevicesAssumption DEF IInv, TypeOK, NextChannel, Channels
  <2>3. \A c \in Channels : c = ch => Ready(c)'
    BY <1>1, <1>3, <2>1 DEF Ready, MappedUpTo
  <2>4. QED
    BY <1>3, <2>1, <2>2, <2>3, NextChannelKeeps
<1>4. QED
  BY <1>2, <1>3

LEMMA NextIInv == IInv /\ [Next]_vars => IInv'
<1>1. ASSUME IInv, UNCHANGED vars PROVE IInv'
  BY <1>1 DEF IInv, vars, picture, buffers, TypeOK, BeingSetUp, Untouched, SizesKnown,
              Finished, Ready, Fresh, MappedUpTo, QueuedIsMapped
<1>2. QED
  BY <1>1, OpenKeeps, GetFormatKeeps, SetFormatKeeps, CropKeeps, AllocKeeps, MapKeeps,
     FreeKeeps, QueueKeeps, StreamKeeps DEF Next

(***************************************************************************)
(* What the DMA is told: nothing before the crop of the channel, and then  *)
(* within the size that was recorded for the channel itself.               *)
(***************************************************************************)

NotTold(c) == announced[c] = None /\ selection[c] = None

TellsOwn ==
  /\ \A c \in Channels : c > ch => NotTold(c)
  /\ step \in {"open", "get_format", "set_format", "crop"} => NotTold(ch)
  /\ step = "crop" => capture = sensor[ch]
  /\ SelectionFits

\* The quotient is compared with 4.0 after it has been cut to a whole number.
LEMMA QuotientBounds ==
  ASSUME NEW a \in Nat, NEW b \in Nat \ {0}, a \div b <= 4 PROVE a < 5 * b
<1>1. a = b * (a \div b) + (a % b) /\ a % b < b /\ a \div b \in Nat
  OBVIOUS
<1>2. b * (a \div b) <= b * 4
  BY <1>1
<1>3. QED
  BY <1>1, <1>2

\* What lies inside the recorded size, but for a sum that wrapped.
LEMMA InsideFits ==
  ASSUME NEW g \in Configs, Inside(g), NEW d \in {1, 2}
  PROVE  g.pos[d] + g.crop[d] <= capture[d] \/ g.pos[d] + g.crop[d] >= UINT
<1> DEFINE sum == g.pos[d] + g.crop[d]
<1>1. sum \in Nat /\ UINT \in Nat \ {0}
  BY SizesAssumption
<1>2. sum % UINT <= capture[d]
  BY DEF Inside
<1> HIDE DEF sum
<1>3. sum < UINT => sum % UINT = sum
  BY <1>1
<1>4. sum <= capture[d] \/ sum >= UINT
  BY <1>1, <1>2, <1>3
<1>5. QED
  BY <1>4 DEF sum

\* A verified request fits the recorded size.
LEMMA VerifiedFits ==
  ASSUME NEW g \in Configs, capture \in Sizes, Verified(g), NEW d \in {1, 2}
  PROVE  /\ Selection(g).to = Result(g)
         /\ \/ Selection(g).pos[d] + Selection(g).from[d] <= capture[d]
            \/ Selection(g).pos[d] + Selection(g).from[d] >= UINT
         /\ \/ Selection(g).from[d] < 5 * Selection(g).to[d]
            \/ Selection(g).from = Selection(g).to
<1>1. /\ g.pos \in Nat \X Nat /\ g.crop \in Nat \X Nat
      /\ g.ds \in (Nat \ {0}) \X (Nat \ {0})
      /\ capture \in (Nat \ {0}) \X (Nat \ {0})
      /\ g.img_process \in {"MODE_CROP", "MODE_DS", "MODE_CROP_TO_DS", "MODE_BYPASS"}
  BY SizesAssumption
<1>2. CASE g.img_process = "MODE_CROP"
  <2>1. Inside(g)
    BY <1>2 DEF Verified
  <2>2. QED
    BY <1>1, <1>2, <2>1, InsideFits DEF Selection, Result, Crops
<1>3. CASE g.img_process = "MODE_DS"
  <2>1. Ratio(capture, g.ds)
    BY <1>3 DEF Verified
  <2>2. capture[d] < 5 * g.ds[d]
    BY <1>1, <2>1, QuotientBounds DEF Ratio
  <2>3. QED
    BY <1>1, <1>3, <2>2 DEF Selection, Result, Crops
<1>4. CASE g.img_process = "MODE_CROP_TO_DS"
  <2>1. Inside(g) /\ Ratio(g.crop, g.ds)
    BY <1>4 DEF Verified
  <2>2. g.crop[d] < 5 * g.ds[d]
    BY <1>1, <2>1, QuotientBounds DEF Ratio
  <2>3. QED
    BY <1>1, <1>4, <2>1, <2>2, InsideFits DEF Selection, Result, Crops
<1>5. CASE g.img_process = "MODE_BYPASS"
  BY <1>1, <1>5 DEF Selection, Result, Crops
<1>6. QED
  BY <1>1, <1>2, <1>3, <1>4, <1>5

\* One channel of SelectionFits.
Fits(c) ==
  selection[c] # None =>
    /\ selection[c].to = announced[c]
    /\ \A d \in {1, 2} :
         /\ \/ selection[c].pos[d] + selection[c].from[d] <= sensor[c][d]
            \/ selection[c].pos[d] + selection[c].from[d] >= UINT
         /\ \/ selection[c].from[d] < 5 * selection[c].to[d]
            \/ selection[c].from = selection[c].to

LEMMA FitsEach == SelectionFits <=> \A c \in Channels : Fits(c)
  BY DEF SelectionFits, Fits

LEMMA CropTells == ASSUME IInv, TellsOwn, Crop PROVE TellsOwn'
<1> USE DEF Crop, buffers
<1>1. /\ ch \in Channels /\ config[ch] \in Configs /\ capture \in Sizes
      /\ capture = sensor[ch] /\ NotTold(ch) /\ UNCHANGED ch
      /\ step' \in {"exited", "alloc"}
  BY DEF IInv, TypeOK, SizesKnown, TellsOwn, Exit
<1>2. CASE UNCHANGED <<announced, selection>>
  BY <1>1, <1>2 DEF TellsOwn, NotTold, SelectionFits
<1>3. CASE /\ Verified(config[ch])
           /\ announced' = [announced EXCEPT ![ch] = Result(config[ch])]
           /\ \/ selection' = [selection EXCEPT ![ch] = Selection(config[ch])]
              \/ UNCHANGED selection
  <2>1. \A c \in Channels : c # ch => announced'[c] = announced[c]
                                     /\ selection'[c] = selection[c]
    BY <1>1, <1>3 DEF IInv, TypeOK
  <2>2. /\ announced'[ch] = Result(config[ch])
        /\ selection'[ch] = Selection(config[ch]) \/ selection'[ch] = None
    BY <1>1, <1>3 DEF IInv, TypeOK, NotTold
  <2>3. \A d \in {1, 2} :
          /\ Selection(config[ch]).to = Result(config[ch])
          /\ \/ Selection(config[ch]).pos[d] + Selection(config[ch]).from[d] <= capture[d]
             \/ Selection(config[ch]).pos[d] + Selection(config[ch]).from[d] >= UINT
          /\ \/ Selection(config[ch]).from[d] < 5 * Selection(config[ch]).to[d]
             \/ Selection(config[ch]).from = Selection(config[ch]).to
    BY <1>1, <1>3, VerifiedFits
  <2>4. ASSUME NEW c \in Channels PROVE Fits(c)'
    <3>1. CASE c = ch
      BY <1>1, <2>2, <2>3, <3>1 DEF Fits
    <3>2. CASE c # ch
      BY <2>1, <3>2, FitsEach DEF Fits, TellsOwn
    <3>3. QED
      BY <3>1, <3>2
  <2>5. SelectionFits'
    BY <2>4 DEF SelectionFits, Fits
  <2>6. \A c \in Channels : c > ch' => NotTold(c)'
    BY <1>1, <2>1 DEF TellsOwn, NotTold, Channels
  <2>7. QED
    BY <1>1, <2>5, <2>6 DEF TellsOwn
<1>4. QED
  BY <1>2, <1>3 DEF set_vdma_crop_ds

\* The other calls tell the DMA nothing.
LEMMA OthersTell ==
  ASSUME IInv, TellsOwn, UNCHANGED <<announced, selection>>,
         nc_v4l2_open \/ nc_v4l2_get_format \/ nc_v4l2_set_format \/ nc_v4l2_alloc_mapped
           \/ Map \/ nc_v4l2_free_mapped \/ nc_v4l2_queue_buffer \/ nc_v4l2_start_capture
  PROVE  TellsOwn'
<1>1. ch \in 1..VIDEO_MAX_CH /\ VIDEO_MAX_CH \in Nat
  BY DevicesAssumption DEF IInv, TypeOK, Channels
<1>2. CASE nc_v4l2_get_format
  <2>1. /\ step = "get_format" /\ step' = "set_format" /\ UNCHANGED ch /\ NotTold(ch)
        /\ \A c \in Channels : c # ch => sensor'[c] = sensor[c]
    BY <1>2 DEF nc_v4l2_get_format, IInv, TypeOK, TellsOwn
  <2>2. ASSUME NEW c \in Channels PROVE Fits(c)'
    BY <2>1, FitsEach DEF Fits, TellsOwn, NotTold
  <2>3. SelectionFits'
    BY <2>2 DEF SelectionFits, Fits
  <2>4. QED
    BY <2>1, <2>3 DEF TellsOwn, NotTold
<1>3. CASE nc_v4l2_set_format
  <2>1. /\ UNCHANGED <<ch, sensor>> /\ NotTold(ch)
        /\ step' \in {"crop", "exited"} /\ (step' = "crop" => capture' = sensor[ch])
    BY <1>3 DEF nc_v4l2_set_format, RecordSize, Exit, TellsOwn
  <2>2. QED
    BY <2>1 DEF TellsOwn, NotTold, SelectionFits
<1>4. ASSUME UNCHANGED sensor,
             \/ UNCHANGED ch /\ step' \notin {"open", "crop", "set_format"}
                /\ (step' = "get_format" => step = "open")
             \/ NextChannel
      PROVE  TellsOwn'
  <2>1. SelectionFits'
    BY <1>4 DEF SelectionFits, TellsOwn
  <2>2. CASE NextChannel
    <3>1. \/ ch = VIDEO_MAX_CH /\ step' = "running" /\ ch' = ch
          \/ ch # VIDEO_MAX_CH /\ step' = "open" /\ ch' = ch + 1
      BY <2>2 DEF NextChannel
    <3>2. \A c \in Channels : c > ch => NotTold(c)'
      BY DEF TellsOwn, NotTold
    <3>3. CASE ch = VIDEO_MAX_CH /\ step' = "running" /\ ch' = ch
      BY <2>1, <3>2, <3>3 DEF TellsOwn
    <3>4. CASE ch # VIDEO_MAX_CH /\ step' = "open" /\ ch' = ch + 1
      <4>1. ch' \in Channels /\ ch' > ch
        BY <1>1, <3>4 DEF Channels
      <4>2. announced'[ch'] = None /\ selection'[ch'] = None
        BY <3>2, <4>1 DEF NotTold
      <4>3. \A c \in Channels : c > ch' => NotTold(c)'
        BY <1>1, <3>2, <3>4 DEF Channels
      <4>4. QED
        BY <2>1, <3>4, <4>2, <4>3 DEF TellsOwn, NotTold
    <3>5. QED
      BY <3>1, <3>3, <3>4
  <2>3. CASE UNCHANGED ch /\ step' \notin {"open", "crop", "set_format"}
             /\ (step' = "get_format" => step = "open")
    BY <2>1, <2>3 DEF TellsOwn, NotTold
  <2>4. QED
    BY <1>4, <2>2, <2>3
<1>5. CASE nc_v4l2_open
  BY <1>4, <1>5 DEF nc_v4l2_open, OpenFails, TakenForFailure, picture
<1>6. CASE nc_v4l2_alloc_mapped
  BY <1>4, <1>6 DEF nc_v4l2_alloc_mapped, picture, Exit
<1>7. CASE Map
  BY <1>4, <1>7 DEF Map, picture
<1>8. CASE nc_v4l2_free_mapped
  BY <1>4, <1>8 DEF nc_v4l2_free_mapped, picture, Exit
<1>9. CASE nc_v4l2_queue_buffer
  BY <1>4, <1>9 DEF nc_v4l2_queue_buffer, picture, Exit
<1>10. CASE nc_v4l2_start_capture
  BY <1>4, <1>10 DEF nc_v4l2_start_capture, picture, Exit
<1>11. QED
  BY <1>2, <1>3, <1>5, <1>6, <1>7, <1>8, <1>9, <1>10

LEMMA NextTells == IInv /\ TellsOwn /\ [Next]_vars => TellsOwn'
<1>1. ASSUME TellsOwn, UNCHANGED vars PROVE TellsOwn'
  BY <1>1 DEF vars, picture, TellsOwn, NotTold, SelectionFits
<1>2. ASSUME IInv, TellsOwn, Next PROVE TellsOwn'
  <2>1. CASE Crop
    BY <1>2, <2>1, CropTells
  <2>2. CASE nc_v4l2_open \/ nc_v4l2_get_format \/ nc_v4l2_set_format
             \/ nc_v4l2_alloc_mapped \/ Map \/ nc_v4l2_free_mapped
             \/ nc_v4l2_queue_buffer \/ nc_v4l2_start_capture
    <3>1. UNCHANGED <<announced, selection>>
      BY <2>2 DEF nc_v4l2_open, nc_v4l2_get_format, nc_v4l2_set_format,
                  nc_v4l2_alloc_mapped, Map, nc_v4l2_free_mapped,
                  nc_v4l2_queue_buffer, nc_v4l2_start_capture, picture
    <3>2. QED
      BY <1>2, <2>2, <3>1, OthersTell
  <2>3. QED
    BY <1>2, <2>1, <2>2 DEF Next
<1>3. QED
  BY <1>1, <1>2

LEMMA InitTells == Init => TellsOwn
  BY DevicesAssumption DEF Init, TellsOwn, NotTold, SelectionFits, Channels

(***************************************************************************)
(* The theorems.                                                           *)
(***************************************************************************)

LEMMA Invariant == Spec => []IInv
  BY InitIInv, NextIInv, PTL DEF Spec

\* Every variable of the start of the devices keeps its type: no channel and no
\* buffer beyond those there are, whatever call fails.
THEOREM TypeCorrect == Spec => []TypeOK
<1>1. IInv => TypeOK
  BY DEF IInv
<1>2. QED
  BY <1>1, Invariant, PTL

\* main() gets to its loop only with every channel open, mapped, queued and
\* streaming, or, on the ministry's board, with a channel that did not open.
THEOREM RunningMeansReady == Spec => []RunningMeansStreaming
<1>1. IInv => RunningMeansStreaming
  <2> SUFFICES ASSUME IInv, step = "running", NEW c \in Channels PROVE Ready(c)
    BY DevicesAssumption DEF RunningMeansStreaming, Ready, Fresh, MappedUpTo, Indices
  <2>1. Finished(c)
    BY DEF Finished
  <2>2. QED
    BY <2>1 DEF IInv
<1>2. QED
  BY <1>1, Invariant, PTL

\* What the DMA reads lies within the picture of the channel's own sensor,
\* unless place and size add up to UINT or more; it is scaled down by less than
\* five and leaves at the announced size.
THEOREM RequestsFit == Spec => []SelectionFits
<1>1. Init /\ [][Next]_vars /\ []IInv => []TellsOwn
  BY InitTells, NextTells, PTL
<1>2. TellsOwn => SelectionFits
  BY DEF TellsOwn
<1>3. QED
  BY <1>1, <1>2, Invariant, PTL DEF Spec

\* No index that VIDIOC_DQBUF can return is of a buffer that is not mapped.
THEOREM QueuedBuffersAreMapped == Spec => []QueuedIsMapped
<1>1. IInv => QueuedIsMapped
  BY DEF IInv
<1>2. QED
  BY <1>1, Invariant, PTL

=============================================================================
