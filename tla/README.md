# Verification of project_OHHYUNSUK

The repository holds four independent designs:

| design | directory | what it is |
|---|---|---|
| elevator | `src/elevator_pj` | a Verilog elevator controller with a serial console |
| V2V cars | `src/V2V_car_pj` | C programs on car boards and a ministry board that exchange their state over TCP and brake for each other |
| RISC-V | `src/RISCV_pj` | a five-stage pipelined RV32 subset in Verilog |
| CNN accelerator | `src/SoC_pj` | a Verilog LeNet-1 accelerator behind AXI |

Modelled are the elevator controller and its console; of a car board the speed control,
the lane changes, the links, the receiver of the driver's buttons, the start of the
cameras and the way of a picture to the network; of the ministry's board the
links, the reports and the start of its camera; and the RISC-V pipeline.  Not modelled is
the accelerator (section 6).

## 1. Inventory

### Elevator

| component | state | operations |
|---|---|---|
| `ELEVATOR_FSM` | phase, floor, direction, call bits per floor, tick counter, what an emergency stop interrupted, open-button timer, four drive outputs | one branch per phase at each clock edge, call registration, emergency stop |
| `ELEVATOR_TOP` | tick divider | one tick per second; debounced buttons, **undebounced** emergency input |
| `CMD_PARSER` | parser state, floor number (8 bits) | one byte of `<floor>UP` / `<floor>DOWN` + Enter |
| `ELEVATOR_INTERFACE` | call register, quiet mode, error sender, status sender | every second a status frame, an error reply that cuts it off |
| `UART_RX/TX`, `DEBOUNCER`, `SEVEN_SEGMENT` | bit counters | bytes, levels, segments |

Console bytes go to the parser, its call to the controller's call registers; the
controller's outputs go to the status sender.  Hard: calls that arrive in the very
cycle in which they are cleared, emergency stops at any cycle, equality tests
on narrow counters that several paths carry along, fairness of scheduling.
Correct means: the door is shut while the motor runs; a moving car heads for a call
and stops only at one; every call is answered; an interrupted phase is resumed.

### V2V cars

| component | state | operations |
|---|---|---|
| render loop (`wayland_npu_app.c`) | speed, position, stop and slowdown in progress, camera warning and brake, shown decision and its age, weather and congestion | per frame: camera result, own buttons, every message in the mailbox, expiry; per second: speed and position; every 40 s: reset of the demo cycle |
| lane changes (`wayland_npu_app.c`) | lane, reservation, last message of each peer | reserve, cancel, execute; remember peers; broadcast the signal |
| camera start (`v4l2_interface.c`) | descriptor, picture size, buffers and DMA window of each channel | open, format, crop and scale, request, map and queue buffers, stream; clean up after a failure |
| pictures (`wayland_npu_app.c`, `cnn_task`) | buffers of the driver, message queue of the kernel, memory on its way to the network | take a buffer, convert, send, give back; receive, run, free; SIGINT |
| button receiver (`serial_gui.c`) | serial descriptor, latest button | read, count ends of file, reopen; stop |
| links (`v2v_comm.c`) | peer table, descriptors, one-slot mailbox | dial and retry, accept, receive threads, send to all |
| topology (`v2v_topology.c`) | mapping table | smaller id dials larger |
| ministry board | weather and congestion seen, time of the last report | the same link code; analyses every five seconds, translates, sends to all cars |

Hard: one thread per connection plus dialing, accepting and rendering threads on
one table; restarts and power losses; several handlers that each change some of
the four related variables `g_slow_active`, `g_slow_pending`, `g_stop_active`,
`g_v2v_action`; lost messages in the mailbox.  Correct means: whoever is warned
stops, a stop is braked for as a stop, a slowdown cuts once, a release restores
the speed, and after every restart the boards find each other again; a lane change
comes after its delay and its announcement, and not after its cancellation; no
program runs on with a half opened camera, every allocated picture has one owner, and
the cars come to know what the ministry's board sees.

### RISC-V

Five stages with forwarding decided a stage early (`DATAPATH.v`), a hazard unit
(load stall, flush), decoders with don't-cares.  Correct means: the sequence of
register and memory writes is that of the instructions one at a time.

### CNN accelerator

`TOP.v` runs load, image, convolution and done states with counters and an AXI
stream handshake; line buffers and adder trees carry valid bits beside the data.
Correct means: each pixel and weight is taken once, results are counted right, and
sums fit their widths.

## 2. Plan

What moves something physical and what several actors share came first.

| | modules | abstract specification or main promise | proofs |
|---|---|---|---|
| 1 | `ElevatorFSM`, `MCElevatorFSM`, `ElevatorService` | the controller implements the service its passengers see | `ElevatorFSM_proofs` |
| 2 | `VehicleControl`, `MCVehicleControl` | stops are braked for, slowdowns end | `VehicleControl_proofs` |
| 3 | `V2VLink` | one link per pair of boards, again after outages | `V2VLink_proofs` |
| 4 | `Instructions`, `InstructionSet`, `Pipeline`, `MCPipeline` | the pipeline implements the instruction set | `Pipeline_proofs` |
| 5 | `ElevatorConsole` | replies and frames share a pin | `ElevatorConsole_proofs` |
| 6 | `LaneChange`, `MCLaneChange` | changes wait, are announced and wanted | `LaneChange_proofs` |
| 7 | `CnnPipeline` | memory and pictures on their way to the network | `CnnPipeline_proofs` |
| 8 | `CaptureSetup`, `MCCaptureSetup` | all or nothing at the start | `CaptureSetup_proofs` |
| 9 | `SerialPort` | the port comes back | `V2VLink_proofs` |
| 10 | `MinistryBoard` | the cars know the road's condition | `V2VLink_proofs` |

The modules meet in their promises.  What `ElevatorConsole` is proved to send
(`CallsAreServed`) is what `ElevatorFSM` assumes of its `Calls`.  `VehicleControl` and
`LaneChange` cut one render loop in two along the variables: the speed is an arbitrary
value to `LaneChange`, the lane an arbitrary difference to `VehicleControl`.  `V2VLink`
says when two boards are linked, `MinistryBoard` and `VehicleControl` what happens to
messages on links that come and go.  `SerialPort` delivers the buttons that
`VehicleControl.Press` and `LaneChange.Press` take.

Worth adding: `Analyze` and lane changes in one frame, with two cars that both want the
same gap; an abstract link of two boards, with 3 shown to implement it; the console's
stream of lines as the listener sees it, with 5 shown to implement it; the accelerator,
should its missing files be added.

## 3. The modules

### `ElevatorFSM`

A step is one rising clock edge of `ELEVATOR_FSM.v` outside reset; the record `in`
holds the levels sampled there (tick, emergency, two buttons, at most one call).
There is one action per phase (`Idle`, `DoorOpening`, `Dwell`, `DoorClosing`,
`MovingUp`, `MovingDown`), one for an edge with the emergency input high
(`Emergency`) and one for its release (`EmgReleased`).  Registers keep their
names; the call registers `hall_up`, `hall_down` are sets of floors.  `door`, `trip` and
`forgotten` are history that no action reads: what the drives did to the door, the direction
of the current trip, and whether the controller has lost the memory of an open door.

Assumptions: reset happens at power-on only; `car_call` is never set in the code
and is therefore left out; calls are those the parser lets through (no UP at the top,
no DOWN at the bottom; `CallsAreServed` of `ElevatorConsole`); a cycle registers at most
one call (one register in the interface).  Nothing is assumed of the emergency input,
which is not debounced: it may rise at any edge, that of a recovery included.  At that one
edge line 117 remembers rest and throws the interrupted phase away; with the door open this
sets `forgotten`, which `DoorShutWhileMoving`, `DoorWorkIsResumed` and the service except, until
the door is next opened (section 4).

Bounds: three floors, the shortest shaft in which a car passes a call, turns back at an
inner floor and has calls on both sides.  The controller has no state that depends
on the number of floors otherwise, and the theorems hold for any number.  A dwell of 3, a
travel time of 2 and door times of 1 let every phase end in its first and in a later
tick, `OPEN_MAX_TIME = 2` brings the limit of the open button near.  `door_timer`, which the reset
leaves alone, starts at 0 in the run and anywhere in the theorems.  57 114 states.

`ElevatorService` is what all this promises: a floor, a door, a motor and the calls of
those who wait.  The car moves only towards a call and with its door shut, or with a door it
gave up during a halt (`Up`, `Down`, `Halt`), the
door opens only where somebody waits (`Open`), a call ends only at its floor with the door
open (`Answer`), and people call whenever they like (`Press`).  It has no phases, no
counters and no memory of an interrupted phase.  The refinement mapping is the
`INSTANCE` in `ElevatorFSM`: the motor is read off the two drives (`Motor`), the calls are
the bits of the two registers (`Waiting`), the door is what the drives did to it, and a door
is given up exactly when `forgotten` is set, so that nothing else of the controller may drive with it open.  The outputs
are registers and lag the phase by a cycle, so a step of the abstract motor is the cycle
*after* the phase began, and the edge in which the car arrives is still a step of the motor.

`MCElevatorFSM` adds `hands`, what the people around the elevator have done so far:
nobody has pressed the emergency stop (`"no stop"`), somebody has (`"stop"`), or nobody
touches the emergency stop and the door buttons any more (`"off"`).  The last can begin in
any state.  It restricts no behaviour of the controller: every input has a value of
`hands` that allows it.

Fairness (`WatchedSpec`): edges with a tick and without an emergency occur again and
again.  The tick comes from a free-running divider, and an emergency input that is
held for ever stops the elevator as it should.

### `ElevatorConsole`

A step (`Clock`) is one rising edge of `CMD_PARSER.v`, `ELEVATOR_INTERFACE.v` and the
two `UART_TX.v`; every part computes from the registers before the edge, so the
conjuncts of `Clock` are the concurrent blocks: `CMD_PARSER`, `RegisterCall`,
`Toggle` (quiet mode), `SendReply`, the frame (`StartFrame`, `SendByte`,
`WaitForByte`) and `Transmit`.  Registers of one block are the fields of one
variable: `reply` holds ERR_REQ_LATCHED, ERR_IDX, TX_START_ERR, TX_DATA_ERR; `frame`
holds SEND_STATE, SEND_IDX, DIR_LEN, TX_START_INFO, TX_DATA_INFO.  A transmitter is the
cycles left of its byte, O_DONE and the byte; a transmitted byte is its position in
the text, because only order and completeness matter.  Received bytes are ASCII
codes, and the number of a floor wraps as the 8-bit register does.  `hushed` is
history for `ReplyInOrderButTheFirst`.

Over-approximated: the second may be over in any cycle, where the code's divider
has a period of 50 000 000; a received byte may be complete in any cycle at least
`RX_CYCLES` after the last (no assumption on the line).

Bounds: two floors in a number below 4 (both a wrap to a valid floor and an
over-limit number occur), bytes of four cycles instead of 4340 (enough for a byte to
begin when another is nearly over), replies of three bytes and frames of three or
four.  The theorems hold for every length.

Fairness (`LiveSpec`): the clock runs.

### `VehicleControl`, `MCVehicleControl`

The render thread of one car.  A frame goes through the phases `analyze` (camera),
`qt` (own buttons), `poll` (one `Decide` per message, `EndPoll` when the mailbox is
empty) and `tick` (`SameSecond`, `Second` or `ResetSecond`).  `Receive` (a receive
thread stores a message) and `Press` (the serial thread stores a button) happen at
any moment between two phases, as the mutexes allow.

Data is kept to what the code compares.  Speeds are in 1/100 km/h and distances in
mm, so the factors of the code give integers.  Positions occur only as differences:
`ahead` in a message, and `room`, the distance to the stop target.  A message may
name any of the chosen distances at any time, which includes every motion of the
other car.  `laneDiff` stands for the two lanes, which `LaneChange` moves.  `actionAge` is the age of the
decision in frames, saturated one frame past the limit.  The camera is a sight per
frame: `clear`, `near`, `closing`.  One camera channel is assumed.  Two variables are
history that no action reads: `cuts`, how often the slowdown under way took its 20 km/h
off (0 again with a new slowdown), and `calm`, the frames in a row without a warning.

Bounds: one or two frames per second, two or three calm frames, a demo cycle of the
code's 40 seconds or less; distances on and off every threshold (20 m, 60 m, beyond
100 m, behind, other lane).  The code uses the frame count only through its value
modulo 30 and 1200, and every threshold is an input, so more frames repeat the same
states.  `MCVehicleControl` names the message sets.

Fairness (`FairSpec`): the compositor calls `render()` again and again (weak
fairness of the frame's phases); messages arrive once per second and peer while the
poll loop runs in microseconds, so the loop ends (strong fairness of `EndPoll`).

### `V2VLink`

The threads of `v2v_comm.c` on every board: the retry thread (`Connect`, `Announce`),
the accept thread (`Accept`, then blocked in `recv` of the id until `ReadId`), a
receive thread per connection (`RecvEnds`, `CloseRemoved`, `RecvAgain`), the sender (`Broadcast`),
and the board itself (`Outage` by exit or power loss, `Boot`).  TCP and descriptors
are external and modelled from their use: the lowest free descriptor is handed out, a
descriptor closed by one thread may be given out again while another thread is still
blocked on the old connection, an exit is reported to the other end, a power loss is
not until the other end sends something to the restarted board.

`g_peers` holds the connected entries as records of descriptor and board; the id
a peer announces is never used by the code, the address is.  A receive thread removes its
entry (`RecvEnds`) and closes its descriptor (`CloseRemoved`) in two steps, as lines 157 and 158
do: between them (`closing`) the table has forgotten a descriptor that is still open, and any
other thread may accept, dial, send or close.  Stopping the program
(`v2v_stop`) is an `Outage` of kind `exit`.  Which of two threads blocked on one
connection gets a byte, and message bytes as such, are not modelled.

Bounds: two boards, four descriptors and four connections, a table of two, two
outages of either kind at any moment, of one board or of both, which is enough for a
descriptor to be closed, given out and closed again by its former owner.  `MaxLate` bounds how many dials overtake a thread that is ready to run: the
retry thread sleeps three seconds between attempts, so this is rare.  262 813 states.
Three and more boards, and the branch of `Accept` for a full table, are covered by the
theorems, which hold for any number, and by no run.

`LinksComeBackUnlessHeld` names the one thing that keeps two boards apart for good: the
accept thread reads the id itself, without a time limit, and may wait for an id that
was never sent.  The dialing board lost its power between `connect` and `send`, or a
thread closed the descriptor under the dialing thread and the id went elsewhere.

Fairness: every thread that can go on does, and a board that is down is started again.  The
sender is strongly fair: it sends once a second, a dial comes at most every three, so that
among the moments in which an entry can be sent to, again and again, a broadcast falls into
one.  With weak fairness alone TLC finds a cycle in which every broadcast, for ever, falls into the
short moments in which a reused number is open.

### `LaneChange`, `MCLaneChange`

A step is a frame of the render thread (`Frame`) or a button at any moment between two
(`Press`).  A frame acts upon the button (`Signal`: `Reserve`, `Cancel`, or `Execute` of the
reservation that is due), takes at most one message into the table of the other cars'
states (`save_peer_state`), and in the first frame of a second moves (`Drive`) and
broadcasts the last button (`Broadcast`).  The delays and the ages of messages are times, the
broadcast and the demo cycle count frames, as in the code (lines 1257 and 1382), and a frame
takes any of `FrameTimes`: the two clocks drift apart when frames stall.  Ages beyond `PEER_STALE`
are one.  Six variables are history that no action reads: `heard`, the last message of every
car; `approaching`, whether a signal was given beside a faster car; `announced`; `slow`, whether
a frame since the signal took more than its part of the delay; `wanted`; `overlooked`, whether an
OFF was replaced by another button before a frame saw it.

Over-approximated: the speed after a second is any the control may decide, and a stop may
hold the car at any of `Targets` short of where it would get, which may lie behind it.
Under-approximated: the code takes every message of the
mailbox in a frame, which a receive thread could refill while the loop runs; the model
takes at most one, as one slot and 30 frames a second let it.

Bounds: two other cars that appear in every lane, one of them now faster and now slower,
within reach once the own car has moved on, the own echo and the ministry's board, a table
of two slots; two
frames per second, a demo cycle of two seconds, frames of one unit of time or of four, which
is the shorter delay (a stall that outlasts the whole wait), delays of four and six units, messages
stale after two: every order of second, message, staleness, signal, stall and execution occurs.
The code's 30 frames and 3 and 5 seconds repeat the same states.  The SOS button may be pressed at
any moment.  1 183 004 states.

What this shows of the code: a change that was not broadcast first is carried out, when the
frames stall between the signal and the next second's broadcast, or when SOS replaces the signal;
and a change that was switched off, when SOS replaces the OFF.  `ChangeIsAnnounced` and
`ChangeIsWanted` except these and nothing else (section 4 lists them).

### `CnnPipeline`

The main thread (`FrameDue`, `Dequeue`, `Convert`, `Send`, `Requeue`, `Broadcast`, `EndFrame`,
`Join`), `cnn_task` (`Check`, `Receive`, `Run`), the calls that fail (`DequeueFails`, `SendFails`,
`RequeueFails`, `ReceiveFails`), the video device (`Fill`) and the world (`Start`, `Kill`,
`Interrupt`, `CompositorLost`).  The message queue survives the program, as a POSIX queue
does; a message remembers whether it is of the current run.  An image and its record
are one address.  `mq_send` and `VIDIOC_DQBUF` block, and SIGINT wakes them with a failure
(`Interrupt`): a second SIGINT kills, because the handler is installed with
`SA_RESETHAND`.  The handler runs in the main thread and calls `v2v_stop`, which locks
`peer_mutex`; inside `v2v_send_event` that thread holds it (`main = "broadcast"`), and waits for
itself (`"stuck"`).

Bounds: two buffers, a queue of one message (the length is a macro of the SDK; a longer
queue fills up the same way), one failing send per run of the program, four addresses: one each for `Convert`, the queue and
`cnn_task`, and one that is lost.  The other calls fail as often as they like: every buffer may be lost.  Pictures are numbered modulo 6, more than can be on
their way: `PICTURES` must exceed the buffers, the queue, the failures and one together
(`PicturesAssumption`; the proof of `PictureOrder` needs exactly this), so that `Age` is
unambiguous.  1 503 255 states.  Signals reach the main
thread only: a signal that the kernel delivers to `cnn_task` is not modelled.

Fairness: the two threads and the device go on when they can; a send to another car ends.  Failing
calls are not fair: the program may not rely on them.

### `CaptureSetup`, `MCCaptureSetup`

One step per call of `nc_v4l2_init_device_and_stream_on`, which may succeed or fail, for
every channel in turn, and what the two boards make of a failure: the car's
`v4l2_initialize` and the ministry's, which differ in the test of the descriptor.  Sizes
are pairs; `Verified` is the check of the crop and scale parameters with its integer
quotients, `Selection` what the DMA is told.  `fd` says what became of the descriptor; `mistaken` is
a device that the car has opened and takes for a failure, because an `errno` left by some earlier
call equals the new number (line 530, `TakenForFailure`).  Sums of places and sizes wrap at `UINT`.

Assumed of the driver: `VIDIOC_REQBUFS` grants at least one buffer and no more than
were asked for, a call on a descriptor that is not open fails, and sizes are not zero.
Failures of `VIDIOC_S_INPUT` and `VIDIOC_S_SELECTION` are ignored, as in the code.

Bounds: two channels (the second finds what the first left in `app_info.capture`), three
buffers, two sensor sizes and seven settings that pass and fail each test and use every mode, one
of them with a sum that wraps at 16.  130 704 states.
`CHECK_DEADLOCK FALSE`: the module ends where the main loop begins, or the program ends.

### `SerialPort`

The receiving thread of `serial_gui.c` (`Check`, `Call`, `Character`, `EndOfFile`,
`ReadFails`, `Reopen`), the stop from the main thread in its two steps (`Stop`,
`StopEnds`), the device that comes and goes (`Device`), and the other threads that open and
close descriptors (`Others`).  They close some numbers twice: a link that `v2v_send_event` has
closed (`SendCloses`) is closed again by its receiving thread (`RecvCloses`), whatever has the
number by then, the port included.  `owner` says what every number stands for now, `reading` what
the blocked `read()` is on, `secondCloses` how many second closes of a number are under way.
`taken` is history: one of them has hit the port's descriptor.  From then on the receiver works on
a number that is not its own, may close it and may read it for ever; `ClosesItsOwn` and
`PortComesBack` except that case only.

Bounds: three numbers, so that the port's number can be taken while it is
reopened; two ends of file in a row instead of twenty; one second close of each number under way.
52 704 states.  Fairness: the thread goes on; characters need not come, and a `read()` of another thread's file
may block.

### `MinistryBoard`

What the road is (`road`), what the last picture and the last network result say
(`buffer0`, `det_buf`), the interval between reports in wall-clock seconds (`Second`,
`SetBack`), the report (`Analyze`), connections that break and leave reports behind in a
receive thread that is late (`Lose`, `Reconnect`), restarts of either side, and a car's one
mailbox slot, shared with other cars' messages.

Bounds: one car (cars do not share anything on the board but the table, which `V2VLink`
models), two weathers and two congestions, an interval of two seconds, the clock set back once
by one second, one report on a connection at a time.

Fairness: camera, network, clock and receive threads go on; results that name a weather
occur again and again; strong fairness of `PollReport`: cars send once a second and a frame
polls 30 times a second, so that a report is polled before it is overwritten every now
and then.

### `Instructions`, `InstructionSet`, `Pipeline`, `MCPipeline`

`Instructions` says what each instruction means, `InstructionSet` executes one after
the other: that is the specification.  `Pipeline` is the RTL: a step is a clock
cycle (`Cycle`), in which the rising edge moves all stage registers and the data
memory and the falling edge writes the register file.  The registers of a stage are
the fields of the records `D`, `E`, `M`, `W` under the names of `DATAPATH.v`.  The
early comparisons of `DATAPATH.v` decide the forwarding (`Forwarded`); those of
`HAZARD_UNIT.v`, which nothing reads, are only there to be compared with
(`FORWARD`).

The refinement mapping: the instruction set's program counter is that of the
instruction in M, or of the next one in front if M holds a bubble; its registers are
the register file as read, its memory the data memory.  A cycle with an instruction
in M is one step of the instruction set, any other cycle a stutter.

Words and operations are parameters, since the pipeline only moves words around;
program counters count instructions.  The don't-cares of `MAINDEC.v` are constants
(`SW_RESULTSRC`, `BEQ_RESULTSRC`, `JAL_ALUSRC`, `JAL_ALUCONTROL`): the tools choose
them once per build.  The smallest logic for bit 0 of RESULTSRCD resolves it to 1
for a store and 0 for a branch, which is what `Pipeline` checks; the theorems hold
for every choice except 1 and 3 for a branch (section 4 says what happens then).
Reset is taken as power-on with any register file and data memory out of the given ones.
The memories' debug ports are left out.

Bounds: four instructions, the distance over which two can interact (from the write
in W to a read in D is three), out of twelve that cover every kind and read and
write the same two registers and register 0; four-bit words.  An endless loop
follows, as in the program of the README.

Fairness (`FairSpec`): the clock runs.

## 4. The runs

Passing:

| run | shows |
|---|---|
| `ElevatorDrives` | calls, both buttons and emergency stops in every cycle: counters below their limits, a call ahead while moving, the door shut and interrupted door work remembered but after a stop in the very cycle of a recovery, calls cleared only at their own floor with the door open, a car in mid-trip turns only when nothing is left ahead (until the first stop), every call answered once the buttons are left alone; `ElevatorService` is kept |
| `ElevatorConsole` | whatever is typed while seconds end at any cycle: only possible calls reach the controller; no half status byte comes out behind a reply; frames and replies keep their order, however often they are cut off, and frames come to an end |
| `VehicleBrakes` | two cars braking and releasing, limits by the ministry's board: stops braked as stops, one cut per slowdown, no release leaves the car slow, no standstill for ever |
| `VehicleAll` | messages, buttons and camera together: the warning implies the video brake; it is released only after enough calm frames in a row |
| `V2VLinks` | two boards, two restarts or power losses at any moment, removed entries still open, double closes: never two links to one board, every entry watched, and the boards link again for good unless an accept thread is held |
| `LaneChanges` | lane buttons and SOS at any moment beside faster and slower cars, frames that stall: the table holds the last message of each car once; a change waits for its delay and yields; it is announced unless a frame stalled or SOS hid the signal, and still wanted unless SOS replaced the OFF within a frame |
| `CnnFrames` | kills, SIGINT, failing calls, broadcasts and restarts at any moment: no address of an earlier run reaches the network, every allocation has one owner, pictures keep their order, and SIGINT ends the program or leaves it in one of four dead ends |
| `CaptureStarts` | every call of the start failing or not, a new descriptor taken for an old error: no program runs with a half opened camera, only with one that was left out altogether; the DMA reads only what the sensor has unless a sum wraps |
| `SerialReopens` | a device that comes and goes at any moment, numbers that others take and close twice: the receiver closes only its own descriptor and listens again, unless a second close took its number |
| `MinistryReports` | a changing road, results without a name, a clock set back, lost links and overwritten mailboxes: a car learns the condition of a road that stays as it is, and keeps it |
| `Pipeline` | registers, memory and control flow are those of the instructions one at a time; the early forwarding agrees with the hazard unit; execution never stops |

One run has a counterexample as its result; its property is what the text says:

| run | what the code does | what the text says |
|---|---|---|
| `VehicleWarnedCut` | `wayland_npu_app.c:897`: a distant brake message left a cut pending in an earlier frame of the second; the camera's stop clears `g_slow_active` but not `g_slow_pending`, and the first second after the standstill takes the cut (line 1365), whose floor of 20 km/h sets the car in motion in front of the obstacle | `README.md:114`: a warning stops the car until the distance is safe |

Further disagreements met while modelling, visible in the modules but without a run
of their own (file names without directory are those of the design concerned, and
`wayland_npu_app.c` is the car's):

| what the code does | what the text says |
|---|---|
| `ELEVATOR_FSM.v:117`: an emergency input that rises again in the recovery cycle (it is not debounced, `ELEVATOR_TOP.v:83`) throws away what was interrupted. Door work: the door stays as it is and the car may leave with it open (`forgotten`). A trip: the car rests where it is, between two floors, and a call of the floor it counts for opens the door there | `README.md:50`: work goes on when the emergency stop is released |
| `ELEVATOR_FSM.v:126`: an emergency stop in a door phase forgets the direction, so `KeepsDirection` holds up to the first stop only | `README.md:16`: the current direction first |
| `ELEVATOR_FSM.v:213`: the open button reverses a closing door | `README.md:39`: the buttons do not affect the door phases |
| `ELEVATOR_FSM.v:193`: a held open button holds the door for a limited time, counted over several stops | `README.md:11`, `:41`: as long as it is held |
| `ELEVATOR_FSM.v:145`: from rest the car prefers up to near | `README.md:57`: the nearest floor first |
| `ELEVATOR_FSM.v:174`: the DOWN call of a floor may be cleared on the way up | `README.md:58`: the call of the current direction first |
| `ELEVATOR_INTERFACE.v:203-223`: every reply begins with two E, "EERR:CMD" (`ReplyInOrderButTheFirst` makes the exception) | `README.md:30`: "ERR:CMD\r\n" |
| `ELEVATOR_INTERFACE.v:174`: every Enter, that of a valid call as well, switches the status frames off or on | `README.md:9`: a status every second |
| `CMD_PARSER.v:83`: 260UP calls floor 4; after the error for a number above the top the line goes on and may still call | `README.md:29`: a wrong floor is an error |
| `CMD_PARSER.v:126`: 32UP, 0UP, 1DOWN are ignored without a reply | `README.md:29`: a wrong floor or direction is an error |
| `wayland_npu_app.c:626`: an SOS during a stop makes it a slow cruise (`VehicleBrakes.cfg` with `Messages <- SosMessages` shows it) | `README.md:115`: a stop in progress takes precedence |
| `wayland_npu_app.c:625`: a repeated SOS cuts the speed again | `README.md:115`: a repeated signal cuts no further |
| `wayland_npu_app.c:634`: a braking car whose driver holds SOS does not stop us | `v2v_comm.h:67-69`: SOS and brake are separate |
| `wayland_npu_app.c:729`: a release after the standstill is ignored | `README.md:103`: back to the former speed |
| `wayland_npu_app.c:727`: any car ahead in the lane ends a stop | lines 724-726: only the one it was for |
| `wayland_npu_app.c:1341`: the car may stand before the target | `README.md:100`: 5 m behind the car ahead |
| `v2v_comm.c:140`: the second message between two frames replaces the first | `wayland_npu_app.c:1274`: all pending events are handled |
| `wayland_npu_app.c:732`, `:1333`: a message or the demo reset lets a warned car drive | `README.md:114`: it stops until the warning ends |
| `wayland_npu_app.c:1334`: after the reset a slowdown is on in name only and blocks the next one | `README.md:101`: 20 slower |
| `wayland_npu_app.c:1222`: the own SOS can bring a slow car to a standstill | line 1363: slow means to drive on |
| `wayland_npu_app.c:1285`: a yield is shown for three seconds | `README.md:110`: five |
| `wayland_npu_app.c:1257`, `:1382`: the change waits in milliseconds, the broadcast counts 30 frames: when frames stall, or come slower than ten a second, a change is carried out before its signal was broadcast (`slow` of `ChangeIsAnnounced`) | line 1231: the signal itself goes out as `event_type` |
| `wayland_npu_app.c:1386`: an SOS pressed after a lane button and before the second is over hides the lane signal from the broadcast, and the change is carried out | line 1231: the signal itself goes out as `event_type` |
| `wayland_npu_app.c:1217`: only the last button counts, so OFF and SOS within one frame leave the reservation | line 1249: OFF cancels it |
| `v2v_comm.c:189`: the accept thread waits without limit for an id; a power loss or a closed descriptor between connect and send keeps the board from accepting ever again | `v2v_topology.c:72-73`, `README.md:90`: the retries always link the boards again |
| `MAINDEC.v:37`, `HAZARD_UNIT.v:42`: RESULTSRC of a branch is a don't-care; built as 1 a branch stalls like a load and loses its target (`BEQ_RESULTSRC = 1` in `Pipeline.cfg` shows it) | the branch of the instruction set |
| `v2v_comm.c:158`, `:261`: a receive thread and a failed send both close a descriptor, which may have been handed out again in between | `v2v_topology.c:72-73`: the retries always link the boards again |

Code that surprised us while modelling and that no document contradicts:

- Lane changes: a car on either side counts for yielding, whichever way the change goes;
  nobody looks again when the change is carried out; the end of the left signal cancels a
  reservation to the right as well.
- The ministry's board tells sunny weather after a restart until the network names one;
  a clock that is set back silences it until the old time is reached; the weather is read
  from `buffers[0]` whichever buffer the result belongs to (its `wayland_npu_app.c:628`).
- `v4l2_interface.c:281`: a ratio is divided as an integer before it is compared with 4.0, so
  that ratios up to but not including 5 pass (`SelectionFits` says 5).
- `v4l2_interface.c`: failures of `VIDIOC_S_INPUT` and `VIDIOC_S_SELECTION` are ignored.
- `wayland_npu_app.c:530`: a failed open is compared with `errno` and never noticed there; the start
  ends at the next call that is checked.  A device that was opened is left out when an old `errno`
  equals its descriptor (11 and EAGAIN, 25 and ENOTTY): the program runs with a camera open and not
  streaming (the second case of `RunningMeansStreaming`).
- `v4l2_interface.c:266`, `:272`: a place and a size whose sum wraps pass the check (the exception of
  `SelectionFits`); `set_v4l2_config` has no such setting.
- `wayland_npu_app.c:1154`: the picture is drawn from a buffer that was already given back.
- A failed `VIDIOC_QBUF` loses a buffer for good; as many failures as buffers end the pictures.
- SIGINT while `cnn_task` waits for a picture, while the queue is full and `cnn_task` has just
  ended, after every buffer was lost, or in the middle of a broadcast, whose mutex `v2v_stop` locks in the
  same thread (`wayland_npu_app.c:1504`, `v2v_comm.c:328`), leaves the program waiting for ever (the four
  dead ends of `InterruptEnds`).
- `v2v_comm.c:158`: the second close of a link may close the serial port, whose receiver then works on
  whatever has the number next (`taken`, the exception of `ClosesItsOwn` and `PortComesBack`).
- `serial_gui.c:182`: the stop closes a number that the receiver may have closed
  already (the exception of `ClosesItsOwn`).

## 5. Proofs

All theorems are for every value of the constants that satisfies the named
assumptions.  Every safety and action property of the passing runs is stated by one of
them, and both refinements; liveness stays with TLC (see the end of this section).

`ElevatorFSM_proofs`
- `TypeCorrect`; every other proof uses it.
- `RecoveryIsOfAnInterruptedPhase`: a pending recovery implies a phase of rest or
  emergency stop and a remembered phase with the right count.
- `DoorSafety` and `DoorWorkSafety` are parts of one invariant, `DoorInv`, and not inductive
  alone: an idle car is known to have its door shut because unfinished door work would still
  be remembered or is known to be forgotten, and it is remembered because moving phases have the
  door shut or forgotten.  A forgotten door is open and neither dwells nor closes before it is
  opened anew.  Nothing is assumed of the emergency input.
- `AnsweredAtTheDoor`: a dwelling car has its door open (`DwellInv`, which must also know
  that of an interrupted dwell), and only Dwell clears calls (`OnlyClearedCallsVanish`).
- `ServiceIsImplemented`: the refinement of `ElevatorService`, with stops at any edge.
  `EveryCycleServes` names the abstract step of each phase.  Besides `DoorSafety`,
  `DwellInv` and `HeadingSafety` it needs `OpeningInv`: a door about to open for the first
  time is at a called floor, also when the opening was interrupted and is being recovered.  The
  stop logic of lines 66-77 enters through `PassingUp`/`PassingDown`.
- `DirectionIsKept`: until the first emergency stop there is nothing to recover from and
  the direction register is that of the trip (`TripInv`).
- `TimerSafety`: the counter is below the limit of the phase, and the remembered
  counter below the limit of the remembered phase.
- `HeadingSafety`: a moving car has a call ahead.  The inductive part says the same of
  a remembered trip; the lemmas `PassingUp`/`PassingDown` show that a car that passes a
  floor still has a call ahead, from the stop logic of lines 66-77.
- `StopsAreCalled` follows from `HeadingSafety`: at the ends of the shaft the car
  stops unconditionally, and there the only call ahead is that floor's.

`ElevatorConsole_proofs`
- `TypeCorrect`, one lemma per block (`ParserType`, `ReplyType`, `FrameType`,
  `TransmitType`, `CallType`).
- `CallSafety`: the strobe and the floor that wait for the call register are
  already valid (`StrobeIsValid`).  It is what `ElevatorFSM` assumes of its `Calls`.
- `SharedPin`: `StatusYields` alone is not inductive; `PinInv` adds that the frame is in
  S_SEND beside a reply's byte only in that byte's first cycle, and hands a byte
  over only in its first two.
- `FrameOrder`: `OrderInv` says that a byte handed over finds the transmitter free and
  is the next one or the first, and that a wait is for the byte of SEND_IDX.
- `ReplyOrder`: `ReplyInv` relates the index of the reply, the byte handed over and the
  byte on the line at each stage of a handshake.  A byte is chosen from the index in the very
  cycle in which the end of the last byte advances the index; the first byte is therefore
  sent twice, and from then on the index is one ahead of the line (`Follows`).  In quiet
  mode bytes fall out, so the relation is asked of stretches without it (`hushed`).

`VehicleControl_proofs`
- `TypeCorrect`.
- `VideoBrakeSafety`, `VideoBrakeRelease`: the warning implies the brake, and while
  the brake is on the count of calm frames is at most the frames that really were
  calm.  Only the camera phase touches these variables (`OnlyTheCameraSenses`).
- `StopIsBrakedFor` under `UntouchedButtons` (no message carries a pressed button);
  an SOS during a stop shows why (section 4).
- `CutSafety` (`OneCutPerSlowdown`) under `NoSosMessage` (nobody else sends SOS_ON): a cut
  waits only where the slowdown has had none (`CutInv`).  Line 624 takes 20 km/h off for every
  SOS_ON without asking `g_slow_active`.  Brakes, buttons, camera and reset are all covered.
- `SlowSpeedSafety` (`SlowSpeedHasAReason`) and `PendingCutSafety`, both from `ReasonInv`, under
  `QuietCamera` (no frame is `closing`): a stop by the camera keeps the pending cut (line 897),
  which is what `VehicleWarnedCut` shows.  No assumption on messages or buttons is left.

`V2VLink_proofs`
- `TypeCorrect`, `NoDuplicateLinks`, `EntriesAreWatched` from one invariant: tables are
  typed and finite, entries have distinct boards and descriptors, are no more than
  `MAX_PEER_CNT` and have a thread on their descriptor; a connection whose id was
  sent has a board for a client.  A descriptor that a removed entry still holds open is in no table
  and needs no thread; that it may close another's number is why the invariant speaks of threads and
  not of connections.  One lemma per action; `TableGrows`, `TableShrinks` and
  `AddOrCloseKeeps` carry the cardinalities.
- `PortTypeCorrect`, `PortClosesItsOwn` are about `SerialPort`, whose closed numbers the links
  take over: while the receiver runs, the number it remembers is its own, except between a
  close and the reopening (`PortInv`), where it does not use it, and after a second close of the
  links has taken it away (`taken`).
- `MinistryTypeCorrect`, `MinistryAgreement` are about `MinistryBoard`, whose reports travel over
  the links.  Agreement is split into its parts (`AgreedParts`): board, connection, late
  receive thread, mailbox and condition all hold the road; `AgreementStep` shows for every
  step that nothing else can enter.  The module extends all three, whose names are distinct
  for that reason.

`Pipeline_proofs`
- `Refinement`: the pipeline implements the instruction set, for every word width,
  register set, memory, operation and program, under `BEQ_RESULTSRC \in {0, 2}`.
  A refinement proof needs to know what every stage knows of the abstract state.
  The invariant `IInv` says it stage by stage: D and E hold the instructions at
  their addresses, and addresses follow each other (`DecodeHolds`, `ExecuteHolds`);
  the early comparisons are those of the registers they are used for
  (`FlagsHold`); what E has read is still so, or W has just written it
  (`OperandsHold`); a result E needs of M is the ALU's (`ResultIsReady`); M holds
  what its instruction computes, and what stands in front of M is where it goes on
  (`MemoryHolds`); the falling edge has written W's result (`WritebackHolds`).
  `ForwardedReads` is the heart: whatever forwarding picks is the register after
  the instruction in M.  `FrontMoves`, `NextInFront` carry the control flow through
  stalls and flushes.
- `EarlyForwarding` and `TypeCorrect` follow from the same invariant.

`LaneChange_proofs`
- `TypeCorrect`.
- `TableSafety` (`SlotsHoldTheLatest`): `FreeSlot` is a counting argument, a car without
  a slot finds one free because there are no fewer slots than cars (`PeersAssumption`).
- `DelaySafety` (`ChangeWaits`): a reservation made beside a faster car has the longer
  delay (`DelayFits`), because a car in `heard` is in the table (`YieldsToTheHeard`).
- `WantedSafety`, `AnnouncedSafety` for all buttons, SOS included.  The first needs
  `SignalStands`: as long as no OFF waits to be seen, a reservation is wanted or an OFF was
  overlooked.  The second needs `SoonAnnounced`: a reservation that has not been
  broadcast, and since which no frame was too slow, has waited at most the longest frame that is
  not too slow times the frames since the second began, and a whole second of such frames but for
  one does not fill the delay (`SteadyFits`).  Nothing relates the delay to the frames otherwise.

`CaptureSetup_proofs`
- `TypeCorrect`.
- `RunningMeansReady`: channels before the current one are ready, the current one is as far
  as the step says (`BeingSetUp`), later ones are `Untouched`; a channel that was skipped, on
  either board, was never asked for buffers.
- `RequestsFit` (`SelectionFits`): what is verified is the size of the channel's own sensor
  because the one `capture` was recorded just before (`SizesKnown`, `TellsOwn`);
  `QuotientBounds` turns the integer quotient into the factor 5, `InsideFits` the check of a
  wrapping sum into the bound on the sum or its overflow.
- `QueuedBuffersAreMapped` follows from the same invariant; no run checks it.

`CnnPipeline_proofs`
- `TypeCorrect`; the invariant adds that a program that is down has nothing and that
  filled buffers hold a picture.
- `OwnAddressesOnly`: the queue is emptied before `cnn_task` exists.
- `MemorySafety`: what render holds, the queue, the network and the lost addresses
  partition what is allocated (`Parts`), one lemma per step.
- `PictureOrder` (`PicturesInOrder`): every buffer is with the driver or with the main thread,
  in one place only (`BuffersInv`).  `OrderInv` then bounds the age of a picture by what
  can have overtaken it on its way: the filled buffers in front of it (`FilledInv`), the
  one in conversion (`SendingInv`), the messages in the queue (`QueueInv`) and the one
  with the network (`WorkInv`), each plus the pictures that failing sends and an interruption
  lost.  Ages are modulo `PICTURES`; the bound keeps them from wrapping.

Only model-checked is liveness, which the proof system does not do under fairness:
`EveryCallIsServed`, `FrameIsSent`, `StandstillEnds`, `LinksComeBackUnlessHeld`,
`InterruptEnds`, `PortComesBack`, `ConditionArrives` and `KeepsExecuting`.  Only proved, and
checked in no run, are the types of the modules but `SerialPort`, `StopsAreCalled`,
`RecoveryIsOfAnInterruptedPhase`, `PendingCutSafety` and `QueuedBuffersAreMapped`.

A theorem with a hypothesis says less than the run's property where the run has the
hypothesis built in: `VehicleBrakes.cfg` has neither SOS messages nor a camera that sees anything.

## 6. Not modelled

The accelerator.  `TOP.v` instantiates `pooling_line_buffer` and `FC.v` instantiates
`PE_ONE`, and neither is in the repository.  In which cycle a result is valid, and with that
every change of the control state after IMAGE_IN, cannot be read from the code; a model
would have to invent them.  What can be seen of the rest:

- `TOP.v:312`: the 784th pixel is taken by the line buffer only if it is valid in the one
  cycle in which the state still is IMAGE_IN; the counter of pixels does not wait for it.
- `PE.v` shifts in every cycle, whether its input is valid or not.
- The size of the pooling is switched with the control state while results of the layer
  before may still be under way.
- The AXI-Lite registers are the vendor's template with one register the design reads.

Elevator: the counters of the tick divider and of the debouncers, the bits on the serial
lines, the decoder of the seven segment display; they give the modelled parts their
inputs and show their outputs.

Boards: drawing, Wayland and OpenGL, the network itself and its post-processing
(the vendor's SDK); the settings of the terminal; the bytes of a message, and with them a
stream that is off by some bytes; the mapping table of addresses, which stops the
program at its start if it does not fit.  The image analysis of the ministry's board
is not part of the repository.

RISC-V: the bit layout of instructions and immediates, the 32-bit operations (parameters
of the proofs), the debug ports, the test bench and its matrix program.
