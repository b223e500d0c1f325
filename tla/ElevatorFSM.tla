---------------------------- MODULE ElevatorFSM ----------------------------
(***************************************************************************)
(* The elevator controller of elevator_pj/rtl/ELEVATOR_FSM.v.  A step is a *)
(* rising edge of CLK with RST_N high; the levels sampled at that edge are *)
(* the record `in`.  The call registers hall_up and hall_down are sets of  *)
(* floors (the bit vectors of the code).  car_call is only ever cleared in *)
(* the code, so it is the constant empty set.  Registers are assigned with *)
(* <=, hence everything unprimed is the value before the edge.             *)
(***************************************************************************)
EXTENDS Integers, FiniteSets

CONSTANTS
  START_FLOOR, MAX_FLOOR,         \* the served floors, START_FLOOR..MAX_FLOOR
  DWELL_BASE, FLOOR_TRAVEL_TIME,  \* durations, in ticks of T_TICK
  DOOR_OPEN_TIME, DOOR_CLOSE_TIME, OPEN_MAX_TIME,
  EmgLevels,                      \* the levels EMG_STOP may take
  ButtonLevels,                   \* the levels BTN_OPEN and BTN_CLOSE may take
  PowerUpTimer                    \* what the unreset door_timer may start with

ASSUME FloorAssumption ==
  /\ START_FLOOR \in Nat /\ MAX_FLOOR \in Nat
  /\ START_FLOOR < MAX_FLOOR

ASSUME TimeAssumption ==
  /\ DWELL_BASE \in 1..15 /\ FLOOR_TRAVEL_TIME \in 1..15
  /\ DOOR_OPEN_TIME \in 1..15 /\ DOOR_CLOSE_TIME \in 1..15
  /\ OPEN_MAX_TIME \in 1..15

ASSUME EnvAssumption ==
  /\ EmgLevels \subseteq BOOLEAN /\ FALSE \in EmgLevels
  /\ ButtonLevels \subseteq BOOLEAN /\ FALSE \in ButtonLevels
  /\ PowerUpTimer \subseteq 0..15

Floors == START_FLOOR..MAX_FLOOR

Phases == {"IDLE_STOP", "DOOR_OPENING", "DWELL", "DOOR_CLOSING",
           "MOVING_UP", "MOVING_DOWN", "EMG_STOP"}
Moving == {"MOVING_UP", "MOVING_DOWN"}
DoorWork == {"DOOR_OPENING", "DWELL", "DOOR_CLOSING"}
Directions == {"UP", "DOWN", "STOP"}

\* The hall calls the command parser lets through: no UP at the top floor,
\* no DOWN at the bottom floor.
Calls == {<<f, "UP">> : f \in START_FLOOR..(MAX_FLOOR - 1)}
           \cup {<<f, "DOWN">> : f \in (START_FLOOR + 1)..MAX_FLOOR}

\* The levels at a clock edge; `call` holds at most one call (CALL_VALID).
Inputs == [tick : BOOLEAN, emg : EmgLevels,
           open : ButtonLevels, close : ButtonLevels,
           call : {{}} \cup {{c} : c \in Calls}]

VARIABLES
  state, recover_state,
  CURRENT_FLOOR, CURRENT_DIR,
  hall_up, hall_down,
  MOTOR_UP, MOTOR_DN, DOOR_OPEN_DRV, DOOR_CLOSE_DRV,
  T_TICK_CNT, recover_T_TICK_CNT, recovering,
  door_timer,
  \* History, read by no action: what the drives did to the door, the
  \* direction of the trip under way, and whether the door was left open by
  \* door work the controller has lost the memory of.
  door, trip, forgotten

\* What the passengers see of it.
Motor == IF MOTOR_UP THEN "up" ELSE IF MOTOR_DN THEN "down" ELSE "off"
Waiting == {<<f, "UP">> : f \in hall_up} \cup {<<f, "DOWN">> : f \in hall_down}

Service == INSTANCE ElevatorService
             WITH floor <- CURRENT_FLOOR, motor <- Motor, calls <- Waiting

outputs == <<MOTOR_UP, MOTOR_DN, DOOR_OPEN_DRV, DOOR_CLOSE_DRV>>
recovery == <<recover_state, recover_T_TICK_CNT, recovering>>
vars == <<state, CURRENT_FLOOR, CURRENT_DIR, hall_up, hall_down, outputs,
          T_TICK_CNT, recovery, door_timer, door, trip, forgotten>>

Init ==
  /\ state = "IDLE_STOP" /\ recover_state = "IDLE_STOP"
  /\ CURRENT_FLOOR = START_FLOOR /\ CURRENT_DIR = "STOP"
  /\ hall_up = {} /\ hall_down = {}
  /\ MOTOR_UP = FALSE /\ MOTOR_DN = FALSE
  /\ DOOR_OPEN_DRV = FALSE /\ DOOR_CLOSE_DRV = FALSE
  /\ T_TICK_CNT = 0 /\ recover_T_TICK_CNT = 0 /\ recovering = FALSE
  /\ door_timer \in PowerUpTimer       \* the reset branch does not assign it
  /\ door = "shut" /\ trip = "STOP" /\ forgotten = FALSE

-----------------------------------------------------------------------------
(* The request logic (the wires between the registers).                    *)

all_requests == hall_up \cup hall_down
has_above(R, f) == \E g \in R : g > f
\* Mutant: the lowest floor is never seen.
has_below_but_lowest(R, f) == f > START_FLOOR + 1 /\ \E g \in R : g < f

has_below(R, f) == f > START_FLOOR /\ \E g \in R : g < f

req_at_floor == CURRENT_FLOOR \in all_requests
has_req_above == has_above(all_requests, CURRENT_FLOOR)
has_req_below == has_below(all_requests, CURRENT_FLOOR)

next_up == IF CURRENT_FLOOR = MAX_FLOOR THEN CURRENT_FLOOR
                                        ELSE CURRENT_FLOOR + 1
next_down == IF CURRENT_FLOOR = START_FLOOR THEN CURRENT_FLOOR
                                            ELSE CURRENT_FLOOR - 1

\* Mutant: a lone DOWN call above is passed.
stop_at_next_up_same_way == next_up \in hall_up \/ next_up = MAX_FLOOR

\* Mutant: the car stops below the highest DOWN call whether or not the floor
\* was called.
stop_at_next_up_uncalled ==
  \/ next_up \in hall_up
  \/ next_up = MAX_FLOOR
  \/ ~has_above(hall_up, CURRENT_FLOOR)

stop_at_next_up ==
  \/ next_up \in hall_up
  \/ next_up = MAX_FLOOR
  \/ /\ ~has_above(hall_up, CURRENT_FLOOR)
     /\ ~has_above(all_requests, next_up)
     /\ next_up \in hall_down

stop_at_next_down ==
  \/ next_down \in hall_down
  \/ next_down = START_FLOOR
  \/ /\ ~has_below(hall_down, CURRENT_FLOOR)
     /\ ~has_below(all_requests, next_down)
     /\ next_down \in hall_up

-----------------------------------------------------------------------------
(* What every edge does: call registers, output registers, history.        *)

\* The addressed call bits are set, then the bits a DWELL edge clears are
\* cleared: the later assignment wins when both name the same bit.
RegisterCall(in, clearUp, clearDown) ==
  /\ hall_up' =
       (hall_up \cup {f \in Floors : <<f, "UP">> \in in.call}) \ clearUp
  /\ hall_down' =
       (hall_down \cup {f \in Floors : <<f, "DOWN">> \in in.call}) \ clearDown

\* At most one drive is energised; "none" leaves all four outputs low.
Drive(which) ==
  /\ MOTOR_UP' = (which = "up")
  /\ MOTOR_DN' = (which = "down")
  /\ DOOR_OPEN_DRV' = (which = "open")
  /\ DOOR_CLOSE_DRV' = (which = "close")

\* Count a tick (4-bit counter) while the phase goes on.
Count == T_TICK_CNT' = (T_TICK_CNT + 1) % 16

\* Mutant: the tick counter is not reset when the phase changes.
GotoCounting(phase) == state' = phase /\ UNCHANGED T_TICK_CNT

Goto(phase) == state' = phase /\ T_TICK_CNT' = 0
Stay == UNCHANGED <<state, T_TICK_CNT>>

Depart(dir) ==
  /\ Goto(IF dir = "UP" THEN "MOVING_UP" ELSE "MOVING_DOWN")
  /\ CURRENT_DIR' = dir /\ trip' = dir

\* Mutant: only an interrupted trip is remembered.
RememberTrips ==
  /\ recover_state' = state
  /\ recover_T_TICK_CNT' = T_TICK_CNT
  /\ recovering' = (state \in Moving)

\* The first edge of an emergency stop remembers the phase it interrupts ...
Remember ==
  /\ recover_state' = state
  /\ recover_T_TICK_CNT' =
       IF state \in Moving \cup {"DWELL"} THEN T_TICK_CNT ELSE 0
  /\ recovering' = (state # "IDLE_STOP")

\* ... and the rest phase after the stop goes back to it.
Recover ==
  /\ recovering' = FALSE
  /\ state' = recover_state /\ T_TICK_CNT' = recover_T_TICK_CNT

-----------------------------------------------------------------------------
(* One action per phase, for an edge at which EMG_STOP is low.             *)

Idle(in) ==
  /\ ~in.emg /\ state = "IDLE_STOP"
  /\ Drive("none") /\ RegisterCall(in, {}, {})
  /\ \/ /\ recovering /\ Recover
        /\ CURRENT_DIR' = "STOP" /\ UNCHANGED trip
     \/ /\ ~recovering /\ UNCHANGED recovering
        /\ \/ /\ req_at_floor
              /\ Goto("DOOR_OPENING")
              /\ CURRENT_DIR' = "STOP" /\ trip' = "STOP"
           \/ ~req_at_floor /\ has_req_above /\ Depart("UP")
           \/ ~req_at_floor /\ ~has_req_above /\ has_req_below /\ Depart("DOWN")
           \/ /\ ~req_at_floor /\ ~has_req_above /\ ~has_req_below
              /\ Stay
              /\ CURRENT_DIR' = "STOP" /\ trip' = "STOP"
  /\ UNCHANGED <<CURRENT_FLOOR, recover_state, recover_T_TICK_CNT,
                 door_timer, door, forgotten>>

DoorOpening(in) ==
  /\ ~in.emg /\ state = "DOOR_OPENING"
  /\ Drive("open") /\ RegisterCall(in, {}, {})
  /\ door' = "open" /\ forgotten' = FALSE
  /\ \/ in.open /\ T_TICK_CNT' = 0 /\ UNCHANGED state
     \/ ~in.open /\ ~in.tick /\ Stay
     \/ /\ ~in.open /\ in.tick
        /\ IF T_TICK_CNT = DOOR_OPEN_TIME - 1
             THEN Goto("DWELL")
             ELSE Count /\ UNCHANGED state
  /\ UNCHANGED <<CURRENT_FLOOR, CURRENT_DIR, recovery, door_timer, trip>>

\* The calls a DWELL edge clears at CURRENT_FLOOR: the call of the travel
\* direction, and the opposite one when nobody further on wants to go the
\* same way (or when the car has no direction).
dwell_clears_up ==
  \/ CURRENT_DIR # "DOWN"
  \/ CURRENT_FLOOR = START_FLOOR
  \/ ~has_below(hall_down, CURRENT_FLOOR)
dwell_clears_down ==
  \/ CURRENT_DIR # "UP"
  \/ CURRENT_FLOOR = MAX_FLOOR
  \/ ~has_above(hall_up, CURRENT_FLOOR)

\* Mutant: the cleared bit is that of the next floor.
NextOne(cond) == IF cond THEN {next_up} ELSE {}

Here(cond) == IF cond THEN {CURRENT_FLOOR} ELSE {}

Dwell(in) ==
  /\ ~in.emg /\ state = "DWELL"
  /\ Drive("none")
  /\ RegisterCall(in, Here(dwell_clears_up), Here(dwell_clears_down))
  /\ \/ in.close /\ Goto("DOOR_CLOSING") /\ UNCHANGED door_timer
     \/ /\ ~in.close /\ in.open
        /\ T_TICK_CNT' = 0
        /\ \/ ~in.tick /\ UNCHANGED <<state, door_timer>>
           \/ /\ in.tick /\ door_timer = OPEN_MAX_TIME - 1
              /\ state' = "DOOR_CLOSING" /\ door_timer' = 0
           \/ /\ in.tick /\ door_timer # OPEN_MAX_TIME - 1
              /\ door_timer' = (door_timer + 1) % 16 /\ UNCHANGED state
     \/ /\ ~in.close /\ ~in.open /\ UNCHANGED door_timer
        /\ \/ ~in.tick /\ Stay
           \/ in.tick /\ T_TICK_CNT = DWELL_BASE - 1 /\ Goto("DOOR_CLOSING")
           \/ in.tick /\ T_TICK_CNT # DWELL_BASE - 1 /\ Count /\ UNCHANGED state
  /\ UNCHANGED <<CURRENT_FLOOR, CURRENT_DIR, recovery, door, trip, forgotten>>

\* Mutant: the car prefers to go up.
DoorClosedUpFirst ==
  \/ has_req_above /\ Depart("UP")
  \/ ~has_req_above /\ has_req_below /\ Depart("DOWN")
  \/ /\ ~has_req_above /\ ~has_req_below
     /\ state' = "IDLE_STOP" /\ T_TICK_CNT' = 0
     /\ UNCHANGED <<CURRENT_DIR, trip>>

\* The door has closed: go on in the travel direction if it has requests,
\* else the other way, else rest.
DoorClosed ==
  LET wantsUp == CURRENT_DIR \in {"UP", "STOP"} /\ has_req_above
      wantsDown == CURRENT_DIR \in {"DOWN", "STOP"} /\ has_req_below
      goUp == wantsUp \/ (~wantsDown /\ has_req_above)
      goDown == ~goUp /\ has_req_below
  IN  \/ goUp /\ Depart("UP")
      \/ goDown /\ Depart("DOWN")
      \/ /\ ~goUp /\ ~goDown
         /\ state' = "IDLE_STOP" /\ UNCHANGED <<CURRENT_DIR, trip>>
         /\ T_TICK_CNT' = IF req_at_floor THEN T_TICK_CNT ELSE 0

DoorClosing(in) ==
  /\ ~in.emg /\ state = "DOOR_CLOSING"
  /\ Drive("close") /\ RegisterCall(in, {}, {})
  /\ \/ in.open /\ Goto("DOOR_OPENING") /\ UNCHANGED <<CURRENT_DIR, trip, door>>
     \/ ~in.open /\ ~in.tick /\ Stay /\ UNCHANGED <<CURRENT_DIR, trip, door>>
     \/ /\ ~in.open /\ in.tick /\ T_TICK_CNT = DOOR_CLOSE_TIME - 1
        /\ DoorClosed /\ door' = "shut"
     \/ /\ ~in.open /\ in.tick /\ T_TICK_CNT # DOOR_CLOSE_TIME - 1
        /\ Count /\ UNCHANGED <<state, CURRENT_DIR, trip, door>>
  /\ UNCHANGED <<CURRENT_FLOOR, recovery, door_timer, forgotten>>

\* A floor is reached every FLOOR_TRAVEL_TIME ticks; the car stops there or
\* goes on.
Travel(in, dir, nextFloor, stopThere) ==
  /\ ~in.emg
  /\ CURRENT_DIR' = dir /\ trip' = dir
  /\ RegisterCall(in, {}, {})
  /\ \/ ~in.tick /\ Stay /\ UNCHANGED CURRENT_FLOOR
     \/ /\ in.tick /\ T_TICK_CNT = FLOOR_TRAVEL_TIME - 1
        /\ CURRENT_FLOOR' = nextFloor
        /\ Goto(IF stopThere THEN "DOOR_OPENING" ELSE state)
     \/ /\ in.tick /\ T_TICK_CNT # FLOOR_TRAVEL_TIME - 1
        /\ Count /\ UNCHANGED <<state, CURRENT_FLOOR>>
  /\ UNCHANGED <<recovery, door_timer, door, forgotten>>

MovingUp(in) ==
  /\ state = "MOVING_UP" /\ Drive("up")
  /\ Travel(in, "UP", next_up, stop_at_next_up)

MovingDown(in) ==
  /\ state = "MOVING_DOWN" /\ Drive("down")
  /\ Travel(in, "DOWN", next_down, stop_at_next_down)

EmgReleased(in) ==
  /\ ~in.emg /\ state = "EMG_STOP"
  /\ state' = "IDLE_STOP"
  /\ Drive("none") /\ RegisterCall(in, {}, {})
  /\ UNCHANGED <<CURRENT_FLOOR, CURRENT_DIR, T_TICK_CNT, recovery,
                 door_timer, door, trip, forgotten>>

\* EMG_STOP is high: the first such edge remembers the interrupted phase.
\* The input is not debounced and is obeyed at every edge, also at the rest
\* edge that would have gone back to an interrupted phase: what is remembered
\* then is the rest phase, and an open door is no longer seen to.
Emergency(in) ==
  /\ in.emg
  /\ \/ state = "EMG_STOP" /\ UNCHANGED recovery
     \/ state # "EMG_STOP" /\ Remember
  /\ state' = "EMG_STOP" /\ CURRENT_DIR' = "STOP"
  /\ Drive("none") /\ RegisterCall(in, {}, {})
  /\ forgotten' =
       (forgotten \/ (state = "IDLE_STOP" /\ recovering /\ door = "open"))
  /\ UNCHANGED <<CURRENT_FLOOR, T_TICK_CNT, door_timer, door, trip>>

Cycle(in) ==
  \/ Idle(in)
  \/ DoorOpening(in)
  \/ Dwell(in)
  \/ DoorClosing(in)
  \/ MovingUp(in)
  \/ MovingDown(in)
  \/ EmgReleased(in)
  \/ Emergency(in)

Next == \E in \in Inputs : Cycle(in)

Spec == Init /\ [][Next]_vars

-----------------------------------------------------------------------------
(* Properties.                                                             *)

\* Ticks a phase counts before it is over; the phases that do not count
\* keep whatever the counter held.
Duration(phase) ==
  CASE phase = "DOOR_OPENING" -> DOOR_OPEN_TIME
    [] phase = "DWELL" -> DWELL_BASE
    [] phase = "DOOR_CLOSING" -> DOOR_CLOSE_TIME
    [] phase \in Moving -> FLOOR_TRAVEL_TIME
    [] OTHER -> 16

\* Every register keeps its width and every output its level.
TypeOK ==
  /\ state \in Phases /\ recover_state \in Phases \ {"EMG_STOP"}
  /\ CURRENT_FLOOR \in Floors /\ CURRENT_DIR \in Directions
  /\ hall_up \in SUBSET Floors /\ hall_down \in SUBSET Floors
  /\ MOTOR_UP \in BOOLEAN /\ MOTOR_DN \in BOOLEAN
  /\ DOOR_OPEN_DRV \in BOOLEAN /\ DOOR_CLOSE_DRV \in BOOLEAN
  /\ T_TICK_CNT \in 0..15 /\ recover_T_TICK_CNT \in 0..15
  /\ recovering \in BOOLEAN /\ door_timer \in 0..15
  /\ door \in {"open", "shut"} /\ trip \in Directions
  /\ forgotten \in BOOLEAN

\* The phases end on an equality test of a 4-bit counter, so a counter
\* carried past the limit by an emergency stop, a recovery or a jump between
\* phases would let the phase run on for a whole wrap of the counter.
TimerNeverPassesItsLimit == T_TICK_CNT < Duration(state)

\* The motor runs, or is about to, only with the door shut: a moving phase
\* is entered from the door work, from rest and from an emergency stop.  The
\* one way to drive with an open door is a second stop at the very edge that
\* would have taken the door work up again, until the door is next worked.
DoorShutWhileMoving ==
  state \in Moving \/ MOTOR_UP \/ MOTOR_DN => door = "shut" \/ forgotten

\* The car travels only towards a registered call: so it never runs past the
\* last floor, and no call it heads for can vanish under way.
MovesTowardsACall ==
  /\ state = "MOVING_UP" => has_req_above
  /\ state = "MOVING_DOWN" => has_req_below

\* A moving car stops only at a floor that was called.
StopsOnlyWhereCalled ==
  [][(state \in Moving) /\ state' = "DOOR_OPENING"
       => CURRENT_FLOOR' \in all_requests]_vars

\* A registered call disappears only at its own floor, with the door open.
CallsEndAtTheOpenDoor ==
  [][\A f \in Floors :
       f \in all_requests /\ f \notin all_requests'
         => f = CURRENT_FLOOR /\ door = "open"]_vars

\* While a door is (partly) open, an emergency stop and the rest cycle after
\* it remember the door work they interrupted (README 3.5: once released,
\* operation is taken up again), however long or often the stop is pressed,
\* unless it is pressed again at the edge of the recovery itself.
DoorWorkIsResumed ==
  state \in {"EMG_STOP", "IDLE_STOP"} /\ door = "open"
    => recovering \/ forgotten

\* Behind the phases, counters, recoveries and registers that lag a cycle is
\* what ElevatorService promises: the motor runs only towards somebody who
\* waits and with the door shut (but for a door given up during a halt), the
\* door opens only where somebody waits, no call is lost.
ImplementsTheService == Service!Spec

=============================================================================
