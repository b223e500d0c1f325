------------------------- MODULE ElevatorFSM_proofs -------------------------
(***************************************************************************)
(* Theorems about ElevatorFSM for any number of floors, any durations and  *)
(* any levels of the inputs.                                               *)
(***************************************************************************)
EXTENDS MCElevatorFSM, TLAPS

(***************************************************************************)
(* Type correctness.                                                       *)
(***************************************************************************)

\* Registering a call leaves the call registers sets of served floors.
LEMMA RegisterCallType ==
  ASSUME NEW in \in Inputs, NEW U, NEW D, TypeOK, RegisterCall(in, U, D)
  PROVE  hall_up' \in SUBSET Floors /\ hall_down' \in SUBSET Floors
  BY DEF RegisterCall, TypeOK

\* The drives have their types after every edge.
LEMMA DriveType ==
  ASSUME NEW which, Drive(which)
  PROVE  /\ MOTOR_UP' \in BOOLEAN /\ MOTOR_DN' \in BOOLEAN
         /\ DOOR_OPEN_DRV' \in BOOLEAN /\ DOOR_CLOSE_DRV' \in BOOLEAN
  BY DEF Drive

\* Every reachable state has its registers within their widths and the car
\* on a served floor.
THEOREM TypeCorrect == Spec => []TypeOK
<1>1. Init => TypeOK
  <2> SUFFICES ASSUME Init PROVE TypeOK
    OBVIOUS
  <2>1. CURRENT_FLOOR \in Floors
    BY FloorAssumption DEF Init, Floors
  <2>2. T_TICK_CNT \in 0..15 /\ recover_T_TICK_CNT \in 0..15
        /\ door_timer \in 0..15
    BY EnvAssumption DEF Init
  <2>3. QED
    BY <2>1, <2>2, Zenon DEF Init, TypeOK, Phases, Directions
<1>2. TypeOK /\ [Next]_vars => TypeOK'
  <2> SUFFICES ASSUME TypeOK, [Next]_vars PROVE TypeOK'
    OBVIOUS
  <2> USE DEF Phases, Directions, Goto, Stay, Count, Depart, recovery
  <2>1. CASE UNCHANGED vars
    BY <2>1 DEF vars, outputs, TypeOK
  <2>2. ASSUME NEW in \in Inputs, Cycle(in) PROVE TypeOK'
    <3>1. CASE Idle(in)
      <4>1. /\ state' \in Phases /\ CURRENT_DIR' \in Directions
            /\ T_TICK_CNT' \in 0..15 /\ trip' \in Directions
        BY <3>1 DEF Idle, Recover, TypeOK
      <4>2. recovering' \in BOOLEAN
        BY <3>1, Zenon DEF Idle, Recover, TypeOK
      <4>3. QED
        BY <3>1, <4>1, <4>2, RegisterCallType, DriveType
        DEF Idle, Recover, TypeOK
    <3>2. CASE DoorOpening(in)
      <4>1. forgotten' = FALSE
        BY <3>2 DEF DoorOpening
      <4>2. forgotten' \in BOOLEAN
        BY <4>1, Zenon
      <4>3. /\ state' \in Phases /\ T_TICK_CNT' \in 0..15
            /\ door' \in {"open", "shut"}
        BY <3>2 DEF DoorOpening, TypeOK
      <4>4. QED
        BY <3>2, <4>2, <4>3, RegisterCallType, DriveType
        DEF DoorOpening, TypeOK
    <3>3. CASE Dwell(in)
      BY <3>3, RegisterCallType, DriveType DEF Dwell, TypeOK
    <3>4. CASE DoorClosing(in)
      BY <3>4, RegisterCallType, DriveType
      DEF DoorClosing, DoorClosed, TypeOK
    <3>5. CASE MovingUp(in)
      <4>1. next_up \in Floors
        BY FloorAssumption DEF next_up, Floors, TypeOK
      <4>2. QED
        BY <3>5, <4>1, RegisterCallType, DriveType
        DEF MovingUp, Travel, TypeOK
    <3>6. CASE MovingDown(in)
      <4>1. next_down \in Floors
        BY FloorAssumption DEF next_down, Floors, TypeOK
      <4>2. QED
        BY <3>6, <4>1, RegisterCallType, DriveType
        DEF MovingDown, Travel, TypeOK
    <3>7. CASE EmgReleased(in)
      BY <3>7, RegisterCallType, DriveType DEF EmgReleased, TypeOK
    <3>8. CASE Emergency(in)
      <4>1. /\ recover_state' \in Phases \ {"EMG_STOP"}
            /\ recover_T_TICK_CNT' \in 0..15
        BY <3>8 DEF Emergency, Remember, TypeOK
      <4>2. recovering' \in BOOLEAN /\ forgotten' \in BOOLEAN
        BY <3>8, Zenon DEF Emergency, Remember, TypeOK
      <4>3. QED
        BY <3>8, <4>1, <4>2, RegisterCallType, DriveType
        DEF Emergency, Remember, TypeOK
    <3>9. QED
      BY <2>2, <3>1, <3>2, <3>3, <3>4, <3>5, <3>6, <3>7, <3>8
      DEF Cycle
  <2>3. QED
    BY <2>1, <2>2 DEF Next
<1>3. QED
  BY <1>1, <1>2, PTL DEF Spec

(***************************************************************************)
(* What a pending recovery remembers.                                      *)
(***************************************************************************)

\* A recovery is pending only between an emergency stop and the rest cycle
\* that follows it, and it leads back to a moving phase or to door work.
RecoveryInv ==
  recovering => /\ state \in {"IDLE_STOP", "EMG_STOP"}
                /\ recover_state \in Moving \cup DoorWork

\* The remembered phase is one the code can be in: no emergency stop
\* recovers to rest or to itself.
THEOREM RecoveryIsOfAnInterruptedPhase == Spec => []RecoveryInv
<1>1. Init => RecoveryInv
  BY DEF Init, RecoveryInv
<1>2. TypeOK /\ RecoveryInv /\ [Next]_vars => RecoveryInv'
  <2> SUFFICES ASSUME TypeOK, RecoveryInv, [Next]_vars PROVE RecoveryInv'
    OBVIOUS
  <2> USE DEF RecoveryInv, TypeOK, Moving, DoorWork, Phases, recovery
  <2>1. CASE UNCHANGED vars
    BY <2>1 DEF vars
  <2>2. ASSUME NEW in \in Inputs, Idle(in) PROVE RecoveryInv'
    BY <2>2 DEF Idle, Recover, Goto, Stay, Depart
  <2>3. ASSUME NEW in \in Inputs, DoorOpening(in) PROVE RecoveryInv'
    BY <2>3 DEF DoorOpening
  <2>4. ASSUME NEW in \in Inputs, Dwell(in) PROVE RecoveryInv'
    BY <2>4 DEF Dwell
  <2>5. ASSUME NEW in \in Inputs, DoorClosing(in) PROVE RecoveryInv'
    BY <2>5 DEF DoorClosing
  <2>6. ASSUME NEW in \in Inputs, MovingUp(in) PROVE RecoveryInv'
    BY <2>6 DEF MovingUp, Travel
  <2>7. ASSUME NEW in \in Inputs, MovingDown(in) PROVE RecoveryInv'
    BY <2>7 DEF MovingDown, Travel
  <2>8. ASSUME NEW in \in Inputs, EmgReleased(in) PROVE RecoveryInv'
    BY <2>8 DEF EmgReleased
  <2>9. ASSUME NEW in \in Inputs, Emergency(in) PROVE RecoveryInv'
    BY <2>9 DEF Emergency, Remember
  <2>10. QED
    BY <2>1, <2>2, <2>3, <2>4, <2>5, <2>6, <2>7, <2>8, <2>9
    DEF Next, Cycle
<1>3. QED
  BY <1>1, <1>2, TypeCorrect, PTL DEF Spec

(***************************************************************************)
(* The motor and the door.                                                 *)
(***************************************************************************)

\* Rest and emergency phases have the door shut unless they will take up
\* door work again or have forgotten it; a pending recovery to a moving phase
\* has it shut or forgotten.  A forgotten door is open, and neither dwells nor
\* closes before it has been opened anew.
DoorInv ==
  /\ DoorShutWhileMoving
  /\ DoorWorkIsResumed
  /\ recovering /\ recover_state \in Moving => door = "shut" \/ forgotten
  /\ forgotten => door = "open" /\ state \notin {"DWELL", "DOOR_CLOSING"}
  /\ forgotten /\ recovering => recover_state \notin {"DWELL", "DOOR_CLOSING"}

\* The parts are only inductive together: an idle car is known to have its
\* door shut because unfinished door work would still be remembered, or
\* known to be forgotten.
THEOREM DoorInvariance == Spec => []DoorInv
<1>1. Init => DoorInv
  BY DEF Init, DoorInv, DoorShutWhileMoving, DoorWorkIsResumed, Moving
<1>2. TypeOK /\ RecoveryInv /\ DoorInv /\ [Next]_vars => DoorInv'
  <2> SUFFICES ASSUME TypeOK, RecoveryInv, DoorInv, [Next]_vars
               PROVE  DoorInv'
    OBVIOUS
  <2> USE DEF DoorInv, DoorShutWhileMoving, DoorWorkIsResumed, RecoveryInv,
              Moving, DoorWork, recovery, Drive
  <2>1. CASE UNCHANGED vars
    BY <2>1 DEF vars, outputs
  <2>2. ASSUME NEW in \in Inputs, Idle(in) PROVE DoorInv'
    <3>1. ~MOTOR_UP' /\ ~MOTOR_DN' /\ door' = door
      BY <2>2 DEF Idle, Recover
    <3>0. forgotten' = forgotten
      BY <2>2 DEF Idle
    <3>2. ~recovering'
      BY <2>2, Zenon DEF Idle, Recover
    <3>3. door = "shut" \/ recovering \/ forgotten
      BY <2>2 DEF Idle, Recover, TypeOK
    <3>4. \/ recovering /\ state' = recover_state
          \/ ~recovering /\ state' \in {"DOOR_OPENING", "IDLE_STOP"} \cup Moving
      BY <2>2 DEF Idle, Recover, Goto, Stay, Depart
    <3>5. DoorShutWhileMoving'
      BY <3>0, <3>1, <3>2, <3>3, <3>4
    <3>6. DoorWorkIsResumed'
      BY <3>0, <3>1, <3>2, <3>3, <3>4
    <3>7. forgotten => state' \notin {"DWELL", "DOOR_CLOSING"}
      BY <3>4
    <3>8. QED
      BY <3>0, <3>1, <3>2, <3>5, <3>6, <3>7
  <2>3. ASSUME NEW in \in Inputs, DoorOpening(in) PROVE DoorInv'
    BY <2>3 DEF DoorOpening, Goto, Stay
  <2>4. ASSUME NEW in \in Inputs, Dwell(in) PROVE DoorInv'
    BY <2>4 DEF Dwell, Goto, Stay
  <2>5. ASSUME NEW in \in Inputs, DoorClosing(in) PROVE DoorInv'
    BY <2>5 DEF DoorClosing, DoorClosed, Goto, Stay, Depart
  <2>6. ASSUME NEW in \in Inputs, MovingUp(in) PROVE DoorInv'
    BY <2>6 DEF MovingUp, Travel, Goto, Stay
  <2>7. ASSUME NEW in \in Inputs, MovingDown(in) PROVE DoorInv'
    BY <2>7 DEF MovingDown, Travel, Goto, Stay
  <2>8. ASSUME NEW in \in Inputs, EmgReleased(in) PROVE DoorInv'
    BY <2>8 DEF EmgReleased
  <2>9. ASSUME NEW in \in Inputs, Emergency(in) PROVE DoorInv'
    <3>1. /\ ~MOTOR_UP' /\ ~MOTOR_DN' /\ door' = door
          /\ state' = "EMG_STOP"
      BY <2>9 DEF Emergency, Remember
    <3>2. CASE state = "EMG_STOP"
      <4>1. forgotten' <=> forgotten
        BY <2>9, <3>2, Zenon DEF Emergency
      <4>2. recover_state' = recover_state /\ recovering' = recovering
        BY <2>9, <3>2 DEF Emergency
      <4>3. QED
        BY <3>1, <3>2, <4>1, <4>2
    <3>3. CASE state # "EMG_STOP"
      <4>1. (recovering' <=> state # "IDLE_STOP") /\ recover_state' = state
        BY <2>9, <3>3 DEF Emergency, Remember
      <4>2. forgotten' <=> \/ forgotten
                           \/ state = "IDLE_STOP" /\ recovering /\ door = "open"
        BY <2>9, Zenon DEF Emergency
      <4>3. door = "open" => state # "IDLE_STOP" \/ forgotten'
        BY <3>3, <4>2
      <4>4. state # "IDLE_STOP" => (forgotten' <=> forgotten)
        BY <4>2
      <4>5. forgotten' => door = "open"
        BY <4>2
      <4>6. QED
        BY <3>1, <4>1, <4>3, <4>4, <4>5 DEF TypeOK
    <3>4. QED
      BY <3>2, <3>3
  <2>10. QED
    BY <2>1, <2>2, <2>3, <2>4, <2>5, <2>6, <2>7, <2>8, <2>9
    DEF Next, Cycle
<1>3. QED
  BY <1>1, <1>2, TypeCorrect, RecoveryIsOfAnInterruptedPhase, PTL
  DEF Spec

\* The motor never runs, and never starts, with the door open, unless a stop
\* at the edge of a recovery made the controller forget the open door.
THEOREM DoorSafety == Spec => []DoorShutWhileMoving
<1>1. DoorInv => DoorShutWhileMoving
  BY DEF DoorInv
<1>2. QED
  BY <1>1, DoorInvariance, PTL

\* An emergency stop never forgets the door work it interrupted, whatever
\* happens at any other edge than that of the recovery.
THEOREM DoorWorkSafety == Spec => []DoorWorkIsResumed
<1>1. DoorInv => DoorWorkIsResumed
  BY DEF DoorInv
<1>2. QED
  BY <1>1, DoorInvariance, PTL

(***************************************************************************)
(* The phase timer.                                                        *)
(***************************************************************************)

\* The counter is below the limit of the phase, and so is the count a
\* recovery will restore.
TimerInv ==
  /\ TimerNeverPassesItsLimit
  /\ recovering => recover_T_TICK_CNT < Duration(recover_state)

\* No interleaving of ticks, buttons and emergency stops makes the counter
\* step over the equality test that ends a phase.
THEOREM TimerSafety == Spec => []TimerNeverPassesItsLimit
<1> USE TimeAssumption
    DEF TimerInv, TimerNeverPassesItsLimit, Duration, Moving, DoorWork
<1>1. Init => TimerInv
  BY DEF Init
<1>2. TypeOK /\ RecoveryInv /\ TimerInv /\ [Next]_vars => TimerInv'
  <2> SUFFICES ASSUME TypeOK, RecoveryInv, TimerInv, [Next]_vars
               PROVE  TimerInv'
    OBVIOUS
  <2> USE DEF TypeOK, RecoveryInv, recovery, Goto, Stay, Count, Phases
  <2>1. CASE UNCHANGED vars
    BY <2>1 DEF vars
  <2>2. ASSUME NEW in \in Inputs, Idle(in) PROVE TimerInv'
    BY <2>2 DEF Idle, Recover, Depart
  <2>3. ASSUME NEW in \in Inputs, DoorOpening(in) PROVE TimerInv'
    BY <2>3 DEF DoorOpening
  <2>4. ASSUME NEW in \in Inputs, Dwell(in) PROVE TimerInv'
    BY <2>4 DEF Dwell
  <2>5. ASSUME NEW in \in Inputs, DoorClosing(in) PROVE TimerInv'
    BY <2>5 DEF DoorClosing, DoorClosed, Depart
  <2>6. ASSUME NEW in \in Inputs, MovingUp(in) PROVE TimerInv'
    BY <2>6 DEF MovingUp, Travel
  <2>7. ASSUME NEW in \in Inputs, MovingDown(in) PROVE TimerInv'
    BY <2>7 DEF MovingDown, Travel
  <2>8. ASSUME NEW in \in Inputs, EmgReleased(in) PROVE TimerInv'
    BY <2>8 DEF EmgReleased
  <2>9. ASSUME NEW in \in Inputs, Emergency(in) PROVE TimerInv'
    BY <2>9 DEF Emergency, Remember
  <2>10. QED
    BY <2>1, <2>2, <2>3, <2>4, <2>5, <2>6, <2>7, <2>8, <2>9
    DEF Next, Cycle
<1>3. QED
  BY <1>1, <1>2, TypeCorrect, RecoveryIsOfAnInterruptedPhase, PTL DEF Spec

(***************************************************************************)
(* The car travels only towards calls.                                     *)
(***************************************************************************)

\* A moving phase has a call ahead, also while an emergency interrupts it.
HeadingInv ==
  /\ MovesTowardsACall
  /\ recovering /\ recover_state = "MOVING_UP" => has_req_above
  /\ recovering /\ recover_state = "MOVING_DOWN" => has_req_below

\* Outside DWELL no edge clears a call, so what lies ahead stays ahead.
LEMMA CallsStayAhead ==
  ASSUME NEW in, RegisterCall(in, {}, {}), UNCHANGED CURRENT_FLOOR
  PROVE  /\ has_req_above => has_req_above'
         /\ has_req_below => has_req_below'
  BY DEF RegisterCall, has_req_above, has_req_below, has_above, has_below,
         all_requests

\* A floor the car going up does not stop at still has calls above it; a
\* floor it stops at was called.
LEMMA PassingUp ==
  ASSUME TypeOK, has_req_above
  PROVE  /\ next_up = CURRENT_FLOOR + 1
         /\ stop_at_next_up => next_up \in all_requests
         /\ ~stop_at_next_up => has_above(all_requests, next_up)
<1>1. PICK g \in all_requests : g > CURRENT_FLOOR
  BY DEF has_req_above, has_above
<1>2. all_requests \in SUBSET Floors /\ CURRENT_FLOOR \in Floors
  BY DEF TypeOK, all_requests
<1>3. g \in Int /\ CURRENT_FLOOR \in Int /\ MAX_FLOOR \in Int
  BY <1>1, <1>2, FloorAssumption DEF Floors
<1>4. CURRENT_FLOOR < MAX_FLOOR /\ g <= MAX_FLOOR /\ g >= CURRENT_FLOOR + 1
  BY <1>1, <1>2, <1>3 DEF Floors
<1>5. next_up = CURRENT_FLOOR + 1
  BY <1>3, <1>4 DEF next_up
<1>6. g = next_up \/ g > next_up
  BY <1>3, <1>4, <1>5
<1>7. ASSUME stop_at_next_up PROVE next_up \in all_requests
  <2>1. CASE next_up \in hall_up \/ next_up \in hall_down
    BY <2>1 DEF all_requests
  <2>2. CASE next_up = MAX_FLOOR
    BY <1>1, <1>3, <1>4, <1>6, <2>2
  <2>3. QED
    BY <1>7, <2>1, <2>2 DEF stop_at_next_up
<1>8. ASSUME ~stop_at_next_up PROVE has_above(all_requests, next_up)
  <2> SUFFICES ASSUME ~has_above(all_requests, next_up) PROVE FALSE
    OBVIOUS
  <2>1. g = next_up
    BY <1>1, <1>6 DEF has_above
  <2>2. next_up \notin hall_up
    BY <1>8 DEF stop_at_next_up
  <2>3. next_up \in hall_down
    BY <1>1, <2>1, <2>2 DEF all_requests
  <2>4. PICK h \in hall_up : h > CURRENT_FLOOR
    BY <1>8, <2>3 DEF stop_at_next_up, has_above
  <2>5. h \in Int /\ h # next_up
    BY <1>2, <2>2, <2>4 DEF all_requests, Floors
  <2>6. h > next_up /\ h \in all_requests
    BY <1>3, <1>5, <2>4, <2>5 DEF all_requests
  <2>7. QED
    BY <2>6 DEF has_above
<1>9. QED
  BY <1>5, <1>7, <1>8

\* The same going down.
LEMMA PassingDown ==
  ASSUME TypeOK, has_req_below
  PROVE  /\ next_down = CURRENT_FLOOR - 1
         /\ stop_at_next_down => next_down \in all_requests
         /\ ~stop_at_next_down => has_below(all_requests, next_down)
<1>1. PICK g \in all_requests : g < CURRENT_FLOOR
  BY DEF has_req_below, has_below
<1>2. all_requests \in SUBSET Floors /\ CURRENT_FLOOR \in Floors
  BY DEF TypeOK, all_requests
<1>3. g \in Int /\ CURRENT_FLOOR \in Int /\ START_FLOOR \in Int
  BY <1>1, <1>2, FloorAssumption DEF Floors
<1>4. CURRENT_FLOOR > START_FLOOR /\ g >= START_FLOOR
      /\ g <= CURRENT_FLOOR - 1
  BY <1>1, <1>2, <1>3 DEF Floors
<1>5. next_down = CURRENT_FLOOR - 1
  BY <1>3, <1>4 DEF next_down
<1>6. g = next_down \/ g < next_down
  BY <1>3, <1>4, <1>5
<1>7. ASSUME stop_at_next_down PROVE next_down \in all_requests
  <2>1. CASE next_down \in hall_up \/ next_down \in hall_down
    BY <2>1 DEF all_requests
  <2>2. CASE next_down = START_FLOOR
    BY <1>1, <1>3, <1>4, <1>6, <2>2
  <2>3. QED
    BY <1>7, <2>1, <2>2 DEF stop_at_next_down
<1>8. ASSUME ~stop_at_next_down PROVE has_below(all_requests, next_down)
  <2> SUFFICES ASSUME ~has_below(all_requests, next_down) PROVE FALSE
    OBVIOUS
  <2>0. next_down > START_FLOOR
    BY <1>3, <1>4, <1>5, <1>8 DEF stop_at_next_down
  <2>1. g = next_down
    BY <1>1, <1>6, <2>0 DEF has_below
  <2>2. next_down \notin hall_down
    BY <1>8 DEF stop_at_next_down
  <2>3. next_down \in hall_up
    BY <1>1, <2>1, <2>2 DEF all_requests
  <2>4. PICK h \in hall_down : h < CURRENT_FLOOR
    BY <1>8, <2>3 DEF stop_at_next_down, has_below
  <2>5. h \in Int /\ h # next_down
    BY <1>2, <2>2, <2>4 DEF all_requests, Floors
  <2>6. h < next_down /\ h \in all_requests
    BY <1>3, <1>5, <2>4, <2>5 DEF all_requests
  <2>7. QED
    BY <2>0, <2>6 DEF has_below
<1>9. QED
  BY <1>5, <1>7, <1>8

\* While the car moves there is a call ahead of it, whatever calls arrive
\* and whatever emergency stops interrupt it; so it never leaves the shaft.
THEOREM HeadingSafety == Spec => []MovesTowardsACall
<1>1. Init => HeadingInv
  BY DEF Init, HeadingInv, MovesTowardsACall
<1>2. TypeOK /\ RecoveryInv /\ HeadingInv /\ [Next]_vars => HeadingInv'
  <2> SUFFICES ASSUME TypeOK, RecoveryInv, HeadingInv, [Next]_vars
               PROVE  HeadingInv'
    OBVIOUS
  <2> USE DEF HeadingInv, MovesTowardsACall, RecoveryInv, recovery
  <2>1. CASE UNCHANGED vars
    BY <2>1 DEF vars, has_req_above, has_req_below, has_above, has_below,
                all_requests
  <2>2. ASSUME NEW in \in Inputs, Idle(in) PROVE HeadingInv'
    <3>1. /\ has_req_above => has_req_above'
          /\ has_req_below => has_req_below'
      BY <2>2, CallsStayAhead DEF Idle, Recover
    <3>2. ~recovering'
      BY <2>2, Zenon DEF Idle, Recover
    <3>3. QED
      BY <2>2, <3>1, <3>2 DEF Idle, Recover, Goto, Stay, Depart
  <2>3. ASSUME NEW in \in Inputs, DoorOpening(in) PROVE HeadingInv'
    BY <2>3 DEF DoorOpening, Goto, Stay
  <2>4. ASSUME NEW in \in Inputs, Dwell(in) PROVE HeadingInv'
    BY <2>4 DEF Dwell, Goto, Stay
  <2>5. ASSUME NEW in \in Inputs, DoorClosing(in) PROVE HeadingInv'
    <3>1. /\ has_req_above => has_req_above'
          /\ has_req_below => has_req_below'
      BY <2>5, CallsStayAhead DEF DoorClosing
    <3>2. QED
      BY <2>5, <3>1 DEF DoorClosing, DoorClosed, Goto, Stay, Depart
  <2>6. ASSUME NEW in \in Inputs, MovingUp(in) PROVE HeadingInv'
    <3>1. state = "MOVING_UP" /\ has_req_above /\ RegisterCall(in, {}, {})
      BY <2>6 DEF MovingUp, Travel
    <3>2. CASE UNCHANGED CURRENT_FLOOR
      BY <2>6, <3>1, <3>2, CallsStayAhead, PassingUp
      DEF MovingUp, Travel, Goto, Stay, Count, TypeOK, Floors
    <3>3. CASE CURRENT_FLOOR' = next_up /\ ~stop_at_next_up
      <4>1. has_above(all_requests, next_up)
        BY <3>1, <3>3, PassingUp
      <4>2. has_req_above'
        BY <3>1, <3>3, <4>1
        DEF RegisterCall, has_req_above, has_above, all_requests
      <4>3. QED
        BY <2>6, <3>1, <3>3, <4>2 DEF MovingUp, Travel, Goto, Stay, Count
    <3>4. CASE state' = "DOOR_OPENING"
      BY <2>6, <3>1, <3>4 DEF MovingUp, Travel
    <3>5. QED
      BY <2>6, <3>2, <3>3, <3>4 DEF MovingUp, Travel, Goto
  <2>7. ASSUME NEW in \in Inputs, MovingDown(in) PROVE HeadingInv'
    <3>1. state = "MOVING_DOWN" /\ has_req_below /\ RegisterCall(in, {}, {})
      BY <2>7 DEF MovingDown, Travel
    <3>2. CASE UNCHANGED CURRENT_FLOOR
      BY <2>7, <3>1, <3>2, CallsStayAhead, PassingDown
      DEF MovingDown, Travel, Goto, Stay, Count, TypeOK, Floors
    <3>3. CASE CURRENT_FLOOR' = next_down /\ ~stop_at_next_down
      <4>1. has_below(all_requests, next_down)
        BY <3>1, <3>3, PassingDown
      <4>2. has_req_below'
        BY <3>1, <3>3, <4>1
        DEF RegisterCall, has_req_below, has_below, all_requests
      <4>3. QED
        BY <2>7, <3>1, <3>3, <4>2 DEF MovingDown, Travel, Goto, Stay, Count
    <3>4. CASE state' = "DOOR_OPENING"
      BY <2>7, <3>1, <3>4 DEF MovingDown, Travel
    <3>5. QED
      BY <2>7, <3>2, <3>3, <3>4 DEF MovingDown, Travel, Goto
  <2>8. ASSUME NEW in \in Inputs, EmgReleased(in) PROVE HeadingInv'
    <3>1. /\ has_req_above => has_req_above'
          /\ has_req_below => has_req_below'
      BY <2>8, CallsStayAhead DEF EmgReleased
    <3>2. QED
      BY <2>8, <3>1 DEF EmgReleased
  <2>9. ASSUME NEW in \in Inputs, Emergency(in) PROVE HeadingInv'
    <3>1. /\ has_req_above => has_req_above'
          /\ has_req_below => has_req_below'
      BY <2>9, CallsStayAhead DEF Emergency, Remember
    <3>2. state' = "EMG_STOP"
      BY <2>9 DEF Emergency, Remember
    <3>3. CASE state = "EMG_STOP"
      BY <2>9, <3>1, <3>2, <3>3 DEF Emergency, Remember
    <3>4. CASE state # "EMG_STOP"
      BY <2>9, <3>1, <3>2, <3>4 DEF Emergency, Remember
    <3>5. QED
      BY <3>3, <3>4
  <2>10. QED
    BY <2>1, <2>2, <2>3, <2>4, <2>5, <2>6, <2>7, <2>8, <2>9
    DEF Next, Cycle
<1>3. QED
  BY <1>1, <1>2, TypeCorrect, RecoveryIsOfAnInterruptedPhase, PTL
  DEF Spec, HeadingInv

\* A moving car opens its door only at a floor that was called.
THEOREM StopsAreCalled == Spec => StopsOnlyWhereCalled
<1>1. TypeOK /\ MovesTowardsACall /\ [Next]_vars
        => [(state \in Moving) /\ state' = "DOOR_OPENING"
              => CURRENT_FLOOR' \in all_requests]_vars
  <2> SUFFICES ASSUME TypeOK, MovesTowardsACall, state \in Moving,
                      state' = "DOOR_OPENING",
                      NEW in \in Inputs, Cycle(in)
               PROVE  CURRENT_FLOOR' \in all_requests
    BY DEF Next
  <2>1. CASE MovingUp(in)
    <3>1. CURRENT_FLOOR' = next_up /\ stop_at_next_up
      BY <2>1 DEF MovingUp, Travel, Goto, Stay
    <3>2. QED
      BY <2>1, <3>1, PassingUp DEF MovingUp, MovesTowardsACall
  <2>2. CASE MovingDown(in)
    <3>1. CURRENT_FLOOR' = next_down /\ stop_at_next_down
      BY <2>2 DEF MovingDown, Travel, Goto, Stay
    <3>2. QED
      BY <2>2, <3>1, PassingDown DEF MovingDown, MovesTowardsACall
  <2>3. QED
    BY <2>1, <2>2 DEF Cycle, Moving, Idle, Recover, DoorOpening, Dwell,
                      DoorClosing, EmgReleased, Emergency, Remember
<1>2. QED
  BY <1>1, TypeCorrect, HeadingSafety, PTL DEF Spec, StopsOnlyWhereCalled

(***************************************************************************)
(* Calls are answered at an open door.                                     *)
(***************************************************************************)

\* The dwell phase, also one a recovery will go back to, has the door open.
DwellInv ==
  /\ state = "DWELL" => door = "open"
  /\ recovering /\ recover_state = "DWELL" => door = "open"

\* An emergency stop in the dwell phase leaves the door as it is, and so does
\* every cycle up to the recovery: no bounce of EMG_STOP can bring the car
\* back to a dwell phase with its door shut.
LEMMA DwellHasTheDoorOpen == Spec => []DwellInv
<1>1. Init => DwellInv
  BY DEF Init, DwellInv
<1>2. TypeOK /\ RecoveryInv /\ DwellInv /\ [Next]_vars => DwellInv'
  <2> SUFFICES ASSUME TypeOK, RecoveryInv, DwellInv, [Next]_vars
               PROVE  DwellInv'
    OBVIOUS
  <2> USE DEF DwellInv, RecoveryInv, Moving, DoorWork, recovery, Goto, Stay
  <2>1. CASE UNCHANGED vars
    BY <2>1 DEF vars
  <2>2. ASSUME NEW in \in Inputs, Idle(in) PROVE DwellInv'
    <3>1. ~recovering'
      BY <2>2, Zenon DEF Idle, Recover
    <3>2. door' = door
      BY <2>2 DEF Idle
    <3>3. state' = "DWELL" => recovering /\ recover_state = "DWELL"
      BY <2>2 DEF Idle, Recover, Depart
    <3>4. QED
      BY <3>1, <3>2, <3>3
  <2>3. ASSUME NEW in \in Inputs, DoorOpening(in) PROVE DwellInv'
    BY <2>3 DEF DoorOpening
  <2>4. ASSUME NEW in \in Inputs, Dwell(in) PROVE DwellInv'
    BY <2>4 DEF Dwell
  <2>5. ASSUME NEW in \in Inputs, DoorClosing(in) PROVE DwellInv'
    BY <2>5 DEF DoorClosing, DoorClosed, Depart
  <2>6. ASSUME NEW in \in Inputs, MovingUp(in) PROVE DwellInv'
    BY <2>6 DEF MovingUp, Travel
  <2>7. ASSUME NEW in \in Inputs, MovingDown(in) PROVE DwellInv'
    BY <2>7 DEF MovingDown, Travel
  <2>8. ASSUME NEW in \in Inputs, EmgReleased(in) PROVE DwellInv'
    BY <2>8 DEF EmgReleased
  <2>9. ASSUME NEW in \in Inputs, Emergency(in) PROVE DwellInv'
    BY <2>9 DEF Emergency, Remember
  <2>10. QED
    BY <2>1, <2>2, <2>3, <2>4, <2>5, <2>6, <2>7, <2>8, <2>9
    DEF Next, Cycle
<1>3. QED
  BY <1>1, <1>2, TypeCorrect, RecoveryIsOfAnInterruptedPhase, PTL DEF Spec

\* An edge that clears nothing but the calls of the floors in U and D takes
\* no other floor out of the requests.
LEMMA OnlyClearedCallsVanish ==
  ASSUME NEW in, NEW U, NEW D, RegisterCall(in, U, D),
         NEW f \in all_requests, f \notin all_requests'
  PROVE  f \in U \cup D
  BY DEF RegisterCall, all_requests

\* A call vanishes only at its own floor and with the door open: no stop,
\* recovery or full turn of a counter drops one elsewhere.
THEOREM AnsweredAtTheDoor == Spec => CallsEndAtTheOpenDoor
<1>1. DwellInv /\ [Next]_vars
        => [\A f \in Floors :
              f \in all_requests /\ f \notin all_requests'
                => f = CURRENT_FLOOR /\ door = "open"]_vars
  <2> SUFFICES ASSUME DwellInv, NEW in \in Inputs, Cycle(in),
                      NEW f \in Floors,
                      f \in all_requests, f \notin all_requests'
               PROVE  f = CURRENT_FLOOR /\ door = "open"
    BY DEF Next
  <2>1. CASE Dwell(in)
    <3>1. f \in Here(dwell_clears_up) \cup Here(dwell_clears_down)
      BY <2>1, OnlyClearedCallsVanish DEF Dwell
    <3>2. QED
      BY <2>1, <3>1 DEF Here, Dwell, DwellInv
  <2>2. CASE RegisterCall(in, {}, {})
    <3>1. f \in {} \cup {}
      BY <2>2, OnlyClearedCallsVanish
    <3>2. QED
      BY <3>1
  <2>3. QED
    BY <2>1, <2>2 DEF Cycle, Idle, DoorOpening, DoorClosing, MovingUp,
                      MovingDown, Travel, EmgReleased, Emergency
<1>2. QED
  BY <1>1, DwellHasTheDoorOpen, PTL DEF Spec, CallsEndAtTheOpenDoor

(***************************************************************************)
(* The service.                                                            *)
(***************************************************************************)

\* A door about to open for the first time at a floor has somebody waiting
\* there, also while a stop interrupts it; a closing door is still open; and
\* nobody waits for a call that cannot be made.
OpeningInv ==
  /\ state = "DOOR_OPENING" /\ door = "shut" => req_at_floor
  /\ recovering /\ recover_state = "DOOR_OPENING" /\ door = "shut"
       => req_at_floor
  /\ state = "DOOR_CLOSING" => door = "open"
  /\ recovering /\ recover_state = "DOOR_CLOSING" => door = "open"
  /\ Waiting \subseteq Calls

\* An edge lets in only calls that can be made, and out only those at the
\* floors it clears.
LEMMA CallsComeAndGo ==
  ASSUME NEW in \in Inputs, NEW U, NEW D, RegisterCall(in, U, D),
         Waiting \subseteq Calls
  PROVE  /\ Waiting' \subseteq Calls
         /\ \A c \in Waiting \ Waiting' : c[1] \in U \cup D
<1>1. in.call \subseteq Calls
  BY DEF Inputs
<1>2. ASSUME NEW f \in hall_up' PROVE <<f, "UP">> \in Calls
  <2>1. f \in hall_up \/ <<f, "UP">> \in in.call
    BY DEF RegisterCall
  <2>2. QED
    BY <1>1, <2>1 DEF Waiting
<1>3. ASSUME NEW f \in hall_down' PROVE <<f, "DOWN">> \in Calls
  <2>1. f \in hall_down \/ <<f, "DOWN">> \in in.call
    BY DEF RegisterCall
  <2>2. QED
    BY <1>1, <2>1 DEF Waiting
<1>4. ASSUME NEW c \in Waiting \ Waiting' PROVE c[1] \in U \cup D
  <2>1. PICK f : \/ f \in hall_up /\ c = <<f, "UP">>
                 \/ f \in hall_down /\ c = <<f, "DOWN">>
    BY <1>4 DEF Waiting
  <2>2. CASE f \in hall_up /\ c = <<f, "UP">>
    BY <1>4, <2>2 DEF RegisterCall, Waiting
  <2>3. CASE f \in hall_down /\ c = <<f, "DOWN">>
    BY <1>4, <2>3 DEF RegisterCall, Waiting
  <2>4. QED
    BY <2>1, <2>2, <2>3
<1>5. QED
  BY <1>2, <1>3, <1>4 DEF Waiting

\* Outside DWELL calls only come.
LEMMA CallsOnlyCome ==
  ASSUME NEW in \in Inputs, RegisterCall(in, {}, {}), Waiting \subseteq Calls
  PROVE  /\ Waiting \subseteq Waiting' /\ Waiting' \subseteq Calls
         /\ \A f : f \in all_requests => f \in all_requests'
<1>1. /\ Waiting' \subseteq Calls
      /\ \A c \in Waiting \ Waiting' : c[1] \in {} \cup {}
  BY CallsComeAndGo
<1>2. \A f : f \in all_requests => f \in all_requests'
  BY DEF RegisterCall, all_requests
<1>3. QED
  BY <1>1, <1>2

\* The requests are the floors of those who wait.
LEMMA WaitingAtFloors ==
  /\ \A f : f \in all_requests <=> \E c \in Waiting : c[1] = f
  /\ has_req_above => Service!Above
  /\ has_req_below => Service!Below
<1>1. ASSUME NEW f PROVE f \in all_requests <=> \E c \in Waiting : c[1] = f
  <2>1. CASE f \in hall_up
    <3>1. <<f, "UP">> \in Waiting /\ <<f, "UP">>[1] = f
      BY <2>1 DEF Waiting
    <3>2. QED
      BY <2>1, <3>1 DEF all_requests
  <2>2. CASE f \in hall_down
    <3>1. <<f, "DOWN">> \in Waiting /\ <<f, "DOWN">>[1] = f
      BY <2>2 DEF Waiting
    <3>2. QED
      BY <2>2, <3>1 DEF all_requests
  <2>3. ASSUME NEW c \in Waiting, c[1] = f PROVE f \in all_requests
    <3>1. PICK g : \/ g \in hall_up /\ c = <<g, "UP">>
                   \/ g \in hall_down /\ c = <<g, "DOWN">>
      BY <2>3 DEF Waiting
    <3>2. g = f
      BY <2>3, <3>1
    <3>3. QED
      BY <3>1, <3>2 DEF all_requests
  <2>4. QED
    BY <2>1, <2>2, <2>3 DEF all_requests
<1>2. has_req_above => Service!Above
  BY <1>1 DEF has_req_above, has_above, Service!Above
<1>3. has_req_below => Service!Below
  BY <1>1 DEF has_req_below, has_below, Service!Below
<1>4. QED
  BY <1>1, <1>2, <1>3

\* Stops, recoveries and turned buttons keep the door's promise.
LEMMA OpeningInvariance == Spec => []OpeningInv
<1>1. Init => OpeningInv
  BY DEF Init, OpeningInv, Waiting
<1>2. TypeOK /\ RecoveryInv /\ DwellInv /\ MovesTowardsACall /\ OpeningInv
        /\ [Next]_vars => OpeningInv'
  <2> SUFFICES ASSUME TypeOK, RecoveryInv, DwellInv, MovesTowardsACall,
                      OpeningInv, [Next]_vars
               PROVE  OpeningInv'
    OBVIOUS
  <2>1. CASE UNCHANGED vars
    <3>1. Waiting' = Waiting /\ (req_at_floor' <=> req_at_floor)
      BY <2>1 DEF vars, req_at_floor, all_requests, Waiting
    <3>2. /\ state' = state /\ door' = door
          /\ recovering' = recovering /\ recover_state' = recover_state
      BY <2>1, Zenon DEF vars, recovery
    <3>3. QED
      BY <3>1, <3>2, Zenon DEF OpeningInv
  <2>2. ASSUME NEW in \in Inputs, Cycle(in) PROVE OpeningInv'
    <3> USE DEF RecoveryInv, DwellInv, Moving, DoorWork, recovery, Goto, Stay,
                req_at_floor
    <3>0. Waiting \subseteq Calls
      BY DEF OpeningInv
    <3>1. CASE Idle(in)
      <4>1. RegisterCall(in, {}, {}) /\ UNCHANGED <<CURRENT_FLOOR, door>>
        BY <3>1 DEF Idle
      <4>2. ~recovering'
        BY <3>1, Zenon DEF Idle, Recover
      <4>3. \/ recovering /\ state' = recover_state
            \/ req_at_floor /\ state' = "DOOR_OPENING"
            \/ state' \in {"IDLE_STOP", "MOVING_UP", "MOVING_DOWN"}
        BY <3>1 DEF Idle, Recover, Depart
      <4>4. QED
        BY <3>0, <4>1, <4>2, <4>3, CallsOnlyCome DEF OpeningInv
    <3>2. CASE DoorOpening(in)
      <4>1. RegisterCall(in, {}, {}) /\ door' = "open" /\ ~recovering'
            /\ state' \in {"DOOR_OPENING", "DWELL"}
        BY <3>2 DEF DoorOpening
      <4>2. QED
        BY <3>0, <4>1, CallsOnlyCome DEF OpeningInv
    <3>3. CASE Dwell(in)
      <4>1. RegisterCall(in, Here(dwell_clears_up), Here(dwell_clears_down))
            /\ door' = "open" /\ ~recovering' /\ state' \in {"DWELL", "DOOR_CLOSING"}
        BY <3>3 DEF Dwell
      <4>2. Waiting' \subseteq Calls
        BY <3>0, <4>1, CallsComeAndGo
      <4>3. QED
        BY <4>1, <4>2 DEF OpeningInv
    <3>4. CASE DoorClosing(in)
      <4>1. RegisterCall(in, {}, {}) /\ door = "open" /\ ~recovering'
        BY <3>4 DEF DoorClosing, OpeningInv
      <4>2. \/ state' \in {"DOOR_OPENING", "DOOR_CLOSING"} /\ door' = "open"
            \/ state' \in {"IDLE_STOP", "MOVING_UP", "MOVING_DOWN"}
        BY <3>4, <4>1 DEF DoorClosing, DoorClosed, Depart
      <4>3. QED
        BY <3>0, <4>1, <4>2, CallsOnlyCome DEF OpeningInv
    <3>5. CASE MovingUp(in)
      <4>1. RegisterCall(in, {}, {}) /\ has_req_above /\ ~recovering'
        BY <3>5 DEF MovingUp, Travel, MovesTowardsACall
      <4>2. \/ state' = "MOVING_UP"
            \/ /\ state' = "DOOR_OPENING" /\ stop_at_next_up
               /\ CURRENT_FLOOR' = next_up
        BY <3>5 DEF MovingUp, Travel
      <4>3. state' = "DOOR_OPENING" => CURRENT_FLOOR' \in all_requests'
        BY <3>0, <4>1, <4>2, PassingUp, CallsOnlyCome
      <4>4. QED
        BY <3>0, <4>1, <4>2, <4>3, CallsOnlyCome DEF OpeningInv
    <3>6. CASE MovingDown(in)
      <4>1. RegisterCall(in, {}, {}) /\ has_req_below /\ ~recovering'
        BY <3>6 DEF MovingDown, Travel, MovesTowardsACall
      <4>2. \/ state' = "MOVING_DOWN"
            \/ /\ state' = "DOOR_OPENING" /\ stop_at_next_down
               /\ CURRENT_FLOOR' = next_down
        BY <3>6 DEF MovingDown, Travel
      <4>3. state' = "DOOR_OPENING" => CURRENT_FLOOR' \in all_requests'
        BY <3>0, <4>1, <4>2, PassingDown, CallsOnlyCome
      <4>4. QED
        BY <3>0, <4>1, <4>2, <4>3, CallsOnlyCome DEF OpeningInv
    <3>7. CASE EmgReleased(in)
      <4>1. RegisterCall(in, {}, {}) /\ state' = "IDLE_STOP"
            /\ UNCHANGED <<CURRENT_FLOOR, recovery, door>>
        BY <3>7 DEF EmgReleased
      <4>2. QED
        BY <3>0, <4>1, CallsOnlyCome DEF OpeningInv
    <3>8. CASE Emergency(in)
      <4>1. RegisterCall(in, {}, {}) /\ state' = "EMG_STOP"
            /\ UNCHANGED <<CURRENT_FLOOR, door>>
        BY <3>8 DEF Emergency
      <4>2. \/ UNCHANGED recovery
            \/ recover_state' = state
        BY <3>8 DEF Emergency, Remember
      <4>3. QED
        BY <3>0, <4>1, <4>2, CallsOnlyCome DEF OpeningInv
    <3>9. QED
      BY <2>2, <3>1, <3>2, <3>3, <3>4, <3>5, <3>6, <3>7, <3>8 DEF Cycle
  <2>3. QED
    BY <2>1, <2>2 DEF Next
<1>3. QED
  BY <1>1, <1>2, TypeCorrect, RecoveryIsOfAnInterruptedPhase,
     DwellHasTheDoorOpen, HeadingSafety, PTL DEF Spec

\* An edge at which no motor is driven and calls only come is a Halt, Open or
\* Close of the service, as the door has it.
LEMMA Standing ==
  ASSUME NEW in \in Inputs, NEW which, which \notin {"up", "down"}, Drive(which),
         RegisterCall(in, {}, {}), Waiting \subseteq Calls,
         UNCHANGED CURRENT_FLOOR
  PROVE  /\ Motor' = "off" /\ Service!Press
         /\ /\ door' = door
            /\ forgotten' \in BOOLEAN /\ (forgotten' => door = "open")
            => Service!Halt
<1>1. Motor' = "off"
  BY DEF Drive, Motor
<1>2. Service!Press
  BY CallsOnlyCome DEF Service!Press
<1>3. QED
  BY <1>1, <1>2 DEF Service!Halt

LEMMA EveryCycleServes ==
  ASSUME TypeOK, DoorInv, DwellInv, MovesTowardsACall, OpeningInv,
         NEW in \in Inputs, Cycle(in)
  PROVE  Service!Next
<1> USE DEF recovery, Moving
<1>0. Waiting \subseteq Calls
  BY DEF OpeningInv
<1>a. forgotten \in BOOLEAN /\ (forgotten => door = "open")
  BY DEF TypeOK, DoorInv
<1>1. CASE Idle(in)
  <2>1. Drive("none") /\ RegisterCall(in, {}, {})
        /\ UNCHANGED <<CURRENT_FLOOR, door, forgotten>>
    BY <1>1 DEF Idle
  <2>2. QED
    BY <1>0, <1>a, <2>1, Standing DEF Service!Next
<1>2. CASE DoorOpening(in)
  <2>1. Drive("open") /\ RegisterCall(in, {}, {}) /\ UNCHANGED CURRENT_FLOOR
        /\ door' = "open" /\ state = "DOOR_OPENING" /\ forgotten' = FALSE
    BY <1>2 DEF DoorOpening
  <2>2. Motor' = "off" /\ Service!Press /\ (door' = door => Service!Halt)
    BY <1>0, <2>1, Standing
  <2>3. CASE door = "shut"
    <3>1. Service!Somebody
      BY <2>1, <2>3, WaitingAtFloors
      DEF OpeningInv, req_at_floor, Service!Somebody
    <3>2. QED
      BY <2>1, <2>2, <2>3, <3>1 DEF Service!Open, Service!Next
  <2>4. CASE door = "open"
    BY <2>1, <2>2, <2>4 DEF Service!Next
  <2>5. QED
    BY <2>3, <2>4 DEF TypeOK
<1>3. CASE Dwell(in)
  <2>1. /\ Drive("none") /\ UNCHANGED <<CURRENT_FLOOR, door, forgotten>>
        /\ door = "open" /\ ~forgotten
        /\ RegisterCall(in, Here(dwell_clears_up), Here(dwell_clears_down))
    BY <1>3 DEF Dwell, DwellInv, DoorInv
  <2>2. Motor' = "off"
    BY <2>1 DEF Drive, Motor
  <2>3. /\ Waiting' \subseteq Calls
        /\ \A c \in Waiting \ Waiting' :
             c[1] \in Here(dwell_clears_up) \cup Here(dwell_clears_down)
    BY <1>0, <2>1, CallsComeAndGo
  <2>4. \A c \in Waiting \ Waiting' : c[1] = CURRENT_FLOOR
    BY <2>3 DEF Here
  <2>5. QED
    BY <2>1, <2>2, <2>3, <2>4 DEF Service!Answer, Service!Next
<1>4. CASE DoorClosing(in)
  <2>1. /\ Drive("close") /\ RegisterCall(in, {}, {})
        /\ UNCHANGED <<CURRENT_FLOOR, forgotten>>
        /\ door = "open" /\ door' \in {door, "shut"} /\ ~forgotten
    BY <1>4 DEF DoorClosing, OpeningInv, DoorInv
  <2>2. Motor' = "off" /\ Service!Press /\ (door' = door => Service!Halt)
    BY <1>0, <1>a, <2>1, Standing
  <2>3. QED
    BY <2>1, <2>2 DEF Service!Close, Service!Next
<1>5. CASE MovingUp(in)
  <2>1. /\ Drive("up") /\ RegisterCall(in, {}, {}) /\ state = "MOVING_UP"
        /\ UNCHANGED <<door, forgotten>>
        /\ CURRENT_FLOOR' \in {CURRENT_FLOOR, next_up}
    BY <1>5 DEF MovingUp, Travel
  <2>2. Motor' = "up"
    BY <2>1 DEF Drive, Motor
  <2>3. Service!Press
    BY <1>0, <2>1, CallsOnlyCome DEF Service!Press
  <2>4. (door = "shut" \/ forgotten) /\ Service!Above
    BY <2>1, WaitingAtFloors
    DEF DoorInv, DoorShutWhileMoving, MovesTowardsACall
  <2>5. CURRENT_FLOOR' \in {CURRENT_FLOOR, CURRENT_FLOOR + 1}
    BY <2>1, PassingUp DEF MovesTowardsACall
  <2>6. QED
    BY <2>1, <2>2, <2>3, <2>4, <2>5 DEF Service!Up, Service!Next
<1>6. CASE MovingDown(in)
  <2>1. /\ Drive("down") /\ RegisterCall(in, {}, {}) /\ state = "MOVING_DOWN"
        /\ UNCHANGED <<door, forgotten>>
        /\ CURRENT_FLOOR' \in {CURRENT_FLOOR, next_down}
    BY <1>6 DEF MovingDown, Travel
  <2>2. Motor' = "down"
    BY <2>1 DEF Drive, Motor
  <2>3. Service!Press
    BY <1>0, <2>1, CallsOnlyCome DEF Service!Press
  <2>4. (door = "shut" \/ forgotten) /\ Service!Below
    BY <2>1, WaitingAtFloors
    DEF DoorInv, DoorShutWhileMoving, MovesTowardsACall
  <2>5. CURRENT_FLOOR' \in {CURRENT_FLOOR, CURRENT_FLOOR - 1}
    BY <2>1, PassingDown DEF MovesTowardsACall
  <2>6. QED
    BY <2>1, <2>2, <2>3, <2>4, <2>5 DEF Service!Down, Service!Next
<1>7. CASE EmgReleased(in)
  <2>1. Drive("none") /\ RegisterCall(in, {}, {})
        /\ UNCHANGED <<CURRENT_FLOOR, door, forgotten>>
    BY <1>7 DEF EmgReleased
  <2>2. QED
    BY <1>0, <1>a, <2>1, Standing DEF Service!Next
<1>8. CASE Emergency(in)
  <2>1. Drive("none") /\ RegisterCall(in, {}, {})
        /\ UNCHANGED <<CURRENT_FLOOR, door>>
    BY <1>8 DEF Emergency
  <2>2. forgotten' \in BOOLEAN /\ (forgotten' => door = "open")
    BY <1>8, <1>a, Zenon DEF Emergency
  <2>3. QED
    BY <1>0, <2>1, <2>2, Standing DEF Service!Next
<1>9. QED
  BY <1>1, <1>2, <1>3, <1>4, <1>5, <1>6, <1>7, <1>8 DEF Cycle

\* The controller implements the service for every shaft, every duration and
\* whatever is pressed and stopped at any edge.
THEOREM ServiceIsImplemented == Spec => ImplementsTheService
<1>1. Init => Service!Init
  BY DEF Init, Service!Init, Motor, Waiting
<1>2. TypeOK /\ DoorInv /\ DwellInv /\ MovesTowardsACall /\ OpeningInv
        /\ [Next]_vars => [Service!Next]_Service!vars
  <2> SUFFICES ASSUME TypeOK, DoorInv, DwellInv, MovesTowardsACall,
                      OpeningInv, [Next]_vars
               PROVE  [Service!Next]_Service!vars
    OBVIOUS
  <2>1. CASE UNCHANGED vars
    BY <2>1 DEF vars, outputs, Service!vars, Motor, Waiting
  <2>2. ASSUME NEW in \in Inputs, Cycle(in) PROVE Service!Next
    BY <2>2, EveryCycleServes
  <2>3. QED
    BY <2>1, <2>2 DEF Next
<1>3. QED
  BY <1>1, <1>2, TypeCorrect, DoorInvariance, DwellHasTheDoorOpen, HeadingSafety,
     OpeningInvariance, PTL
  DEF Spec, ImplementsTheService, Service!Spec

(***************************************************************************)
(* The direction of a trip.                                                *)
(***************************************************************************)

\* Until the first emergency stop the direction register is the direction of
\* the trip under way, and there is nothing to recover from.
TripInv ==
  hands = "no stop" =>
    /\ ~recovering
    /\ state # "EMG_STOP"
    /\ CURRENT_DIR = trip

\* Without an emergency stop a car that shuts its door turns round only when
\* nobody ahead is left waiting, whatever calls and buttons came meanwhile.
THEOREM DirectionIsKept == WatchedSpec => KeepsDirection
<1> DEFINE Turns ==
      hands = "no stop" /\ state = "DOOR_CLOSING" =>
        /\ trip = "UP" /\ state' = "MOVING_DOWN" => ~has_req_above
        /\ trip = "DOWN" /\ state' = "MOVING_UP" => ~has_req_below
<1>1. WatchedInit => TripInv
  BY DEF WatchedInit, Init, TripInv
<1>2. TripInv /\ [WatchedNext]_<<vars, hands>> => TripInv'
  <2> SUFFICES ASSUME TripInv, [WatchedNext]_<<vars, hands>>,
                      hands' = "no stop"
               PROVE  ~recovering' /\ state' # "EMG_STOP" /\ CURRENT_DIR' = trip'
    BY DEF TripInv
  <2> USE DEF TripInv, recovery, Goto, Stay, Depart
  <2>1. CASE UNCHANGED <<vars, hands>>
    BY <2>1 DEF vars
  <2>2. ASSUME NEW in \in Inputs, Watch(in), Cycle(in)
        PROVE  ~recovering' /\ state' # "EMG_STOP" /\ CURRENT_DIR' = trip'
    <3>1. hands = "no stop" /\ ~in.emg
      BY <2>2 DEF Watch
    <3>2. ~recovering /\ state # "EMG_STOP" /\ CURRENT_DIR = trip
      BY <3>1
    <3>3. CASE Idle(in)
      <4>1. ~recovering'
        BY <3>2, <3>3, Zenon DEF Idle, Recover
      <4>2. state' # "EMG_STOP" /\ CURRENT_DIR' = trip'
        BY <3>2, <3>3 DEF Idle, Recover
      <4>3. QED
        BY <4>1, <4>2
    <3>4. CASE DoorOpening(in)
      BY <3>2, <3>4 DEF DoorOpening
    <3>5. CASE Dwell(in)
      BY <3>2, <3>5 DEF Dwell
    <3>6. CASE DoorClosing(in)
      BY <3>2, <3>6 DEF DoorClosing, DoorClosed
    <3>7. CASE MovingUp(in)
      BY <3>2, <3>7 DEF MovingUp, Travel
    <3>8. CASE MovingDown(in)
      BY <3>2, <3>8 DEF MovingDown, Travel
    <3>9. QED
      BY <2>2, <3>1, <3>2, <3>3, <3>4, <3>5, <3>6, <3>7, <3>8
      DEF Cycle, EmgReleased, Emergency
  <2>3. QED
    BY <2>1, <2>2 DEF WatchedNext
<1>3. TripInv /\ [WatchedNext]_<<vars, hands>> => [Turns]_vars
  <2> SUFFICES ASSUME TripInv, hands = "no stop", state = "DOOR_CLOSING",
                      NEW in \in Inputs, Cycle(in)
               PROVE  Turns
    BY DEF WatchedNext, vars
  <2>1. CASE DoorClosing(in) /\ DoorClosed
    BY <2>1 DEF DoorClosed, Goto, Depart, TripInv
  <2>2. CASE state' \in {"DOOR_OPENING", "DOOR_CLOSING", "EMG_STOP"}
    BY <2>2
  <2>3. QED
    BY <2>1, <2>2 DEF Cycle, Idle, DoorOpening, Dwell, DoorClosing, MovingUp,
                      MovingDown, EmgReleased, Emergency, Goto, Stay
<1>4. QED
  BY <1>1, <1>2, <1>3, PTL DEF WatchedSpec, KeepsDirection

=============================================================================
