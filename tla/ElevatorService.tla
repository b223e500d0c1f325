-------------------------- MODULE ElevatorService --------------------------
(***************************************************************************)
(* What the elevator promises the people who use it, without its phases,   *)
(* counters, buttons and emergency stops: the car moves only towards a     *)
(* call, the door opens only where somebody waits, and a call is answered  *)
(* only at its floor while the door is open.  The car moves with its door  *)
(* shut, unless the door was given up during a halt: then it may leave     *)
(* with the door open, and sees to the door when it next stops for a call. *)
(***************************************************************************)
EXTENDS Integers

CONSTANTS
  START_FLOOR,
  Calls                 \* <<floor, direction>> of the calls that can be made

VARIABLES
  floor, door, motor, calls,
  forgotten             \* an open door nobody sees to

vars == <<floor, door, motor, calls, forgotten>>

Init ==
  /\ floor = START_FLOOR /\ motor = "off" /\ calls = {}
  /\ door = "shut" /\ forgotten = FALSE

\* People call at any moment; nobody's call is lost.
Press == calls \subseteq calls' /\ calls' \subseteq Calls

Somebody == \E c \in calls : c[1] = floor
Above == \E c \in calls : c[1] > floor
Below == \E c \in calls : c[1] < floor

\* The motor runs, and the next floor may be reached.
Up ==
  /\ door = "shut" \/ forgotten
  /\ Above
  /\ motor' = "up" /\ floor' \in {floor, floor + 1}
  /\ Press /\ UNCHANGED <<door, forgotten>>

Down ==
  /\ door = "shut" \/ forgotten
  /\ Below
  /\ motor' = "down" /\ floor' \in {floor, floor - 1}
  /\ Press /\ UNCHANGED <<door, forgotten>>

\* The car stands; an open door may be given up, or seen to again.
Halt ==
  /\ motor' = "off"
  /\ forgotten' \in BOOLEAN /\ (forgotten' => door = "open")
  /\ Press /\ UNCHANGED <<floor, door>>

Open ==
  /\ door = "shut" /\ Somebody
  /\ door' = "open" /\ motor' = "off" /\ forgotten' = FALSE
  /\ Press /\ UNCHANGED floor

Close ==
  /\ door = "open" /\ ~forgotten
  /\ door' = "shut" /\ motor' = "off"
  /\ Press /\ UNCHANGED <<floor, forgotten>>

\* Those who wait at the floor get in, some of them or all.
Answer ==
  /\ door = "open" /\ ~forgotten
  /\ \A c \in calls \ calls' : c[1] = floor
  /\ calls' \subseteq Calls /\ motor' = "off"
  /\ UNCHANGED <<floor, door, forgotten>>

Next == Up \/ Down \/ Halt \/ Open \/ Close \/ Answer

Spec == Init /\ [][Next]_vars

=============================================================================
