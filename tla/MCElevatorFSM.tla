--------------------------- MODULE MCElevatorFSM ---------------------------
(***************************************************************************)
(* The elevator controller and what the people around it have done so far: *)
(* nobody has pressed the emergency stop, somebody has, or everybody has   *)
(* taken the hands off the emergency stop and the door buttons for good.   *)
(* The last may begin at any moment and is what the liveness property      *)
(* needs; calls keep arriving all the time.                                *)
(***************************************************************************)
EXTENDS ElevatorFSM

VARIABLE hands      \* read by no action of the controller

Watch(in) ==
  \/ hands = "no stop" /\ ~in.emg /\ hands' = "no stop"
  \/ hands # "off" /\ (in.emg \/ hands = "stop") /\ hands' = "stop"
  \/ ~in.emg /\ ~in.open /\ ~in.close /\ hands' = "off"

WatchedInit == Init /\ hands = "no stop"
WatchedNext == \E in \in Inputs : Watch(in) /\ Cycle(in)

\* T_TICK pulses once a second for ever, and an operator who pressed the
\* emergency stop releases it some time (the input is not held for ever).
WatchedTick ==
  \E in \in Inputs : in.tick /\ ~in.emg /\ Watch(in) /\ Cycle(in)

WatchedSpec ==
  /\ WatchedInit /\ [][WatchedNext]_<<vars, hands>>
  /\ WF_<<vars, hands>>(WatchedTick)

-----------------------------------------------------------------------------
(* Properties.                                                             *)

\* README 4.1: calls ahead come before calls behind. Where no emergency stop
\* has wiped the direction, a car that shuts its door in the middle of a trip
\* turns round only when nothing is left ahead.
KeepsDirection ==
  [][hands = "no stop" /\ state = "DOOR_CLOSING" =>
       /\ trip = "UP" /\ state' = "MOVING_DOWN" => ~has_req_above
       /\ trip = "DOWN" /\ state' = "MOVING_UP" => ~has_req_below]_vars

\* Whatever stops, recoveries and held doors there were: from the moment the
\* hands are off the buttons every hall call is answered, however many further
\* calls keep arriving.
EveryCallIsServed ==
  \A c \in Calls : hands = "off" /\ c \in Waiting ~> c \notin Waiting

=============================================================================
