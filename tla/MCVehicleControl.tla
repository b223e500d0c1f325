-------------------------- MODULE MCVehicleControl --------------------------
(***************************************************************************)
(* Message sets for the runs of VehicleControl.  Distances are chosen on   *)
(* both sides of every threshold of the code, in mm.                       *)
(***************************************************************************)
EXTENDS VehicleControl

CONSTANTS p1, p2

Car(from, event, brake, ahead, laneDiff, speed) ==
  [from |-> from, event |-> event, brake |-> brake, ahead |-> ahead,
   laneDiff |-> laneDiff, speed |-> speed]

\* What a car without touched buttons sends.
Brake(from, ahead, brake) ==
  Car(from, "LANE_LEFT_OFF", brake, ahead, 0, INIT_SPEED)

\* An untouched car ahead: 20 m (the near threshold) and 60 m away.
BrakeMessages(from) == {Brake(from, d, b) : d \in {20000, 60000}, b \in {0, 1}}

\* Cars whose brake messages do not concern us.
OtherLane == Car(p1, "LANE_RIGHT_OFF", 1, 9000, 1, 6000)
FollowingCar == Brake(p1, -8000, 1)
FarCar == Brake(p1, 100001, 1)

Condition(w, c) == [from |-> MOLIT, brake |-> w, lane |-> c]

\* Cars that brake and release, and the ministry's board.
BrakesOnly ==
  BrakeMessages(p1)
    \cup {Brake(p2, 7000, 1), Brake(p2, 7000, 0),
          OtherLane, FollowingCar, FarCar, Condition(2, 0), Condition(0, 0)}

\* The same with the emergency and lane change buttons of the other car.
Sos(from, on) == Car(from, IF on THEN "SOS_ON" ELSE "SOS_OFF", 0, 60000, 0, 4000)
LaneChange(brake) == Car(p1, "LANE_LEFT_ON", brake, -9000, 1, 6100)

Everything ==
  {Brake(p1, 20000, 1), Brake(p1, 60000, 0), Sos(p1, TRUE), Sos(p1, FALSE),
   LaneChange(0)}

SosMessages == {Sos(p1, TRUE), Sos(p1, FALSE), Brake(p1, 20000, 1),
                Car(p1, "SOS_ON", 1, 20000, 0, 4000)}
FarBrakes == {Brake(p1, 60000, 1)}

=============================================================================
