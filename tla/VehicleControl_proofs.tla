----------------------- MODULE VehicleControl_proofs -----------------------
(***************************************************************************)
(* Theorems about VehicleControl for any speeds, distances, times, peers,  *)
(* and messages that satisfy the module's assumptions.                     *)
(***************************************************************************)
EXTENDS VehicleControl, TLAPS

(***************************************************************************)
(* Numbers and messages.                                                   *)
(***************************************************************************)

LEMMA FrameCounts ==
  /\ HoldFrames \in Nat \ {0}
  /\ CycleFrames \in Nat \ {0}
  BY TimeAssumption DEF HoldFrames, CycleFrames

\* The weather and congestion limit never exceeds the car's own speed.
LEMMA LimitRange == v2v_max_speed_by_condition \in 0..INIT_SPEED
<1> DEFINE F == {3, 6, 9, 10}
<1>1. \A code : FactorOf(code) \in F
  BY DEF FactorOf, Factor
<1>2. \A a, b \in F : (INIT_SPEED * a * b) \div 100 \in 0..INIT_SPEED
  <2> SUFFICES ASSUME NEW a \in F, NEW b \in F
               PROVE  (INIT_SPEED * a * b) \div 100 \in 0..INIT_SPEED
    OBVIOUS
  <2>1. INIT_SPEED \in Nat
    BY SpeedAssumption
  <2>2. CASE a = 3
    BY <2>1, <2>2
  <2>3. CASE a = 6
    BY <2>1, <2>3
  <2>4. CASE a = 9
    BY <2>1, <2>4
  <2>5. CASE a = 10
    BY <2>1, <2>5
  <2>6. QED
    BY <2>2, <2>3, <2>4, <2>5
<1>3. QED
  BY <1>1, <1>2 DEF v2v_max_speed_by_condition

\* What the fields of a message can be.
LEMMA MessageFields ==
  ASSUME NEW m \in Messages
  PROVE  /\ m.from = MOLIT => m.brake \in Int /\ m.lane \in Int
         /\ m.from # MOLIT => m.from \in Peers /\ m.ahead \in Int
  BY InputAssumption DEF CarMessage, ConditionMessage

(***************************************************************************)
(* Type correctness.                                                       *)
(***************************************************************************)

LEMMA StopSecondType ==
  ASSUME TypeOK, StopSecond(g_my_speed, g_v2v_action)
  PROVE  /\ g_my_speed' \in 0..INIT_SPEED /\ g_my_speed_final' \in 0..INIT_SPEED
         /\ room' \in Int /\ g_stop_active' \in BOOLEAN
         /\ UNCHANGED slowing
<1> DEFINE decel == IF g_v2v_action = "STOP" THEN DECEL_STOP_PER_S
                                             ELSE DECEL_SLOW_PER_S
           slower == GreaterOf(g_my_speed - decel, 0)
<1>1. decel \in Nat /\ INIT_SPEED \in Nat
  BY SpeedAssumption
<1>2. slower \in 0..INIT_SPEED
  BY <1>1 DEF GreaterOf, TypeOK
<1>3. LesserOf(slower, v2v_max_speed_by_condition) \in 0..INIT_SPEED
  BY <1>2, LimitRange DEF LesserOf
<1>4. QED
  BY <1>1, <1>2, <1>3 DEF StopSecond, GreaterOf, TypeOK

LEMMA DriveSecondType ==
  ASSUME TypeOK, NEW s \in 0..INIT_SPEED, DriveSecond(s)
  PROVE  /\ g_my_speed' \in 0..INIT_SPEED /\ g_my_speed_final' \in 0..INIT_SPEED
         /\ g_slow_pending' \in BOOLEAN /\ cuts' \in 0..2
         /\ UNCHANGED g_slow_active
<1> DEFINE cut == GreaterOf(s - SPEED_SLOW_DELTA, SPEED_SLOW_MIN)
           now == IF g_slow_pending THEN cut ELSE s
<1>1. now \in 0..INIT_SPEED
  BY SpeedAssumption DEF GreaterOf
<1>2. LesserOf(now, v2v_max_speed_by_condition) \in 0..INIT_SPEED
  BY <1>1, LimitRange DEF LesserOf
<1>3. /\ g_my_speed' = now
      /\ g_my_speed_final' = LesserOf(now, v2v_max_speed_by_condition)
      /\ g_slow_pending' = FALSE
      /\ cuts' = IF g_slow_pending THEN LesserOf(cuts + 1, 2) ELSE cuts
      /\ UNCHANGED g_slow_active
  BY Zenon DEF DriveSecond
<1>4. cuts' \in 0..2
  BY <1>3 DEF LesserOf, TypeOK
<1>5. QED
  BY <1>1, <1>2, <1>3, <1>4

\* Every variable of the render loop keeps its range: the speed is never
\* negative, the frame counters never pass the limits the code tests.
THEOREM TypeCorrect == Spec => []TypeOK
<1>1. Init => TypeOK
  <2> SUFFICES ASSUME Init PROVE TypeOK
    OBVIOUS
  <2>1. /\ framecnt \in 0..CycleFrames /\ actionAge \in 0..(HoldFrames + 1)
        /\ g_brake_clear_cnt \in 0..(VIDEO_BRAKE_CLEAR_FRAMES - 1)
        /\ calm \in 0..VIDEO_BRAKE_CLEAR_FRAMES
        /\ g_my_speed \in 0..INIT_SPEED /\ g_my_speed_final \in 0..INIT_SPEED
    BY FrameCounts, TimeAssumption, SpeedAssumption DEF Init
  <2>2. room \in Int /\ cuts \in 0..2 /\ weather \in Int /\ congestion \in Int
    BY DEF Init
  <2>3. QED
    BY <2>1, <2>2, Zenon DEF Init, TypeOK, Events, Actions
<1>2. TypeOK /\ [Next]_vars => TypeOK'
  <2> SUFFICES ASSUME TypeOK, [Next]_vars PROVE TypeOK'
    OBVIOUS
  <2> USE DEF TypeOK, sensing, driver, slowing, stopping, doing, limits
  <2>1. CASE UNCHANGED vars
    BY <2>1 DEF vars
  <2>2. ASSUME NEW sight \in Sights, Analyze(sight) PROVE TypeOK'
    <3>1. Latched(sight) \in BOOLEAN
      BY DEF Latched
    <3>2. calm' \in 0..VIDEO_BRAKE_CLEAR_FRAMES
      BY <2>2, TimeAssumption DEF Analyze, LesserOf
    <3>3. /\ g_warn_latched' \in BOOLEAN
          /\ g_video_brake_active' \in BOOLEAN
      BY <2>2, <3>1, Zenon DEF Analyze, CalmFrame, WarnedFrame
    <3>4. g_brake_clear_cnt' \in 0..(VIDEO_BRAKE_CLEAR_FRAMES - 1)
      BY <2>2, TimeAssumption DEF Analyze, CalmFrame, WarnedFrame
    <3>5. /\ g_stop_active' \in BOOLEAN /\ g_slow_active' \in BOOLEAN
          /\ g_slow_pending' \in BOOLEAN
      BY <2>2, Zenon DEF Analyze, CalmFrame, WarnedFrame, StartStop, EndStop
    <3>6. /\ room' \in Int
          /\ cuts' \in 0..2
      BY <2>2 DEF Analyze, CalmFrame, WarnedFrame, StartStop, EndStop
    <3>7. /\ g_v2v_action' \in Actions
          /\ actionAge' \in 0..(HoldFrames + 1)
          /\ g_my_speed' \in 0..INIT_SPEED
      BY <2>2, FrameCounts, SpeedAssumption
      DEF Analyze, CalmFrame, WarnedFrame, StartStop, Resume, Act, Actions
    <3>8. QED
      BY <2>2, <3>2, <3>3, <3>4, <3>5, <3>6, <3>7 DEF Analyze
  <2>3. CASE NoResult
    BY <2>3 DEF NoResult
  <2>4. CASE ReadButtons
    <3>1. g_sos_active' \in BOOLEAN
      BY <2>4, Zenon DEF ReadButtons
    <3>2. g_my_speed' \in 0..INIT_SPEED
      BY <2>4, SpeedAssumption DEF ReadButtons, GreaterOf
    <3>3. QED
      BY <2>4, <3>1, <3>2 DEF ReadButtons
  <2>5. ASSUME NEW m \in Messages, Decide(m) PROVE TypeOK'
    <3>1. /\ g_stop_active' \in BOOLEAN /\ g_slow_active' \in BOOLEAN
          /\ g_slow_pending' \in BOOLEAN
      BY <2>5, Zenon
      DEF Decide, DecideCondition, DecideSosOn, DecideSosOff, DecideBrake,
          DecideLaneChange, DecideBrakeOff, StartStop, EndStop, StartSlow,
          EndSlow
    <3>2. /\ weather' \in Int /\ congestion' \in Int
      BY <2>5, MessageFields
      DEF Decide, DecideCondition, DecideSosOn, DecideSosOff, DecideBrake,
          DecideLaneChange, DecideBrakeOff
    <3>3. /\ room' \in Int
          /\ cuts' \in 0..2
      BY <2>5, MessageFields, DistanceAssumption
      DEF Decide, DecideCondition, DecideSosOn, DecideSosOff, DecideBrake,
          DecideLaneChange, DecideBrakeOff, StartStop, EndStop, StartSlow,
          EndSlow
    <3>4. /\ g_v2v_action' \in Actions
          /\ actionAge' \in 0..(HoldFrames + 1)
          /\ g_my_speed' \in 0..INIT_SPEED
      BY <2>5, FrameCounts, SpeedAssumption
      DEF Decide, DecideCondition, DecideSosOn, DecideSosOff, DecideBrake,
          DecideLaneChange, DecideBrakeOff, StartStop, StartSlow, Resume,
          Act, Actions
    <3>5. QED
      BY <2>5, <3>1, <3>2, <3>3, <3>4 DEF Decide
  <2>6. CASE EndPoll
    BY <2>6, FrameCounts DEF EndPoll, Act, Actions
  <2>7. CASE SameSecond
    BY <2>7, FrameCounts DEF SameSecond, NextFrame, Aged, LesserOf
  <2>8. CASE Second
    <3>1. /\ framecnt' \in 0..CycleFrames /\ actionAge' \in 0..(HoldFrames + 1)
      BY <2>8, FrameCounts DEF Second, NextFrame, Aged, LesserOf
    <3>2. CASE g_stop_active /\ StopSecond(g_my_speed, g_v2v_action)
      BY <2>8, <3>1, <3>2, StopSecondType DEF Second, NextFrame
    <3>3. CASE DriveSecond(g_my_speed) /\ UNCHANGED stopping
      BY <2>8, <3>1, <3>3, DriveSecondType DEF Second, NextFrame
    <3>4. QED
      BY <2>8, <3>2, <3>3 DEF Second
  <2>9. CASE ResetSecond
    <3>1. /\ framecnt' \in 0..CycleFrames /\ actionAge' \in 0..(HoldFrames + 1)
      BY <2>9, FrameCounts DEF ResetSecond, NextFrame, Act
    <3>2. DriveSecond(INIT_SPEED) /\ INIT_SPEED \in 0..INIT_SPEED
      BY <2>9, SpeedAssumption DEF ResetSecond
    <3>3. /\ g_my_speed' \in 0..INIT_SPEED
          /\ g_my_speed_final' \in 0..INIT_SPEED
          /\ g_slow_pending' \in BOOLEAN /\ cuts' \in 0..2
          /\ UNCHANGED g_slow_active
      BY <3>2, DriveSecondType
    <3>4. /\ g_stop_active' \in BOOLEAN
          /\ g_v2v_action' \in Actions
      BY <2>9, Zenon DEF ResetSecond, EndStop, Act, Actions
    <3>5. room' = 0
      BY <2>9, Zenon DEF ResetSecond, EndStop
    <3>6. QED
      BY <2>9, <3>1, <3>3, <3>4, <3>5 DEF ResetSecond, NextFrame
  <2>10. ASSUME NEW m \in Messages, Receive(m) PROVE TypeOK'
    BY <2>10 DEF Receive
  <2>11. ASSUME NEW e \in Buttons, Press(e) PROVE TypeOK'
    BY <2>11, InputAssumption DEF Press
  <2>12. QED
    BY <2>1, <2>2, <2>3, <2>4, <2>5, <2>6, <2>7, <2>8, <2>9, <2>10, <2>11
    DEF Next, Frame
<1>3. QED
  BY <1>1, <1>2, PTL DEF Spec

(***************************************************************************)
(* The camera.                                                             *)
(***************************************************************************)

\* The frames counted towards the release of the video brake were all free of
\* warnings.
VideoInv ==
  /\ WarningMeansVideoBrake
  /\ g_video_brake_active => g_brake_clear_cnt <= calm

\* Messages, buttons and the seconds leave the camera's variables alone.
LEMMA OnlyTheCameraSenses ==
  ASSUME Next
  PROVE  UNCHANGED sensing \/ \E sight \in Sights : Analyze(sight)
  BY DEF Next, Frame, NoResult, ReadButtons, Decide, EndPoll, SameSecond,
         Second, ResetSecond, NextFrame, Receive, Press

LEMMA VideoInvStep ==
  ASSUME TypeOK, VideoInv, NEW sight \in Sights, Analyze(sight)
  PROVE  /\ VideoInv'
         /\ g_video_brake_active /\ ~g_video_brake_active'
              => calm' = VIDEO_BRAKE_CLEAR_FRAMES
<1> USE DEF VideoInv, WarningMeansVideoBrake
<1>1. CASE Latched(sight)
  <2>1. /\ g_warn_latched' = TRUE /\ g_video_brake_active' = TRUE
    BY <1>1, Zenon DEF Analyze, WarnedFrame
  <2>2. g_brake_clear_cnt' = 0 /\ calm' = 0
    BY <1>1 DEF Analyze, WarnedFrame
  <2>3. QED
    BY <2>1, <2>2
<1>2. CASE ~Latched(sight)
  <2>1. ~g_warn_latched'
    BY <1>2, Zenon DEF Analyze
  <2>2. calm' = LesserOf(calm + 1, VIDEO_BRAKE_CLEAR_FRAMES)
    BY <1>2 DEF Analyze
  <2>3. CASE g_video_brake_active
    <3>1. CalmFrame
      BY <1>2, <2>3, Zenon DEF Analyze
    <3>2. CASE g_brake_clear_cnt + 1 >= VIDEO_BRAKE_CLEAR_FRAMES
      <4>1. g_video_brake_active' = FALSE
        BY <3>1, <3>2, Zenon DEF CalmFrame
      <4>2. calm' = VIDEO_BRAKE_CLEAR_FRAMES
        BY <2>2, <2>3, <3>2, TimeAssumption DEF LesserOf, TypeOK
      <4>3. QED
        BY <2>1, <4>1, <4>2
    <3>3. CASE ~(g_brake_clear_cnt + 1 >= VIDEO_BRAKE_CLEAR_FRAMES)
      <4>1. g_video_brake_active'
        BY <2>3, <3>1, <3>3, Zenon DEF CalmFrame
      <4>2. g_brake_clear_cnt' = g_brake_clear_cnt + 1
        BY <3>1, <3>3, Zenon DEF CalmFrame
      <4>3. g_brake_clear_cnt' <= calm'
        <5>1. g_brake_clear_cnt <= calm
          BY <2>3, Zenon
        <5>2. /\ g_brake_clear_cnt \in Nat /\ calm \in Nat
              /\ VIDEO_BRAKE_CLEAR_FRAMES \in Nat
          BY TimeAssumption DEF TypeOK
        <5>3. g_brake_clear_cnt + 1 < VIDEO_BRAKE_CLEAR_FRAMES
          BY <3>3, <5>2
        <5>4. calm' = calm + 1 \/ calm' = VIDEO_BRAKE_CLEAR_FRAMES
          BY <2>2 DEF LesserOf
        <5>5. QED
          BY <4>2, <5>1, <5>2, <5>3, <5>4
      <4>4. QED
        BY <2>1, <2>3, <4>1, <4>3
    <3>4. QED
      BY <3>2, <3>3
  <2>4. CASE ~g_video_brake_active
    <3>1. ~g_video_brake_active'
      BY <1>2, <2>4, Zenon DEF Analyze
    <3>2. QED
      BY <2>1, <2>4, <3>1
  <2>5. QED
    BY <2>3, <2>4
<1>3. QED
  BY <1>1, <1>2

LEMMA VideoInvariant == Spec => []VideoInv
<1>1. Init => VideoInv
  BY DEF Init, VideoInv, WarningMeansVideoBrake
<1>2. TypeOK /\ VideoInv /\ [Next]_vars => VideoInv'
  <2> SUFFICES ASSUME TypeOK, VideoInv, [Next]_vars PROVE VideoInv'
    OBVIOUS
  <2>1. CASE UNCHANGED sensing
    BY <2>1 DEF sensing, VideoInv, WarningMeansVideoBrake
  <2>2. ASSUME NEW sight \in Sights, Analyze(sight) PROVE VideoInv'
    BY <2>2, VideoInvStep
  <2>3. QED
    BY <2>1, <2>2, OnlyTheCameraSenses DEF vars
<1>3. QED
  BY <1>1, <1>2, TypeCorrect, PTL DEF Spec

\* A car whose camera warns has its video brake on, whatever messages and
\* buttons do.
THEOREM VideoBrakeSafety == Spec => []WarningMeansVideoBrake
<1>1. VideoInv => WarningMeansVideoBrake
  BY DEF VideoInv
<1>2. QED
  BY <1>1, VideoInvariant, PTL

\* A flickering warning never releases the video brake: only
\* VIDEO_BRAKE_CLEAR_FRAMES analysed frames in a row without one do.
THEOREM VideoBrakeRelease == Spec => ReleaseNeedsCalm
<1>1. TypeOK /\ VideoInv /\ [Next]_vars
        => [g_video_brake_active /\ ~g_video_brake_active'
              => calm' = VIDEO_BRAKE_CLEAR_FRAMES]_vars
  <2> SUFFICES ASSUME TypeOK, VideoInv, Next,
                      g_video_brake_active, ~g_video_brake_active'
               PROVE  calm' = VIDEO_BRAKE_CLEAR_FRAMES
    OBVIOUS
  <2>1. PICK sight \in Sights : Analyze(sight)
    BY OnlyTheCameraSenses DEF sensing
  <2>2. QED
    BY <2>1, VideoInvStep
<1>2. QED
  BY <1>1, TypeCorrect, VideoInvariant, PTL DEF Spec, ReleaseNeedsCalm

(***************************************************************************)
(* Stopping and slowing down among cars whose drivers touch no buttons.    *)
(***************************************************************************)

\* The other cars' drivers leave their emergency and lane change buttons off.
UntouchedButtons ==
  \A m \in Messages :
    m.from # MOLIT => m.event \in {"LANE_LEFT_OFF", "LANE_RIGHT_OFF"}

\* Among such cars a stop in progress is always braked for at full force:
\* neither a further brake message, nor its release, nor the camera, nor the
\* expiry of the decision shown lowers the deceleration.
THEOREM StopIsBrakedFor ==
  ASSUME UntouchedButtons
  PROVE  Spec => []StoppingIsAStop
<1>1. Init => StoppingIsAStop
  BY DEF Init, StoppingIsAStop
<1>2. StoppingIsAStop /\ [Next]_vars => StoppingIsAStop'
  <2> SUFFICES ASSUME StoppingIsAStop, [Next]_vars, g_stop_active'
               PROVE  g_v2v_action' = "STOP"
    BY DEF StoppingIsAStop
  <2> USE DEF StoppingIsAStop, stopping, doing
  <2>1. CASE UNCHANGED <<stopping, doing>>
    BY <2>1
  <2>2. ASSUME NEW sight \in Sights, Analyze(sight)
        PROVE  g_v2v_action' = "STOP"
    BY <2>2, Zenon DEF Analyze, CalmFrame, WarnedFrame, StartStop, EndStop, Act
  <2>3. ASSUME NEW m \in Messages, Decide(m) PROVE g_v2v_action' = "STOP"
    <3>1. CASE DecideCondition(m)
      BY <3>1 DEF DecideCondition
    <3>2. CASE m.from # MOLIT /\ m.event \in {"LANE_LEFT_OFF", "LANE_RIGHT_OFF"}
      <4>1. DecideCondition(m) \/ DecideBrake(m) \/ DecideBrakeOff(m)
        BY <2>3, <3>2
        DEF Decide, DecideSosOn, DecideSosOff, DecideLaneChange
      <4>2. CASE DecideBrake(m)
        BY <4>2, Zenon DEF DecideBrake, StartStop, StartSlow, Act
      <4>3. CASE DecideBrakeOff(m)
        BY <4>3, Zenon DEF DecideBrakeOff, EndStop
      <4>4. QED
        BY <3>1, <4>1, <4>2, <4>3
    <3>3. QED
      BY <2>3, <3>1, <3>2 DEF Decide, UntouchedButtons
  <2>4. CASE EndPoll
    BY <2>4, Zenon DEF EndPoll
  <2>5. CASE Second
    BY <2>5, Zenon DEF Second, StopSecond
  <2>6. CASE ResetSecond
    BY <2>6, Zenon DEF ResetSecond, EndStop
  <2>7. CASE NoResult \/ ReadButtons
    BY <2>1, <2>7 DEF NoResult, ReadButtons
  <2>8. CASE SameSecond
    BY <2>8, Zenon DEF SameSecond
  <2>9. CASE \/ \E m \in Messages : Receive(m)
             \/ \E e \in Buttons : Press(e)
    BY <2>1, <2>9 DEF Receive, Press
  <2>10. QED
    BY <2>1, <2>2, <2>3, <2>4, <2>5, <2>6, <2>7, <2>8, <2>9
    DEF Next, Frame, vars
<1>3. QED
  BY <1>1, <1>2, PTL DEF Spec

\* No other driver signals an emergency. Every SOS_ON message takes 20 km/h
\* off again, as line 624 has no test of g_slow_active.
NoSosMessage ==
  \A m \in Messages : m.from # MOLIT => m.event # "SOS_ON"

\* A cut waits only where this slowdown has had none.
CutInv ==
  /\ g_slow_pending => cuts = 0
  /\ cuts <= 1

\* Neither the camera nor the buttons nor the reset of the demo cycle make a
\* slowdown cut twice, and neither does a second braking car: unless an SOS_ON
\* arrives, a slowdown takes its 20 km/h off once.
THEOREM CutSafety ==
  ASSUME NoSosMessage
  PROVE  Spec => []OneCutPerSlowdown
<1>1. Init => CutInv
  BY DEF Init, CutInv
<1>2. TypeOK /\ CutInv /\ [Next]_vars => CutInv'
  <2> SUFFICES ASSUME TypeOK, CutInv, [Next]_vars PROVE CutInv'
    OBVIOUS
  <2> USE DEF slowing
  <2>1. CASE UNCHANGED slowing
    BY <2>1 DEF CutInv
  <2>2. ASSUME NEW sight \in Sights, Analyze(sight) PROVE CutInv'
    <3>1. UNCHANGED <<g_slow_pending, cuts>>
      BY <2>2, Zenon DEF Analyze, WarnedFrame, CalmFrame
    <3>2. QED
      BY <3>1 DEF CutInv
  <2>3. ASSUME NEW m \in Messages, Decide(m) PROVE CutInv'
    <3>1. CASE EndSlow
      BY <3>1 DEF EndSlow, CutInv
    <3>2. CASE ~g_slow_active /\ StartSlow
      BY <3>2 DEF StartSlow, CutInv
    <3>3. ~(m.from # MOLIT /\ m.event = "SOS_ON")
      BY DEF NoSosMessage
    <3>4. EndSlow \/ (~g_slow_active /\ StartSlow) \/ UNCHANGED slowing
      BY <2>3, <3>3, Zenon
      DEF Decide, DecideCondition, DecideSosOn, DecideSosOff, DecideBrake,
          DecideLaneChange, DecideBrakeOff
    <3>5. QED
      BY <2>1, <3>1, <3>2, <3>4
  <2>4. ASSUME NEW s, DriveSecond(s) PROVE CutInv'
    <3>1. /\ ~g_slow_pending'
          /\ cuts' = IF g_slow_pending THEN LesserOf(cuts + 1, 2) ELSE cuts
      BY <2>4, Zenon DEF DriveSecond
    <3>2. cuts' <= 1
      BY <3>1 DEF CutInv, LesserOf
    <3>3. QED
      BY <3>1, <3>2 DEF CutInv
  <2>5. CASE Second
    <3>1. UNCHANGED slowing \/ DriveSecond(g_my_speed)
      BY <2>5, Zenon DEF Second, StopSecond
    <3>2. QED
      BY <2>1, <2>4, <3>1
  <2>6. CASE ResetSecond
    BY <2>4, <2>6 DEF ResetSecond
  <2>7. CASE NoResult \/ ReadButtons \/ EndPoll \/ SameSecond
    BY <2>1, <2>7 DEF NoResult, ReadButtons, EndPoll, SameSecond
  <2>8. CASE \/ \E m \in Messages : Receive(m)
             \/ \E e \in Buttons : Press(e)
    BY <2>1, <2>8 DEF Receive, Press
  <2>9. QED
    BY <2>1, <2>2, <2>3, <2>5, <2>6, <2>7, <2>8 DEF Next, Frame, vars
<1>3. CutInv => OneCutPerSlowdown
  BY DEF CutInv, OneCutPerSlowdown
<1>4. QED
  BY <1>1, <1>2, <1>3, TypeCorrect, PTL DEF Spec

\* The camera sees nothing approaching. A stop it starts drops the slowdown
\* but keeps its pending cut (line 897).
QuietCamera == "closing" \notin Sights

\* A cut is pending only in a slowdown, and a speed below the car's own has
\* a reason.
ReasonInv ==
  /\ PendingCutIsOfASlowdown
  /\ SlowSpeedHasAReason
  /\ ~g_warn_latched

\* What a second does to the speed, whether the speed before it is the car's
\* own (after a reset) or has a reason.
LEMMA DriveSecondHasAReason ==
  ASSUME PendingCutIsOfASlowdown, NEW s, DriveSecond(s),
         s < INIT_SPEED => g_slow_active \/ g_sos_active \/ s = 0
  PROVE  /\ ~g_slow_pending'
         /\ g_my_speed' < INIT_SPEED
              => g_slow_active' \/ g_sos_active \/ g_my_speed' = 0
<1>1. g_slow_active' = g_slow_active /\ ~g_slow_pending'
  BY Zenon DEF DriveSecond
<1>2. CASE g_slow_pending
  BY <1>1, <1>2, Zenon DEF PendingCutIsOfASlowdown
<1>3. CASE ~g_slow_pending
  <2>1. g_my_speed' = s
    BY <1>3, Zenon DEF DriveSecond
  <2>2. QED
    BY <1>1, <2>1
<1>4. QED
  BY <1>2, <1>3

\* Whatever the other boards send and the drivers press: while the camera is
\* quiet ReasonInv holds.
LEMMA ReasonInvariance ==
  ASSUME QuietCamera
  PROVE  Spec => []ReasonInv
<1> USE DEF PendingCutIsOfASlowdown, SlowSpeedHasAReason
<1>1. Init => ReasonInv
  BY SpeedAssumption DEF Init, ReasonInv
<1>2. TypeOK /\ ReasonInv /\ [Next]_vars => ReasonInv'
  <2> SUFFICES ASSUME TypeOK, ReasonInv, [Next]_vars PROVE ReasonInv'
    OBVIOUS
  <2> DEFINE Quiet == UNCHANGED g_sos_active /\ ~g_warn_latched'
  <2> USE DEF sensing, driver, slowing, stopping
  <2>0. ~g_warn_latched
    BY DEF ReasonInv
  <2>1. CASE Quiet /\ UNCHANGED <<slowing, stopping, g_my_speed>>
    BY <2>1 DEF ReasonInv
  <2>2. ASSUME Quiet, StartSlow PROVE ReasonInv'
    <3>1. g_slow_active'
      BY <2>2, Zenon DEF StartSlow
    <3>2. QED
      BY <2>2, <3>1 DEF ReasonInv
  <2>3. ASSUME Quiet, NEW r, StartStop(r), EndSlow PROVE ReasonInv'
    <3>1. g_stop_active' /\ ~g_slow_pending'
      BY <2>3, Zenon DEF StartStop, EndSlow
    <3>2. QED
      BY <2>3, <3>1 DEF ReasonInv
  <2>4. ASSUME Quiet, UNCHANGED slowing \/ EndSlow, Resume
        PROVE  ReasonInv'
    <3>1. ASSUME UNCHANGED slowing PROVE g_slow_pending' => g_slow_active'
      BY <3>1 DEF ReasonInv
    <3>2. ASSUME EndSlow PROVE g_slow_pending' => g_slow_active'
      BY <3>2, Zenon DEF EndSlow
    <3>3. g_slow_pending' => g_slow_active'
      BY <2>4, <3>1, <3>2
    <3>4. ~(g_my_speed' < INIT_SPEED)
      BY <2>4, SpeedAssumption DEF Resume
    <3>5. QED
      BY <2>4, <3>3, <3>4 DEF ReasonInv
  <2>5. ASSUME NEW sight \in Sights, Analyze(sight) PROVE ReasonInv'
    <3>1. ~Latched(sight)
      BY DEF Latched, ReasonInv, QuietCamera
    <3>2. Quiet
      BY <2>5, <3>1 DEF Analyze
    <3>3. \/ UNCHANGED <<slowing, stopping, g_my_speed>>
          \/ UNCHANGED slowing /\ Resume
      BY <2>5, <3>1, Zenon DEF Analyze, CalmFrame
    <3>4. QED
      BY <2>1, <2>4, <3>2, <3>3
  <2>6. CASE ReadButtons
    <3>1. /\ UNCHANGED <<slowing, stopping, g_warn_latched>>
          /\ \/ g_sos_active'
             \/ g_my_speed' = INIT_SPEED
             \/ UNCHANGED <<g_sos_active, g_my_speed>>
      BY <2>6, Zenon DEF ReadButtons
    <3>2. CASE g_sos_active'
      BY <2>0, <3>1, <3>2 DEF ReasonInv
    <3>3. CASE g_my_speed' = INIT_SPEED
      BY <2>0, <3>1, <3>3, SpeedAssumption DEF ReasonInv
    <3>4. QED
      BY <2>0, <2>1, <3>1, <3>2, <3>3
  <2>7. ASSUME NEW m \in Messages, Decide(m) PROVE ReasonInv'
    <3>1. Quiet
      BY <2>7 DEF Decide, ReasonInv
    <3>2. \/ UNCHANGED <<slowing, stopping, g_my_speed>>
          \/ StartSlow
          \/ EndSlow /\ StartStop(m.ahead - STOP_GAP)
          \/ EndSlow /\ Resume
      BY <2>7, Zenon
      DEF Decide, DecideCondition, DecideSosOn, DecideSosOff, DecideBrake,
          DecideLaneChange, DecideBrakeOff
    <3>3. QED
      BY <2>1, <2>2, <2>3, <2>4, <3>1, <3>2
  <2>8. CASE Second
    <3>1. Quiet
      BY <2>8 DEF Second, NextFrame, ReasonInv
    <3>2. CASE g_stop_active /\ StopSecond(g_my_speed, g_v2v_action)
      <4> DEFINE decel == IF g_v2v_action = "STOP" THEN DECEL_STOP_PER_S
                                                   ELSE DECEL_SLOW_PER_S
                 slower == GreaterOf(g_my_speed - decel, 0)
      <4>1. slower \in Nat
        BY SpeedAssumption DEF GreaterOf, TypeOK
      <4>2. /\ g_my_speed' = slower /\ g_stop_active' = (slower > 0)
            /\ UNCHANGED slowing
        BY <3>2, Zenon DEF StopSecond
      <4> HIDE DEF slower
      <4>3. slower = 0 \/ slower > 0
        BY <4>1
      <4>4. g_my_speed' = 0 \/ g_stop_active'
        BY <4>2, <4>3, Zenon
      <4>5. QED
        BY <3>1, <4>2, <4>4 DEF ReasonInv
    <3>3. CASE ~g_stop_active /\ DriveSecond(g_my_speed)
      <4>1. g_my_speed < INIT_SPEED
              => g_slow_active \/ g_sos_active \/ g_my_speed = 0
        BY <3>3, Zenon DEF ReasonInv
      <4>2. QED
        BY <3>1, <3>3, <4>1, DriveSecondHasAReason DEF ReasonInv
    <3>4. QED
      BY <2>8, <3>2, <3>3 DEF Second
  <2>9. CASE ResetSecond
    <3>1. Quiet /\ DriveSecond(INIT_SPEED)
      BY <2>9 DEF ResetSecond, NextFrame, ReasonInv
    <3>2. ~(INIT_SPEED < INIT_SPEED)
      BY SpeedAssumption
    <3>3. QED
      BY <3>1, <3>2, DriveSecondHasAReason DEF ReasonInv
  <2>10. CASE NoResult \/ EndPoll \/ SameSecond
    BY <2>0, <2>1, <2>10 DEF NoResult, EndPoll, SameSecond, NextFrame
  <2>11. CASE \/ \E m \in Messages : Receive(m)
              \/ \E e \in Buttons : Press(e)
    BY <2>0, <2>1, <2>11 DEF Receive, Press
  <2>12. CASE UNCHANGED vars
    BY <2>0, <2>1, <2>12 DEF vars
  <2>13. QED
    BY <2>5, <2>6, <2>7, <2>8, <2>9, <2>10, <2>11, <2>12 DEF Next, Frame
<1>3. QED
  BY <1>1, <1>2, TypeCorrect, PTL DEF Spec

\* A slowdown that ends, for whatever reason but a warning of the camera,
\* leaves no cut behind.
THEOREM PendingCutSafety ==
  ASSUME QuietCamera
  PROVE  Spec => []PendingCutIsOfASlowdown
<1>1. ReasonInv => PendingCutIsOfASlowdown
  BY DEF ReasonInv
<1>2. QED
  BY <1>1, ReasonInvariance, PTL

\* No release, expiry or reset leaves the car driving below its own speed:
\* whatever the other boards send and in whatever order.
THEOREM SlowSpeedSafety ==
  ASSUME QuietCamera
  PROVE  Spec => []SlowSpeedHasAReason
<1>1. ReasonInv => SlowSpeedHasAReason
  BY DEF ReasonInv
<1>2. QED
  BY <1>1, ReasonInvariance, PTL

=============================================================================
