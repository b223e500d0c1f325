--------------------------- MODULE VehicleControl ---------------------------
(***************************************************************************)
(* The speed control of one car: the part of the render loop of            *)
(* wayland_npu_app.c that looks at the camera, the driver's buttons and    *)
(* the messages of other cars and decides how fast the car drives.         *)
(*                                                                         *)
(* A frame runs through the phases of the loop body in their order:        *)
(*    analyze -> qt -> poll (once per message) -> tick -> next frame       *)
(* The receive threads of v2v_comm.c put messages into the one-slot        *)
(* mailbox and the serial thread replaces the button event at any moment   *)
(* between two phases.                                                     *)
(*                                                                         *)
(* Speeds are in 1/100 km/h and distances in mm, so that the factors of    *)
(* the code (0.9, 0.6, 0.3, 0.1 s*m/km) give integers.  Positions occur    *)
(* in the code only in differences, so they are kept relative to the car:  *)
(* `ahead` is the sender's position minus ours when its message is         *)
(* decided, and `room` is g_stop_target_pos - g_my_position.               *)
(* Messages may name any distance at any time, so nothing is lost by it.   *)
(***************************************************************************)
EXTENDS Integers, FiniteSets

CONSTANTS
  INIT_SPEED, SPEED_SLOW_DELTA, SPEED_SLOW_MIN,
  DECEL_STOP_PER_S, DECEL_SLOW_PER_S,
  STOP_GAP, BRAKE_NEAR, BRAKE_FAR_IGNORE, LANE_CHANGE_NEAR,
  FRAMES_PER_TICK,              \* 30 in the code: frames per second
  RESET_TICKS,                  \* 40 in the code: seconds per demo cycle
  HOLD_TICKS,                   \* 3 in the code: V2V_STATE_HOLD_MS
  VIDEO_BRAKE_CLEAR_FRAMES,     \* 45 in the code
  Peers, MOLIT, NoMsg,          \* senders; the empty mailbox
  Messages,                     \* what the other boards may send
  Sights,                       \* what the camera may show in a frame
  Buttons                       \* the button events the driver may choose

Events == {"LANE_LEFT_ON", "LANE_LEFT_OFF", "LANE_RIGHT_ON",
           "LANE_RIGHT_OFF", "SOS_ON", "SOS_OFF"}
Actions == {"NONE", "STOP", "WAIT", "SLOW_CRUISE"}

\* A V2VEventMsg as the receiver reads it: `laneDiff` is the distance of the
\* sender's lane from ours.
CarMessage ==
  [from : Peers, event : Events, brake : {0, 1},
   ahead : Int, laneDiff : 0..2, speed : Nat]

\* From board 100 only two fields are read: brake is a weather, lane a
\* congestion code.
ConditionMessage == [from : {MOLIT}, brake : Int, lane : Int]

ASSUME SpeedAssumption ==
  /\ {INIT_SPEED, SPEED_SLOW_DELTA, SPEED_SLOW_MIN, DECEL_STOP_PER_S,
      DECEL_SLOW_PER_S} \subseteq Nat \ {0}
  /\ SPEED_SLOW_MIN <= INIT_SPEED

ASSUME DistanceAssumption ==
  {STOP_GAP, BRAKE_NEAR, BRAKE_FAR_IGNORE, LANE_CHANGE_NEAR} \subseteq Nat

ASSUME TimeAssumption ==
  {FRAMES_PER_TICK, RESET_TICKS, HOLD_TICKS, VIDEO_BRAKE_CLEAR_FRAMES} \subseteq Nat \ {0}

ASSUME InputAssumption ==
  /\ MOLIT \notin Peers
  /\ Messages \subseteq CarMessage \cup ConditionMessage
  /\ NoMsg \notin Messages
  /\ Buttons \subseteq Events
  /\ Sights \subseteq {"clear", "near", "closing"}

VARIABLES
  phase,              \* where in the loop body the render thread is
  framecnt,           \* since the last reset of the demo cycle
  mailbox,            \* g_last_event / g_has_new_event of v2v_comm.c
  qt,                 \* g_sg_event of serial_gui.c
  g_last_qt_event, g_sos_active,
  g_warn_latched, g_video_brake_active, g_brake_clear_cnt,
  g_stop_active, room,
  g_slow_active, g_slow_pending,
  g_v2v_action, actionAge,          \* and frames since g_v2v_action_ms
  weather, congestion,              \* g_molit_weather, g_molit_congestion
  g_my_speed, g_my_speed_final,
  \* History, read by no action: -20 cuts in this slowdown, analysed frames
  \* in a row without warning.
  cuts, calm

sensing == <<g_warn_latched, g_video_brake_active, g_brake_clear_cnt, calm>>
driver == <<qt, g_last_qt_event, g_sos_active>>
slowing == <<g_slow_active, g_slow_pending, cuts>>
stopping == <<g_stop_active, room>>
doing == <<g_v2v_action, actionAge>>
limits == <<weather, congestion>>
vars == <<phase, framecnt, mailbox, sensing, driver, slowing, stopping,
          doing, limits, g_my_speed, g_my_speed_final>>

HoldFrames == HOLD_TICKS * FRAMES_PER_TICK
CycleFrames == RESET_TICKS * FRAMES_PER_TICK

Init ==
  /\ phase = "analyze" /\ framecnt = 0
  /\ mailbox = NoMsg
  /\ qt = "LANE_LEFT_OFF" /\ g_last_qt_event = "LANE_LEFT_OFF"
  /\ g_sos_active = FALSE
  /\ g_warn_latched = FALSE /\ g_video_brake_active = FALSE
  /\ g_brake_clear_cnt = 0
  /\ g_stop_active = FALSE /\ room = 0
  /\ g_slow_active = FALSE /\ g_slow_pending = FALSE
  /\ g_v2v_action = "NONE" /\ actionAge = 0
  /\ weather = 0 /\ congestion = 0
  /\ g_my_speed = INIT_SPEED /\ g_my_speed_final = INIT_SPEED
  /\ cuts = 0 /\ calm = 0

-----------------------------------------------------------------------------
(* Shared pieces.                                                          *)

\* g_v2v_action and the time it was set.
Act(a) == g_v2v_action' = a /\ actionAge' = 0

\* Mutant: a release clears the decision, not its effect on the speed.
ResumeInName == Act("NONE") /\ UNCHANGED g_my_speed

Resume == g_my_speed' = INIT_SPEED /\ Act("NONE")

StartStop(r) == g_stop_active' = TRUE /\ room' = r /\ Act("STOP")

EndStop == g_stop_active' = FALSE /\ room' = 0

StartSlow ==
  /\ g_slow_active' = TRUE /\ g_slow_pending' = TRUE
  /\ cuts' = IF g_slow_active THEN cuts ELSE 0
  /\ Act("SLOW_CRUISE")

EndSlow == g_slow_active' = FALSE /\ g_slow_pending' = FALSE /\ cuts' = 0

\* v2v_max_speed_by_condition(): codes outside the tables count as 0.
Factor == [i \in 0..3 |-> CASE i = 0 -> 10 [] i = 1 -> 9
                            [] i = 2 -> 6  [] i = 3 -> 3]
FactorOf(code) == IF code \in 0..3 THEN Factor[code] ELSE Factor[0]
v2v_max_speed_by_condition ==
  (INIT_SPEED * FactorOf(weather) * FactorOf(congestion)) \div 100

LesserOf(a, b) == IF a <= b THEN a ELSE b
GreaterOf(a, b) == IF a >= b THEN a ELSE b

-----------------------------------------------------------------------------
(* The other threads.                                                      *)

\* store_received_event(): one slot, the newest message wins.
Receive(m) ==
  /\ mailbox' = m /\ m # mailbox
  /\ UNCHANGED <<phase, framecnt, sensing, driver, slowing, stopping, doing,
                 limits, g_my_speed, g_my_speed_final>>

\* The serial thread stores the latest character of the button panel.
Press(e) ==
  /\ qt' = e /\ e # qt
  /\ UNCHANGED <<phase, framecnt, mailbox, sensing, g_last_qt_event,
                 g_sos_active, slowing, stopping, doing, limits,
                 g_my_speed, g_my_speed_final>>

-----------------------------------------------------------------------------
(* Phase 1: nc_board1_front_car_analyze().  A sight is what the camera     *)
(* makes of the car in front: none, or farther than WARN_DISTANCE_M        *)
(* ("clear"), nearer but not approaching ("near"), nearer and approaching  *)
(* ("closing").                                                            *)

Latched(sight) ==
  CASE sight = "closing" -> TRUE
    [] sight = "near" -> g_warn_latched
    [] OTHER -> FALSE

\* A warning-free frame while the video brake is on: the brake is released
\* by the last of VIDEO_BRAKE_CLEAR_FRAMES such frames in a row.
CalmFrame ==
  IF g_brake_clear_cnt + 1 >= VIDEO_BRAKE_CLEAR_FRAMES
    THEN /\ g_video_brake_active' = FALSE /\ g_brake_clear_cnt' = 0
         /\ EndStop /\ Resume /\ UNCHANGED slowing
    ELSE /\ g_brake_clear_cnt' = g_brake_clear_cnt + 1
         /\ UNCHANGED <<g_video_brake_active, slowing, stopping, doing,
                        g_my_speed>>

\* The network has no new result for this frame.
NoResult ==
  /\ phase = "analyze" /\ phase' = "qt"
  /\ UNCHANGED <<framecnt, mailbox, sensing, driver, slowing, stopping, doing,
                 limits, g_my_speed, g_my_speed_final>>

\* Mutant: a returning warning does not restart the count.
WarnedFrameCountsOn ==
  UNCHANGED <<g_brake_clear_cnt, g_video_brake_active, slowing, stopping,
              doing, g_my_speed>>

\* The warning is back, or still on: calm frames are counted anew.
WarnedFrame ==
  /\ g_brake_clear_cnt' = 0
  /\ UNCHANGED <<g_video_brake_active, slowing, stopping, doing, g_my_speed>>

Analyze(sight) ==
  /\ phase = "analyze" /\ phase' = "qt"
  /\ g_warn_latched' = Latched(sight)
  /\ calm' = IF Latched(sight) THEN 0
             ELSE LesserOf(calm + 1, VIDEO_BRAKE_CLEAR_FRAMES)
  /\ \/ /\ Latched(sight) /\ ~g_video_brake_active
        /\ g_video_brake_active' = TRUE /\ g_brake_clear_cnt' = 0
        /\ StartStop(0)
        /\ g_slow_active' = FALSE /\ UNCHANGED <<g_slow_pending, cuts>>
        /\ UNCHANGED g_my_speed
     \/ Latched(sight) /\ g_video_brake_active /\ WarnedFrame
     \/ ~Latched(sight) /\ g_video_brake_active /\ CalmFrame
     \/ /\ ~Latched(sight) /\ ~g_video_brake_active
        /\ UNCHANGED <<g_video_brake_active, g_brake_clear_cnt, slowing,
                       stopping, doing, g_my_speed>>
  /\ UNCHANGED <<framecnt, mailbox, driver, limits, g_my_speed_final>>

-----------------------------------------------------------------------------
(* Phase 2: the driver's own buttons, acted upon when they change.  What   *)
(* the lane change buttons do concerns the own lane only: the messages'    *)
(* laneDiff leaves it open.                                                *)

ReadButtons ==
  /\ phase = "qt" /\ phase' = "poll"
  /\ g_last_qt_event' = qt
  /\ \/ /\ qt # g_last_qt_event /\ qt = "SOS_ON" /\ ~g_sos_active
        /\ g_sos_active' = TRUE
        /\ g_my_speed' = GreaterOf(g_my_speed - SPEED_SLOW_DELTA, 0)
     \/ /\ qt # g_last_qt_event /\ qt = "SOS_OFF" /\ g_sos_active
        /\ g_sos_active' = FALSE
        /\ g_my_speed' = INIT_SPEED
     \/ /\ \/ qt = g_last_qt_event
           \/ qt = "SOS_ON" /\ g_sos_active
           \/ qt = "SOS_OFF" /\ ~g_sos_active
           \/ qt \notin {"SOS_ON", "SOS_OFF"}
        /\ UNCHANGED <<g_sos_active, g_my_speed>>
  /\ UNCHANGED <<framecnt, mailbox, qt, sensing, slowing, stopping, doing,
                 limits, g_my_speed_final>>

-----------------------------------------------------------------------------
(* Phase 3: nc_v2v_decide() on every message found in the mailbox.         *)

Behind(m) == m.ahead > 0           \* we are behind the sender
SameLane(m) == m.laneDiff = 0

DecideCondition(m) ==
  /\ m.from = MOLIT
  /\ weather' = m.brake /\ congestion' = m.lane
  /\ UNCHANGED <<slowing, stopping, doing, g_my_speed>>

DecideSosOn(m) ==
  /\ m.event = "SOS_ON"
  /\ IF Behind(m) /\ SameLane(m) THEN StartSlow
                                 ELSE UNCHANGED <<slowing, doing>>
  /\ UNCHANGED <<stopping, limits, g_my_speed>>

DecideSosOff(m) ==
  /\ m.event = "SOS_OFF"
  /\ IF g_slow_active THEN EndSlow /\ Resume
                      ELSE UNCHANGED <<slowing, doing, g_my_speed>>
  /\ UNCHANGED <<stopping, limits>>

\* Mutant: a distant braking car slows us down whatever we are doing.
DecideBrakeAnyTime(m) ==
  /\ m.event \notin {"SOS_ON", "SOS_OFF"} /\ m.brake = 1
  /\ \/ /\ Behind(m) /\ SameLane(m) /\ m.ahead <= BRAKE_NEAR
        /\ StartStop(m.ahead - STOP_GAP)
        /\ EndSlow
     \/ /\ Behind(m) /\ SameLane(m) /\ m.ahead > BRAKE_NEAR
        /\ StartSlow /\ UNCHANGED stopping
     \/ /\ ~Behind(m) \/ ~SameLane(m)
        /\ UNCHANGED <<slowing, stopping, doing>>
  /\ UNCHANGED <<limits, g_my_speed>>

DecideBrake(m) ==
  /\ m.event \notin {"SOS_ON", "SOS_OFF"} /\ m.brake = 1
  /\ \/ /\ Behind(m) /\ SameLane(m) /\ m.ahead <= BRAKE_NEAR
        /\ StartStop(m.ahead - STOP_GAP)
        /\ EndSlow
     \/ /\ Behind(m) /\ SameLane(m)
        /\ m.ahead > BRAKE_NEAR /\ m.ahead <= BRAKE_FAR_IGNORE
        /\ ~g_slow_active /\ ~g_stop_active
        /\ StartSlow /\ UNCHANGED stopping
     \/ /\ \/ ~Behind(m) \/ ~SameLane(m) \/ m.ahead > BRAKE_FAR_IGNORE
           \/ m.ahead > BRAKE_NEAR /\ (g_slow_active \/ g_stop_active)
        /\ UNCHANGED <<slowing, stopping, doing>>
  /\ UNCHANGED <<limits, g_my_speed>>

DecideLaneChange(m) ==
  /\ m.event \in {"LANE_LEFT_ON", "LANE_RIGHT_ON"} /\ m.brake # 1
  /\ IF /\ m.laneDiff = 1
        /\ m.ahead \in -LANE_CHANGE_NEAR..LANE_CHANGE_NEAR
        /\ m.speed > g_my_speed_final
       THEN Act("WAIT")
       ELSE UNCHANGED doing
  /\ UNCHANGED <<slowing, stopping, limits, g_my_speed>>

DecideBrakeOff(m) ==
  /\ m.event \in {"LANE_LEFT_OFF", "LANE_RIGHT_OFF"} /\ m.brake = 0
  /\ IF SameLane(m) /\ Behind(m) /\ (g_slow_active \/ g_stop_active)
       THEN EndSlow /\ EndStop /\ Resume
       ELSE UNCHANGED <<slowing, stopping, doing, g_my_speed>>
  /\ UNCHANGED limits

Decide(m) ==
  /\ phase = "poll" /\ mailbox = m /\ m # NoMsg
  /\ mailbox' = NoMsg
  /\ \/ DecideCondition(m)
     \/ m.from # MOLIT /\ DecideSosOn(m)
     \/ m.from # MOLIT /\ DecideSosOff(m)
     \/ m.from # MOLIT /\ DecideBrake(m)
     \/ m.from # MOLIT /\ DecideLaneChange(m)
     \/ m.from # MOLIT /\ DecideBrakeOff(m)
  /\ UNCHANGED <<phase, framecnt, sensing, driver, g_my_speed_final>>

\* The mailbox is empty: the loop ends and a decision that has been shown
\* for longer than V2V_STATE_HOLD_MS expires, unless a stop is under way.
EndPoll ==
  /\ phase = "poll" /\ mailbox = NoMsg
  /\ phase' = "tick"
  /\ IF g_v2v_action # "NONE" /\ ~g_stop_active /\ actionAge > HoldFrames
       THEN Act("NONE")
       ELSE UNCHANGED doing
  /\ UNCHANGED <<framecnt, mailbox, sensing, driver, slowing, stopping,
                 limits, g_my_speed, g_my_speed_final>>

-----------------------------------------------------------------------------
(* Phase 4: once per second the speed and the position move on.            *)

\* Mutant: the reset of the demo cycle drops the video brake as well.
NextFrameDropsBrake ==
  /\ phase = "tick" /\ phase' = "analyze"
  /\ framecnt' = IF framecnt = CycleFrames THEN 1 ELSE framecnt + 1
  /\ g_video_brake_active' = (g_video_brake_active /\ framecnt # CycleFrames)
  /\ UNCHANGED <<mailbox, g_warn_latched, g_brake_clear_cnt, calm, driver,
                 limits>>

\* framecnt counts to the reset at CycleFrames and then starts over.
NextFrame ==
  /\ phase = "tick" /\ phase' = "analyze"
  /\ framecnt' = IF framecnt = CycleFrames THEN 1 ELSE framecnt + 1
  /\ UNCHANGED <<mailbox, sensing, driver, limits>>

\* Time passes for the decision shown, as far as EndPoll can tell.
Aged ==
  actionAge' = IF g_v2v_action = "NONE"
                 THEN 0 ELSE LesserOf(actionAge + 1, HoldFrames + 1)

SameSecond ==
  /\ framecnt % FRAMES_PER_TICK # 0
  /\ NextFrame /\ Aged
  /\ UNCHANGED <<slowing, stopping, g_v2v_action, g_my_speed,
                 g_my_speed_final>>

\* A second of a stop in progress: brake, advance, but not past the target.
StopSecond(speed, action) ==
  LET decel == IF action = "STOP" THEN DECEL_STOP_PER_S
                                  ELSE DECEL_SLOW_PER_S
      slower == GreaterOf(speed - decel, 0)
      final == LesserOf(slower, v2v_max_speed_by_condition)
  IN  /\ g_my_speed' = slower
      /\ g_my_speed_final' = final
      /\ room' = GreaterOf(room - final, 0)
      /\ g_stop_active' = (slower > 0)
      /\ UNCHANGED slowing

\* A second of free or slow driving; a pending -20 cut is applied once.
DriveSecond(speed) ==
  LET cut == GreaterOf(speed - SPEED_SLOW_DELTA, SPEED_SLOW_MIN)
      now == IF g_slow_pending THEN cut ELSE speed
  IN  /\ g_my_speed' = now
      /\ g_my_speed_final' = LesserOf(now, v2v_max_speed_by_condition)
      /\ g_slow_pending' = FALSE
      /\ cuts' = IF g_slow_pending THEN LesserOf(cuts + 1, 2) ELSE cuts
      /\ UNCHANGED g_slow_active

Second ==
  /\ framecnt % FRAMES_PER_TICK = 0 /\ framecnt # CycleFrames
  /\ NextFrame /\ Aged /\ UNCHANGED g_v2v_action
  /\ \/ g_stop_active /\ StopSecond(g_my_speed, g_v2v_action)
     \/ ~g_stop_active /\ DriveSecond(g_my_speed) /\ UNCHANGED stopping

\* Mutant: the reset of the demo cycle forgets the speed.
ResetSecondKeepsSpeed ==
  /\ framecnt = CycleFrames
  /\ NextFrame
  /\ Act("NONE") /\ EndStop
  /\ DriveSecond(g_my_speed)

\* The last second of the demo cycle also restarts it: position 0, initial
\* speed, no stop, no action.
ResetSecond ==
  /\ framecnt = CycleFrames
  /\ NextFrame
  /\ Act("NONE") /\ EndStop
  /\ DriveSecond(INIT_SPEED)

-----------------------------------------------------------------------------

Frame ==
  \/ \E sight \in Sights : Analyze(sight)
  \/ NoResult
  \/ ReadButtons
  \/ \E m \in Messages : Decide(m)
  \/ EndPoll
  \/ SameSecond
  \/ Second
  \/ ResetSecond

Next ==
  \/ Frame
  \/ \E m \in Messages : Receive(m)
  \/ \E e \in Buttons : Press(e)

Spec == Init /\ [][Next]_vars

\* The compositor calls render() again and again, and messages come far
\* more slowly than the loop empties the mailbox.
FairSpec == Spec /\ WF_vars(Frame) /\ SF_vars(EndPoll)

-----------------------------------------------------------------------------
(* Properties.                                                             *)

\* Every variable of the render loop keeps its range: the speed is never
\* negative and the counters never pass the limits the code tests.
TypeOK ==
  /\ phase \in {"analyze", "qt", "poll", "tick"}
  /\ framecnt \in 0..CycleFrames
  /\ mailbox \in Messages \cup {NoMsg}
  /\ qt \in Events /\ g_last_qt_event \in Events /\ g_sos_active \in BOOLEAN
  /\ g_warn_latched \in BOOLEAN /\ g_video_brake_active \in BOOLEAN
  /\ g_brake_clear_cnt \in 0..(VIDEO_BRAKE_CLEAR_FRAMES - 1)
  /\ calm \in 0..VIDEO_BRAKE_CLEAR_FRAMES
  /\ g_stop_active \in BOOLEAN /\ room \in Int
  /\ g_slow_active \in BOOLEAN /\ g_slow_pending \in BOOLEAN
  /\ cuts \in 0..2
  /\ g_v2v_action \in Actions /\ actionAge \in 0..(HoldFrames + 1)
  /\ weather \in Int /\ congestion \in Int
  /\ g_my_speed \in 0..INIT_SPEED /\ g_my_speed_final \in 0..INIT_SPEED

\* While a stop is under way the decision is STOP, so that the car brakes at
\* DECEL_STOP_PER_S (comment at line 1280: turned to another action, the car
\* looks as if it did not stop at all).
StoppingIsAStop == g_stop_active => g_v2v_action = "STOP"

\* README 4: a slowdown takes 20 km/h off once, however often it is signalled.
OneCutPerSlowdown == cuts <= 1

\* A cut that waits for the next second belongs to a slowdown in progress: a
\* stop in between cancels it (comment at line 676).
PendingCutIsOfASlowdown == g_slow_pending => g_slow_active

\* The car drives below its own speed only while it stops or slows down for
\* somebody or signals an emergency of its own, or after it has come to a full
\* stop: no release leaves it slow.
SlowSpeedHasAReason ==
  g_my_speed < INIT_SPEED
    => g_slow_active \/ g_stop_active \/ g_sos_active \/ g_my_speed = 0

\* Nothing keeps the car standing for ever: if the release does not come, or
\* does not count, the next demo cycle starts at full speed (comment at line
\* 1329: speed and state recovered, no restart needed).
StandstillEnds == g_my_speed = 0 ~> g_my_speed > 0

\* README 4: a car that its camera has stopped stands until the obstacle is
\* gone: with the stop carried out and no slowdown in progress nothing is left
\* that could set it in motion.
WarnedCarStandsStill ==
  g_video_brake_active /\ ~g_stop_active /\ ~g_slow_active => g_my_speed = 0

\* The video brake is on whenever the camera warns ...
WarningMeansVideoBrake == g_warn_latched => g_video_brake_active

\* ... and goes off only after VIDEO_BRAKE_CLEAR_FRAMES frames in a row
\* without a warning, however the warning flickers (comment at line 889).
ReleaseNeedsCalm ==
  [][g_video_brake_active /\ ~g_video_brake_active'
       => calm' = VIDEO_BRAKE_CLEAR_FRAMES]_vars

=============================================================================
