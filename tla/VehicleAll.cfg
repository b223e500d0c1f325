SPECIFICATION Spec
CONSTANTS
  p1 = p1
  p2 = p2
  Peers = {p1, p2}
  MOLIT = MOLIT
  NoMsg = NoMsg
  INIT_SPEED = 6000
  SPEED_SLOW_DELTA = 2000
  SPEED_SLOW_MIN = 2000
  DECEL_STOP_PER_S = 2000
  DECEL_SLOW_PER_S = 1000
  STOP_GAP = 5000
  BRAKE_NEAR = 20000
  BRAKE_FAR_IGNORE = 100000
  LANE_CHANGE_NEAR = 10000
  FRAMES_PER_TICK = 2
  RESET_TICKS = 2
  HOLD_TICKS = 1
  VIDEO_BRAKE_CLEAR_FRAMES = 2
  Messages <- Everything
  Sights = {"clear", "near", "closing"}
  Buttons = {"SOS_ON", "SOS_OFF"}
INVARIANT WarningMeansVideoBrake
PROPERTY ReleaseNeedsCalm
