SPECIFICATION FairSpec
CONSTANTS
  p1 = p1
  p2 = p2
  Peers = {p1, p2}
  MOLIT = MOLIT
  NoMsg = NoMsg
  INIT_SPEED = 6000
  SPEED_SLOW_DELTA = 2000
  SPEED_SLOW_MIN = 2000
  DECEL_STOP_PER_S = 2000
  DECEL_SLOW_PER_S = 400
  STOP_GAP = 5000
  BRAKE_NEAR = 20000
  BRAKE_FAR_IGNORE = 100000
  LANE_CHANGE_NEAR = 10000
  FRAMES_PER_TICK = 1
  RESET_TICKS = 8
  HOLD_TICKS = 3
  VIDEO_BRAKE_CLEAR_FRAMES = 3
  Messages <- BrakesOnly
  Sights = {"clear"}
  Buttons = {}
INVARIANT StoppingIsAStop
INVARIANT OneCutPerSlowdown
INVARIANT SlowSpeedHasAReason
PROPERTY StandstillEnds
