SPECIFICATION Spec
CONSTANTS
  p1 = p1
  p2 = p2
  Peers = {p1, p2}
  MYSELF = MYSELF
  MOLIT = MOLIT
  NoMsg = NoMsg
  Unused = Unused
  MAX_PEER_STATE = 2
  FRAMES_PER_SECOND = 2
  RESET_SECONDS = 2
  FrameTimes = {1, 4}
  LANE_CHANGE_DELAY = 4
  LANE_CHANGE_YIELD = 6
  PEER_STALE = 2
  LANE_CHANGE_NEAR = 4
  LANE_MIN = 1
  LANE_MAX = 3
  INIT_SPEED = 30
  Speeds = {30}
  Targets = {2}
  Messages <- Traffic
  Buttons = {"LANE_LEFT_ON", "LANE_RIGHT_ON", "LANE_LEFT_OFF", "LANE_RIGHT_OFF", "SOS_ON"}
INVARIANT SlotsHoldTheLatest
PROPERTY ChangeWaits
PROPERTY ChangeIsAnnounced
PROPERTY ChangeIsWanted
