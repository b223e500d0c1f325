SPECIFICATION Spec
CONSTANTS
  VIDEO_MAX_CH = 2
  VIDEO_BUFFER_NUM = 3
  Boards = {"car", "ministry"}
  Sizes <- SensorSizes
  Configs <- Settings
  UINT = 16
  None = None
CHECK_DEADLOCK FALSE
INVARIANT RunningMeansStreaming
INVARIANT SelectionFits
