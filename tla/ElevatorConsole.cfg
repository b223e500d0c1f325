SPECIFICATION LiveSpec
CONSTANTS
  MAX_FLOOR = 2
  WIDTH = 4
  CALL_WIDTH = 3
  Digits = {1, 2}
  BYTE_CYCLES = 4
  RX_CYCLES = 2
  ERR_LAST = 2
  PREFIX = 0
  Lengths = {1, 2}
INVARIANT CallsAreServed
INVARIANT StatusYields
PROPERTY ReplyInOrderButTheFirst
PROPERTY FramesInOrder
PROPERTY FrameIsSent
