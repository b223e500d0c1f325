SPECIFICATION FairSpec
CONSTANTS
  VIDEO_BUFFER_NUM = 2
  Addresses = {a1, a2, a3, a4}
  MAX_MQ_MSG_CNT = 1
  PICTURES = 6
  MaxFailures = 1
  None = None
INVARIANT OnlyOwnAddresses
INVARIANT MemoryIsAccountedFor
INVARIANT PicturesInOrder
PROPERTY InterruptEnds
