SPECIFICATION FairSpec
CONSTANTS
  Boards = {1, 2}
  Fds = {1, 2, 3, 4}
  Conns = {1, 2, 3, 4}
  MAX_PEER_CNT = 2
  MaxOutages = 2
  Outages = {"exit", "power"}
  MaxLate = 2
INVARIANT OneEntryPerPeer
INVARIANT EveryEntryIsWatched
PROPERTY LinksComeBackUnlessHeld
