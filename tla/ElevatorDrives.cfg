SPECIFICATION WatchedSpec
CONSTANTS
  START_FLOOR = 1
  MAX_FLOOR = 3
  DWELL_BASE = 3
  FLOOR_TRAVEL_TIME = 2
  DOOR_OPEN_TIME = 1
  DOOR_CLOSE_TIME = 1
  OPEN_MAX_TIME = 2
  EmgLevels = {FALSE, TRUE}
  ButtonLevels = {FALSE, TRUE}
  PowerUpTimer = {0}
INVARIANT TimerNeverPassesItsLimit
INVARIANT DoorShutWhileMoving
INVARIANT MovesTowardsACall
INVARIANT DoorWorkIsResumed
PROPERTY ImplementsTheService
PROPERTY CallsEndAtTheOpenDoor
PROPERTY KeepsDirection
PROPERTY EveryCallIsServed
