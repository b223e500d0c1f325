SPECIFICATION FairPortSpec
CONSTANTS
  Numbers = {d1, d2, d3}
  None = None
  EofLimit = 2
  MaxSecondCloses = 1
  Events = {"LANE_LEFT_ON", "LANE_LEFT_OFF"}
  InitialEvent = "LANE_LEFT_OFF"
  MayStop = TRUE
INVARIANT PortTypeOK
PROPERTY ClosesItsOwn
PROPERTY PortComesBack
