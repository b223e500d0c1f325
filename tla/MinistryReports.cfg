SPECIFICATION FairMinistrySpec
CONSTANTS
  Cars = {c1}
  Weathers = {"SUNNY", "RAIN"}
  WEATHER_SUNNY = "SUNNY"
  Congestions = {"SMOOTH", "JAM"}
  TRAFFIC_SMOOTH = "SMOOTH"
  Interval = 2
  MaxBack = 1
  MaxSetBacks = 1
  MaxOnWay = 1
  Nothing = Nothing
  Foreign = Foreign
PROPERTY AgreementLasts
PROPERTY ConditionArrives
