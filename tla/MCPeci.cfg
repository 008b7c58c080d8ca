SPECIFICATION SensorsSpec
CONSTANTS
  Fail = Fail
  DT_TJMAX <- NotInDeviceTree
  TjmaxReadings = {90}
  RawReadings <- TwoReadings
  DimmReadings = {305}
  EU = 1
  COUNTER = 256
  TimeSteps = {900, 1000}
  EnergySteps = {70, 240}
  MaxTime = 1900
  LAST_SECOND = 4294967
  StartTimes = {0, 4294900}
  MaxRun = 130
INVARIANTS
  PowerIsAverage
  MarginMatches
  ReadingsAreSensible
