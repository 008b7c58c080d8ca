SPECIFICATION Spec
CONSTANTS
  Fail = Fail
  DT_TJMAX <- NotInDeviceTree
  TjmaxReadings = {90, 100}
  RawReadings <- AllReadings
  DimmReadings = {}
  EU = 2
  COUNTER = 16
  TimeSteps = {}
  EnergySteps = {}
  MaxTime = 0
INVARIANTS
  ShowsWhatTheCpuSaid
