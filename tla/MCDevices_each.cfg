SPECIFICATION DevSpec
CONSTANTS
  Max = 3
  MaxSignals = 2
  MaxChunks = 7
  MaxRx = 6
  MaxRead = 3
  RxCap = 1
  TxCap = 1
  N = 2
  Funcs = {f, g}
  None = None
  MaxOps = 3
  c1 = c1
  c2 = c2
  Nobody = Nobody
  MaxCalls = 4
  MayFail = {"malloc", "enable", "create", "disable", "open", "close"}
  MaxChanges = 3
  MaxSamples = 5
INVARIANTS
  TypesOK
  SteadyDelay
  InOrder
  UartFramesWhole
  SensorThreadAndDevice
  GyroSettled
  BoardLights
PROPERTIES
  DevicesProgress
CHECK_DEADLOCK FALSE
