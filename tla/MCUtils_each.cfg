SPECIFICATION UtilsSpec
CONSTANTS
  Buffer = 2
  Chunk = 3
  MaxCalls = 6
  Kinds = {"csrb", "ccsrb"}
  Cap = 3
  Width = 8
  Period = 6
  MaxOdd = 3
  Data = {d1, d2}
  Nodes = {n1, n2, n3}
  NULL = NULL
  WalkEmpty = FALSE
  Readers = {r1}
  Writers = {w1, w2}
  Max = 1
  MaxPushes = 5
  Long = FALSE
  MaxConfirm = 3
  MaxUnits = 11
  PreBytes = 2
  MaxWrite = 2
  MaxBytes = 5
  Clients = {w1, w2}
  PipeSize = 7
  BufSize = 5
  MaxSends = 3
  MaxSignals = 1
  MaxCrashes = 1
  MaxFaults = 2
  Bytes = {0, 165, 255}
  MaxFile = 5
  MaxBlock = 4
INVARIANTS
  TypesOK
  BytesKeepOrder
  QueueHolds
  FifoKeepsCommands
  CodeRoundTrips
PROPERTIES
  ControlsHold
  ListIsDeque
  VoiceInRows
  SoundHolds
  UtilsProgress
CHECK_DEADLOCK FALSE
