SPECIFICATION FairSpec
CONSTANTS
  Cap = 2
  RefillMin = 1
  MaxPlays = 1
  Ops <- CmdOps
  AlsaOk = TRUE
PROPERTY TrackEnds
CHECK_DEADLOCK FALSE
