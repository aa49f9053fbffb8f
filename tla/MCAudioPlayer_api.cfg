SPECIFICATION FairSpec
CONSTANTS
  Cap = 2
  RefillMin = 1
  MaxPlays = 2
  Ops <- ApiOps
  AlsaOk = TRUE
INVARIANTS
  TypeOK
  OneTrackOnly
  ContextsLive
  Silences
PROPERTIES
  AllEnds
CHECK_DEADLOCK FALSE
