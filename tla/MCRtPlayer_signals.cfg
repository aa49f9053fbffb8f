SPECIFICATION FairSpec
CONSTANTS
  Max = 2
  CanPause = {TRUE, FALSE}
  MaxSignals = 2
INVARIANTS
  TypeOK
PROPERTIES
  PauseIsRight
  GoesOn
CHECK_DEADLOCK FALSE
