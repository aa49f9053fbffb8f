SPECIFICATION FairSpec
CONSTANTS
  Max = 2
  CanPause = {TRUE}
  MaxSignals = 2
PROPERTY HandlersReturn
CHECK_DEADLOCK FALSE
