SPECIFICATION Spec
CONSTANTS
  Cap = 2
  RefillMin = 1
  MaxPlays = 2
  Ops <- AllOps
  AlsaOk = FALSE
INVARIANT DestroyedIsQuiet
CHECK_DEADLOCK FALSE
