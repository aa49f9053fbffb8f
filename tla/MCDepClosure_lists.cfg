CONSTANTS
  p1 = p1
  p2 = p2
  p3 = p3
  p4 = p4
  Known <- MCKnown
  MaxDeps = 2
  MaxAsked = 2
SPECIFICATION GetDeps
SYMMETRY Alike
INVARIANT ListIsClosure
CHECK_DEADLOCK FALSE
