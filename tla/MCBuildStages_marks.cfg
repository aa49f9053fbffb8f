CONSTANTS
  alsa = alsa
  lzutils = lzutils
  Packages <- MCPackages
  Deps <- MCDeps
  Lists <- MCLists
  Archives <- MCArchives
  Patches <- MCArchives
  Kinds = {"default", "clean", "redo"}
  MaxCmds = 2
  Faults = {"tool", "kill"}
SPECIFICATION Spec
INVARIANTS LoopInOrder OutputIsCurrent
PROPERTY DefaultKeepsDone
