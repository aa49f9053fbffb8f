CONSTANTS
  alsa = alsa
  lzutils = lzutils
  Packages <- MCArchives
  Deps <- MCNoDeps
  Lists <- MCOneList
  Archives <- MCArchives
  Patches <- MCArchives
  Kinds = {"default", "remake", "redo", "only"}
  MaxCmds = 2
  Faults = {"kill", "torn"}
SPECIFICATION Spec
INVARIANT RemakeRepairs
