CONSTANTS
  p1 = p1
  p2 = p2
  None = None
  Procs <- TwoProcs
  Keys = {1, 2}
  Dirs = {}
  Slots = {1, 2}
  Inodes = {1, 2, 3, 4}
  SpecOf <- SpecFiles
  Commands <- Runs
  CacheLimit = 1
  MaxJobs = 3
  MaxCommands = 3
  MaxClock = 0
  Faults = {}
SPECIFICATION Spec
SYMMETRY Symmetric
PROPERTY PreparedNotEvicted
