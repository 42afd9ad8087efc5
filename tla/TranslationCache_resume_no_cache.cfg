CONSTANTS
  p1 = p1
  p2 = p2
  None = None
  Procs <- TwoProcs
  Keys = {1}
  Dirs = {}
  Slots = {1}
  Inodes = {1, 2, 3, 4}
  SpecOf <- SpecFiles
  Commands <- OnlyAfresh
  CacheLimit = 1
  MaxJobs = 2
  MaxCommands = 2
  MaxClock = 0
  Faults = {}
SPECIFICATION Spec
SYMMETRY Symmetric
PROPERTY ResumesPending
