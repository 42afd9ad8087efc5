CONSTANTS
  p1 = p1
  p2 = p2
  None = None
  Procs <- TwoProcs
  Keys = {1, 3}
  Dirs = {10}
  Slots = {1, 3, 10}
  Inodes = {1, 2, 3, 4}
  SpecOf <- SpecFiles
  Commands <- AllCommands
  CacheLimit = 1
  MaxJobs = 3
  MaxCommands = 3
  MaxClock = 1
  Faults = {"refused", "network", "failed", "archive", "interrupt", "crash"}
SPECIFICATION Spec
ACTION_CONSTRAINT OneScenario
SYMMETRY Symmetric
INVARIANT TypeOK
INVARIANT HonestEntry
PROPERTY DirectoryKeepsPrevious
