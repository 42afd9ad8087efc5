CONSTANTS
  p1 = p1
  p2 = p2
  None = None
  Procs <- TwoProcs
  Keys = {1}
  Dirs = {}
  Slots = {1}
  Inodes = {1, 2, 3, 4}
  SpecOf <- SpecFiles
  Commands <- SharingRuns
  CacheLimit = 1
  MaxJobs = 3
  MaxCommands = 3
  MaxClock = 1
  Faults = {"failed", "expired", "archive", "build"}
SPECIFICATION FairSpec
INVARIANT EntryMutex
INVARIANT SubmittedOnce
INVARIANT NoSpuriousFailure
PROPERTY RWSpec
PROPERTY PreparedIsReady
PROPERTY ResumesPending
PROPERTY TempfailResumable
PROPERTY CommandsEnd
