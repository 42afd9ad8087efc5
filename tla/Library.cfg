CONSTANTS
  Modulus = 3
  Fields = {"x", "y"}
  Operands = {"x", "sample", "cached"}
  MaxCalls = 4
  Starts <- OneStart
  MachineFields = {"f", "g"}
  Upsert = {"f"}
  ObjectKeys = {1, 2}
  MaxWrites = 4
  Requests <- TwoRequests
  Commands = {1, 2}
  Given <- Pairs
  FindingsLimit = 2
  Left <- Leaving
  Machines <- SmallMachines
  Bad = {1}
  MaxSteps = 2
  MaxRetriesPerStep = 1
  MaxSamples = 2
  MaxFindings = 2
  CacheSize = 1
  GivenSchedules <- TwoSteps
  MaxFlowCalls = 9
SPECIFICATION LibrarySpec
VIEW View
CHECK_DEADLOCK FALSE
INVARIANT BuiltActionsAgree
INVARIANT EnabledIsExact
INVARIANT ConvertedStepsAgree
INVARIANT AcceptedScriptsEvaluate
INVARIANT ScriptsMeanWhatTheySay
INVARIANT ConvertedExpressionsAgree
 
INVARIANT ExportedIsImported
INVARIANT SetOperationsAgree
INVARIANT EqualValuesAreOneState
INVARIANT ValuesReadBack
INVARIANT VerdictsAreTheCheckers
INVARIANT HintsAreForFindings
INVARIANT DrawsCoverTheSet
INVARIANT PrintedSeedsReplay
INVARIANT WrittenSchedulesReplay
INVARIANT AcceptedFlowsMeanPython
INVARIANT WritesAreKept
INVARIANT RefusedOnlyIfWritten
