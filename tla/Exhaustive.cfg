CONSTANTS
  None = None
  Error = Error
  NoSeed = NoSeed
  Actions <- AllActions
  Permute <- Rotate
  MaxDepth = 3
  MaxChoices = 3
  States <- Four
  Inputs <- AllInputs
SPECIFICATION ExhaustiveSpec
CHECK_DEADLOCK FALSE
INVARIANT FindingsReplay
INVARIANT FindingsDistinct
INVARIANT ExhaustedIsComplete
INVARIANT FindingsWithinCutoff
INVARIANT SavedChoiceInBounds
INVARIANT EachOnce
INVARIANT EverySchedule
PROPERTY SearchSpec
PROPERTY Terminates
PROPERTY EnumerationEnds
