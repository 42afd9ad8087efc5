CONSTANTS
  None = None
  Error = Error
  States <- Four
  Inputs <- AllInputs
SPECIFICATION Spec
CHECK_DEADLOCK FALSE
INVARIANT CutoffIsComplete
