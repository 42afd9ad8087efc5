CONSTANTS
  Modulus = 3
  Fields = {"x", "y"}
  Operands = {"old"}
  MaxCalls = 2
  Starts <- OneStart
SPECIFICATION Spec
CHECK_DEADLOCK FALSE
INVARIANT AgreesIfAssignedOnce
