SPECIFICATION FlowSpec
CHECK_DEADLOCK FALSE
CONSTANT MaxFlowCalls = 6
INVARIANT ElseBranchesAreAccepted
