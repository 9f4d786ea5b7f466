CONSTANTS
  MaxMsgs = 2
  MaxCalls = 2
SPECIFICATION Spec
INVARIANT ReceiptsAreOwed
CHECK_DEADLOCK FALSE
