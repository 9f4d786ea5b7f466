SPECIFICATION Spec
CONSTANTS
  Accounts = {a1, a2}
  First = a1
  MaxMsgs = 2
  MaxWorkers = 1
  MaxToggles = 1
  MaxStarts = 1
CHECK_DEADLOCK FALSE
INVARIANT OffMeansWiped
