CONSTANTS
  Mxcs = {m, n}
  Readers = {r1, r2}
  Size = 2
  Budget = 0
  MaxEntries = 2
  MaxSweeps = 1
  MaxChores = 0
  MaxCrashes = 0
SPECIFICATION FairSpec
PROPERTY ResponsesSettle
CHECK_DEADLOCK FALSE
