SPECIFICATION Spec
CONSTANTS
  Accounts = {a1}
  First = a1
  MaxMsgs = 2
  MaxWorkers = 2
  MaxToggles = 2
  MaxStarts = 2
CHECK_DEADLOCK FALSE
CONSTRAINT AtMostThree
INVARIANTS
  TypeOK
  DoneMeansIndexed
  EnabledMeansIndexing
