CONSTANTS
  MaxMsgs = 2
  MaxCalls = 2
  MaxUnderWay = 4
SPECIFICATION Spec
CONSTRAINT FewUnderWay
INVARIANTS
  TypeOK
  CountsConverge
  HidesOnlyReads
PROPERTY ReadsAreKept
CHECK_DEADLOCK FALSE
