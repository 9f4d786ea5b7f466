CONSTANTS
  Mxcs = {m, n}
  Readers = {r1}
  Size = 2
  Budget = 0
  MaxEntries = 2
  MaxSweeps = 2
  MaxChores = 1
  MaxCrashes = 1
SPECIFICATION Spec
SYMMETRY Symmetry
INVARIANTS
  TypeOK
  OnlyStraysCorrupt
  OnlySweepsUnback
  CleanEndIsWhole
  OneLiveDownload
CHECK_DEADLOCK FALSE
