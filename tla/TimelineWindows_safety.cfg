CONSTANTS
  Rooms = {a, b}
  MaxResident = 1
  MaxTasks = 3
SPECIFICATION Spec
SYMMETRY Symmetry
INVARIANTS
  TypeOK
  SlotsMatchBuilds
  MapsAgreeUnlessRaced
  BlankOnlyWhenCrossed
CHECK_DEADLOCK FALSE
