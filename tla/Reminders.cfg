CONSTANTS
  Tasks = {t1}
  Calls = {c1, c2}
  MaxTime = 3
  MaxEdits = 1
  MaxRestarts = 1
  MaxSwitches = 2
  MaxHurries = 1
SYMMETRY Interchangeable
SPECIFICATION Spec
CHECK_DEADLOCK FALSE
INVARIANTS
  OpenTasksRing
  AheadIsWanted
