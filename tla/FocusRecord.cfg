CONSTANTS
  Calls = {c1, c2}
  Minute = 2
  HoursOfDay = 3
  MinSession = 2
  MaxClock = 13
  MaxSessions = 2
  MaxKills = 1
  MaxClears = 1
SYMMETRY Interchangeable
SPECIFICATION Spec
CHECK_DEADLOCK FALSE
INVARIANTS
  RecordedWasPaid
  RecordIsComplete
  HoursAreSpanned
