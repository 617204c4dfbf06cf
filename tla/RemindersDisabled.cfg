CONSTANTS
  Tasks = {t1}
  Calls = {c1}
  MaxTime = 2
  MaxEdits = 0
  MaxRestarts = 0
  MaxSwitches = 1
  MaxHurries = 0
SPECIFICATION Spec
PROPERTIES
  DisabledIsSilent
