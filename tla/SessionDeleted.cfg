SPECIFICATION Spec
CONSTANTS
  Accounts = {a}
  Doors = {c1}
  Cleaners = {c2}
  Tasks = {t1}
  None = None
  Unset = Unset
  MaxSignIns = 1
  MaxHurries = 0
  MaxInterrupts = 0
INVARIANTS DeletedIsDeleted
CHECK_DEADLOCK FALSE
