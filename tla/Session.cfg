SPECIFICATION FairSpec
CONSTANTS
  Accounts = {a, b}
  Doors = {c1}
  Cleaners = {c2}
  Tasks = {t1}
  None = None
  Unset = Unset
  MaxSignIns = 1
  MaxHurries = 1
  MaxInterrupts = 1
INVARIANTS UserIsCurrent BadHomeIsBrief ShownAreOwn TasksAreFiled DocumentsAreNotReset NobodyIsWronged
PROPERTIES ComesHome
CHECK_DEADLOCK FALSE
