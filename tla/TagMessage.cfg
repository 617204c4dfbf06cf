CONSTANTS
  Tasks = {t1, t2}
  Titles <- TwoTitles
  Calls = {c1}
  Objects <- FiveObjects
  Loads <- FourLoads
  MaxHurries = 0
  MaxForms = 1
  MaxOpens = 1
SPECIFICATION Spec
INVARIANTS
  SaidIsDone
