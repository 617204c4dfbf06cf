CONSTANTS
  Tasks = {t1, t2}
  Titles <- TwoTitles
  Calls = {c1, c2}
  Objects <- FiveObjects
  Loads <- FourLoads
  MaxHurries = 1
  MaxForms = 2
  MaxOpens = 2
SYMMETRY Interchangeable
SPECIFICATION Spec
INVARIANTS
  TypeOK
  ListIsWhole
  SelectionExists
  DanglingIsDone
  CompletedWasTapped
  CompletedOnce
