CONSTANTS
  Minute = 2
  Threshold = 2
  DefaultLength = 3
  Lengths = {0, 1, 2, 3, 5}
  InitMoney = 1
  OtherChanges <- MCOtherChanges
  MaxOther = 0
  MaxStarts = 1
  MaxCount = 5
  MaxDismissals = 1
  MaxCrashes = 0
SPECIFICATION Spec
INVARIANTS
  TotalIsFocusTime
