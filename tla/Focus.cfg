CONSTANTS
  Minute = 2
  Threshold = 2
  DefaultLength = 2
  Lengths = {1, 2, 5}
  InitMoney = 1
  OtherChanges <- MCOtherChanges
  MaxOther = 1
  MaxStarts = 3
  MaxCount = 5
  MaxDismissals = 2
  MaxCrashes = 1
SPECIFICATION FairSpec
INVARIANTS
  PaidOnceIfAnswered
  StartedIsLive
  CountdownPaidOnce
PROPERTIES
  HomeShowsBalance
  CountdownEnds
