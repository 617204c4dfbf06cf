SPECIFICATION Spec
CONSTANTS
  c1 = c1
  Calls = {c1}
  Kinds <- MCReminded
  ShowCompleted = FALSE
  Screens = {"list"}
  Hasty = FALSE
  NextDate <- MCNextDate
  Rewarded <- MCRewarded
  FirstDay = 1
  LastDay = 3
  Epoch = 0
  InitMoney = 0
  MaxTaps = 3
  MaxAwake = 1
  MaxDismissals = 0
  MaxCrashes = 0
PROPERTIES
  RefusedOnlyInPeriod
