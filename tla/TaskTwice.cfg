SPECIFICATION Spec
CONSTANTS
  c1 = c1
  c2 = c2
  Calls = {c1, c2}
  Kinds <- MCReminded
  ShowCompleted = FALSE
  Screens = {"calendar"}
  Hasty = TRUE
  NextDate <- MCNextDate
  Rewarded <- MCRewarded
  FirstDay = 1
  LastDay = 1
  Epoch = 0
  InitMoney = 0
  MaxTaps = 2
  MaxAwake = 0
  MaxDismissals = 0
  MaxCrashes = 0
PROPERTIES
  OneRewardPerPeriod
