SPECIFICATION FairSpec
CONSTANTS
  c1 = c1
  Calls = {c1}
  Kinds <- MCReminded
  ShowCompleted = FALSE
  Screens = {"list"}
  Hasty = FALSE
  NextDate <- MCNextDate
  Rewarded <- MCRewarded
  FirstDay = 1
  LastDay = 1
  Epoch = 0
  InitMoney = 0
  MaxTaps = 1
  MaxAwake = 0
  MaxDismissals = 0
  MaxCrashes = 1
PROPERTIES
  ComesBack
