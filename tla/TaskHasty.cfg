SPECIFICATION Spec
CONSTANTS
  c1 = c1
  c2 = c2
  Calls = {c1, c2}
  Kinds <- MCReminded
  ShowCompleted = FALSE
  Screens = {"list", "calendar"}
  Hasty = TRUE
  NextDate <- MCNextDate
  Rewarded <- MCRewarded
  FirstDay = 1
  LastDay = 2
  Epoch = 0
  InitMoney = 0
  MaxTaps = 2
  MaxAwake = 1
  MaxDismissals = 1
  MaxCrashes = 1
SYMMETRY Interchangeable
INVARIANTS
  StreakIsEarned
  CoinsAreBounded
  CompletedIsInHand
