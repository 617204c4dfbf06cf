SPECIFICATION FairSpec
CONSTANTS
  c1 = c1
  Calls = {c1}
  Kinds <- MCKinds
  ShowCompleted = FALSE
  Screens = {"list"}
  Hasty = FALSE
  NextDate <- MCNextDate
  Rewarded <- MCRewarded
  FirstDay = 1
  LastDay = 4
  Epoch = 0
  InitMoney = 0
  MaxTaps = 3
  MaxAwake = 1
  MaxDismissals = 1
  MaxCrashes = 1
INVARIANTS
  CoinsAreSquares
  HomeInStep
  OpenTaskRings
PROPERTIES
  OneRewardPerPeriod
  ImplementsOccurrences
  ComesBackUnlessKilled
