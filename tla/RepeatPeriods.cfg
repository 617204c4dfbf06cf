SPECIFICATION DaysSpec
CONSTANTS
  Repeats = {"daily", "weekdays", "weekends", "weekly", "monthly"}
  Starts <- MCStarts
  DaysAhead = 3
  Length = 40
INVARIANTS
  NextIsFirst
  RewardOncePerPeriod
CHECK_DEADLOCK FALSE
