CONSTANTS
  d1 = d1
  d2 = d2
  s1 = s1
  s2 = s2
  c1 = c1
  c2 = c2
  jellyfish = jellyfish
  turtle = turtle
  Devices = {d1, d2}
  Creatures <- MCCreatures
  Price <- MCPrice
  MaxPrice = 3
  Calls = {c1}
  Shops = {s1, s2}
  InitMoney = 3
  Rewards = {2}
  MaxEarned = 1
  MaxCrashes = 0
SPECIFICATION FairSpec
PROPERTIES
  ImplementsWallet
  PaidComesToStay
