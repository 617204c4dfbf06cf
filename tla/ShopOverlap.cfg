CONSTANTS
  d1 = d1
  s1 = s1
  s2 = s2
  s3 = s3
  c1 = c1
  c2 = c2
  jellyfish = jellyfish
  turtle = turtle
  Devices = {d1}
  Creatures <- MCCreatures
  Price <- MCPrice
  MaxPrice = 3
  Calls = {c1, c2}
  Shops = {s1, s2, s3}
  InitMoney = 5
  Rewards = {2}
  MaxEarned = 0
  MaxCrashes = 1
SPECIFICATION Spec
SYMMETRY Interchangeable
INVARIANTS
  BoundedOverdraft
  OnlyPaidOwned
  ShopShowsBalance
PROPERTIES
  HomeStaysInStep
