\* Some of what a cancelled leg bought is never sold.
SPECIFICATION Spec
CONSTANTS
  NoOrder = NoOrder
  MaxVolume = 3
  Whole = 2
  Net <- MCNet
INVARIANTS
  SellsEverything
