SPECIFICATION Spec
CONSTANTS
  Policies = {p1}
  Workers = {w1}
  MaxTime = 3
  BoughtFrom = 1
  BoughtUntil = 2
  limitbuy = p1
  Tolerance <- MCTolerance
  MaxEdits = 0
  NoRow = NoRow
  NoPolicy = NoPolicy
PROPERTIES
  DeletedDoesNotRun
