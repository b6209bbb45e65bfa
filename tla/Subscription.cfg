\* Two orders of a known and an unknown product, overlapping runs.
SPECIFICATION Spec
CONSTANTS
  Orders <- MCOrders
  Rows <- MCRows
  Products = {known, unknown}
  Mapped = {known}
  Runs = {r1, r2}
  Month = 3
  LookBack = 2
  known = known
  unknown = unknown
  Baskets <- MCBaskets
  MaxTime = 4
  NotYet = NotYet
  NoWindow = NoWindow
  NoLine = NoLine
SYMMETRY MCSymmetry
INVARIANTS
  TypeOK
  BuyerCanTrade
  NeverMoreThanCounted
  CountsTheLastSecond
  RaiseSparesNewer
PROPERTIES
  WindowsOnlyGrow
