\* A frozen basket is modified all the same.
SPECIFICATION Spec
CONSTANTS
  month = month
  main = main
  spare = spare
  r1 = r1
  r2 = r2
  NoOrder = NoOrder
  Requests <- MCRequests
  Products <- MCProducts
  Accounts <- MCAccounts
  Price <- MCPrice
  Opening <- MCOpening
  MaxRequests = 4
  MaxQuantity = 2
  MaxEvents = 0
PROPERTIES
  FrozenMeansFrozen
CHECK_DEADLOCK FALSE
