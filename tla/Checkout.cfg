\* Two tabs of one customer: what a submission guarantees.  The run ends when
\* the customer has made MaxRequests requests, so it may deadlock.
SPECIFICATION FairSpec
CONSTANTS
  month = month
  main = main
  spare = spare
  r1 = r1
  r2 = r2
  NoOrder = NoOrder
  Requests <- MCRequests
  Products <- MCProducts
  Accounts <- MCAccounts
  Price <- MCPrice
  Opening <- MCOpening
  MaxRequests = 4
  MaxQuantity = 2
  MaxEvents = 1
INVARIANTS
  TypeOK
  OrdersArePaid
  ChargedExactly
  
PROPERTIES
  SalesSpec
  NotLeftFrozen
CHECK_DEADLOCK FALSE
