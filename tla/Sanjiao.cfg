\* Both directions, with every call failing, orders filled and withdrawn at
\* any time.
SPECIFICATION Spec
CONSTANTS
  NoOrder = NoOrder
  MaxVolume = 3
  Whole = 2
  Net <- MCNet
INVARIANTS
  TypeOK
  
  OneLegAtATime
  
  SecondStakeAfterFirst
