\* A transfer, a dashboard save and two runs of the closing command at once.
SPECIFICATION Spec
CONSTANTS
  bank = bank
  lapsedAccount = lapsedAccount
  card = card
  voucher = voucher
  Unlimited = Unlimited
  NotRead = NotRead
  Nobody = Nobody
  Accounts <- MCAccounts
  Lapsed = lapsedAccount
  Expired <- ExpiredCards
  CreditLimit <- MCCreditLimit
  InitialRow <- OneIsEmpty
  Requests = {r1}
  Jobs <- TopUpOrWithdraw
  Admins = {m1}
  Changes <- AnyChange
  Commands = {c1, c2}
SYMMETRY Symmetry
INVARIANTS
  TypeOK
  SpoiltOnlyByOverlap
  ClosedWereEmptied
  StatusIsAsSet
  ClosedHoldsNothing
