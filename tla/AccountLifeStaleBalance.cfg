\* An edit of an account while it is topped up.
SPECIFICATION Spec
CONSTANTS
  bank = bank
  lapsedAccount = lapsedAccount
  card = card
  voucher = voucher
  Unlimited = Unlimited
  NotRead = NotRead
  Nobody = Nobody
  Accounts <- MCAccounts
  Lapsed = lapsedAccount
  Expired <- NoWork
  CreditLimit <- MCCreditLimit
  InitialRow <- BothHold
  Requests = {r1}
  Jobs <- TopUp
  Admins = {m1}
  Changes <- Edit
  Commands = {}
INVARIANTS
  CachedBalance
