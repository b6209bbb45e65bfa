\* The command alone.
SPECIFICATION Spec
CONSTANTS
  bank = bank
  lapsedAccount = lapsedAccount
  card = card
  voucher = voucher
  Unlimited = Unlimited
  NotRead = NotRead
  Nobody = Nobody
  Accounts <- MCAccounts
  Lapsed = lapsedAccount
  Expired <- ExpiredCards
  CreditLimit <- MCCreditLimit
  InitialRow <- OneIsEmpty
  Requests = {}
  Jobs <- NoWork
  Admins = {}
  Changes <- NoWork
  Commands = {c1}
INVARIANTS
  CommandClosesExpired
