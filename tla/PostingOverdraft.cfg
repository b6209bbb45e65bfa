\* Two payments from one account, both verified before either is posted.
SPECIFICATION Spec
CONSTANTS
  bank = bank
  redemptions = redemptions
  alice = alice
  frozen = frozen
  r1 = r1
  r2 = r2
  r3 = r3
  Unlimited = Unlimited
  NotRead = NotRead
  Accounts <- MCAccounts
  Requests <- TwoRequests
  Jobs <- PayAndTopUp
  CreditLimit <- MCCreditLimit
  InitialRow <- MCInitialRow
INVARIANT
  NoOverdraft
