\* Three overlapping transfers: what verification and the row locks guarantee.
SPECIFICATION AssignedSpec
CONSTANTS
  bank = bank
  redemptions = redemptions
  alice = alice
  frozen = frozen
  r1 = r1
  r2 = r2
  r3 = r3
  Unlimited = Unlimited
  NotRead = NotRead
  Accounts <- MCAccounts
  Requests <- MCRequests
  Jobs <- AllJobs
  CreditLimit <- MCCreditLimit
  InitialRow <- MCInitialRow
INVARIANTS
  TypeOK
  CachedBalance
  SoleDebitorStaysInCredit
  LedgerMatchesAnswers
  OnlyOpenAccountsMove
PROPERTIES
  LedgerSpec
  EveryRequestEnds
  SomeoneGetsThrough
