SPECIFICATION FairSpec
CONSTANTS
  Requests = {r1, r2}
  alice = alice
  bob = bob
  k1 = k1
  k2 = k2
  acctA = acctA
  acctB = acctB
  ghost = ghost
  Users = {alice, bob}
  Keys = {k1, k2}
  Accounts = {acctA, acctB}
  Inputs <- TwoTransfers
  Owner <- MCOwner
  Currency <- MCCurrency
  OpeningBalance <- MCOpening
  MaxAmount <- MCMaxAmount
  DailyLimit = 30000
  CentsPerUnit = 100
  None = None
PROPERTY RequestsAnswered
CHECK_DEADLOCK FALSE
