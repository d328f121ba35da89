SPECIFICATION SystemSpec
CONSTANTS
  Requests = {r1}
  StatusRequests = {q1}
  Payments = {p1}
  PaymentInputs <- MCPayments
  alice = alice
  bob = bob
  k1 = k1
  k2 = k2
  acctA = acctA
  acctB = acctB
  Users = {alice, bob}
  Keys = {k1, k2}
  Accounts = {acctA, acctB}
  Inputs <- MCNothing
  Owner <- MCOwner
  Currency <- MCCurrency
  OpeningBalance <- MCOpening
  MaxAmount <- MCMaxAmount
  DailyLimit = 30000
  CentsPerUnit = 100
  None = None
SYMMETRY Symmetric
INVARIANT WholeCents
CHECK_DEADLOCK FALSE
