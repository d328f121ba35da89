SPECIFICATION Spec
CONSTANTS
  Requests = {r1, r2, r3}
  alice = alice
  bob = bob
  k1 = k1
  k2 = k2
  acctA = acctA
  acctB = acctB
  ghost = ghost
  Users = {alice, bob}
  Keys = {k1, k2}
  Accounts = {acctA, acctB}
  Inputs <- OneTransfer
  Owner <- MCOwner
  Currency <- MCCurrency
  OpeningBalance <- MCOpening
  MaxAmount <- MCMaxAmount
  DailyLimit = 30000
  CentsPerUnit = 100
  None = None
SYMMETRY Symmetric
PROPERTIES ImplementsBank
INVARIANTS TypeOK AtMostOnce ReplyTruthful MutualExclusion
CHECK_DEADLOCK FALSE
