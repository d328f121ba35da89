SPECIFICATION Spec
CONSTANTS
  Requests = {r1, r2}
  alice = alice
  bob = bob
  k1 = k1
  k2 = k2
  acctA = acctA
  acctB = acctB
  ghost = ghost
  Users = {alice, bob}
  Keys = {k1, k2}
  Accounts = {acctA, acctB}
  Inputs <- MovementInputs
  Owner <- MCOwner
  Currency <- MCCurrency
  OpeningBalance <- MCOpening
  MaxAmount <- MCMaxAmount
  DailyLimit = 30000
  CentsPerUnit = 100
  None = None
SYMMETRY Symmetric
INVARIANTS LedgerChained NoOverdraft BalancesExplained ReconciledUntilWithdrawal EmailsAnnounceMovements
CHECK_DEADLOCK FALSE
