SPECIFICATION Spec
CONSTANTS
  Requests = {r1, r2, r3, r4, r5}
  bob = bob
  acctB = acctB
  acctC = acctC
  Users = {alice}
  Accounts = {acctB}
  Owner <- MCOwner
  Codes = {c1, c2}
  MaxBeneficiaries = 10
  MaxAttempts = 3
  None = None
SYMMETRY Symmetric
INVARIANT AttemptsLimited
CHECK_DEADLOCK FALSE
