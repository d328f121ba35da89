SPECIFICATION Spec
CONSTANTS
  Requests = {r1, r2, r3, r4}
  bob = bob
  acctB = acctB
  acctC = acctC
  Users = {alice, carol}
  Accounts = {acctB, acctC}
  Owner <- MCOwner
  Codes = {c1, c2}
  MaxBeneficiaries = 10
  MaxAttempts = 3
  None = None
SYMMETRY Symmetric
INVARIANTS TypeOK
PROPERTIES DeadCodesStayDead ImplementsEnrolment
CHECK_DEADLOCK FALSE
