SPECIFICATION Spec
CONSTANTS
  Requests = {r1, r2}
  alice = alice
  bob = bob
  k1 = k1
  k2 = k2
  s1 = s1
  Users = {alice, bob}
  Registered = {alice}
  Opened = {s1}
  OpenedBy <- MCOpenedBy
  Keys = {k1, k2}
  AccountTypes = {"savings", "current"}
  MaxAccounts = 2
  Existing <- MCExisting
  None = None
SYMMETRY Symmetric
INVARIANT ReuseEndsFamily
CHECK_DEADLOCK FALSE
