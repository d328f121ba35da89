SPECIFICATION NotifyFairSpec
CONSTANTS
  Requests = {r1}
  alice = alice
  bob = bob
  k1 = k1
  acctA = acctA
  acctB = acctB
  Users = {alice, bob}
  Keys = {k1}
  Accounts = {acctA, acctB}
  Inputs <- MCInputs
  Owner <- MCOwner
  Currency <- MCCurrency
  OpeningBalance <- MCOpening
  MaxAmount <- MCMaxAmount
  DailyLimit = 30000
  CentsPerUnit = 100
  Attempts = 3
  MaxStalls = 1
  None = None
INVARIANTS QueueTypeOK MailTruthful MailsBounded CompletedMailed
PROPERTIES OutcomeStands JobsEnd
CHECK_DEADLOCK FALSE
