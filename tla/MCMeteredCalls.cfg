CONSTANTS
  Accounts = {"a"}
  RequestKeys = {"k1"}
  Routes = {"accept", "observe"}
  Price <- MCPrice
  Purchases = {"pack"}
  PurchaseAccount <- MCPurchaseAccount
  PackCredits <- MCPackCredits
  Opening <- MCOpening
  Seeds = {1, 2}
  Grants = {1}
  Calls = {"first", "retry", "clash"}
  CallAccount <- MCCallAccount
  CallKey <- MCCallKey
  CallRoute <- MCCallRoute
  ToolCalls = {"retry"}
  MaxDeploys = 2
SPECIFICATION CallsSpec
INVARIANTS CallsTypeOK CreditsConserved HeldOnlyInHandler SeededAtMostApplied UnsharedKeyCharged
PROPERTY LedgerIsFinal
CHECK_DEADLOCK FALSE
