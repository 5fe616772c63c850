CONSTANTS
  Accounts = {"a"}
  RequestKeys = {"k1"}
  Routes = {"accept", "observe"}
  Price <- MCPrice
  Purchases = {}
  PurchaseAccount <- MCNoPurchase
  PackCredits <- MCNoPurchase
  Opening <- MCOpening
  Seeds = {1, 2}
  Grants = {1}
  Calls = {"first", "retry"}
  CallAccount <- MCCallAccount
  CallKey <- MCCallKey
  CallRoute <- MCCallRoute
  ToolCalls = {}
  MaxDeploys = 2
SPECIFICATION CallsSpec
INVARIANT ServedIsConsumed
CHECK_DEADLOCK FALSE
