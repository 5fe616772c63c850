CONSTANTS
  Accounts = {"a"}
  RequestKeys = {"k1"}
  Routes = {"accept", "observe"}
  Price <- MCPrice
  Purchases = {}
  PurchaseAccount <- MCNoPurchase
  PackCredits <- MCNoPurchase
  Opening <- MCOpening
  Seeds = {1, 2}
  Grants = {1}
  Calls = {"first"}
  CallAccount <- MCCallAccount
  CallKey <- MCCallKey
  CallRoute <- MCCallRoute
  ToolCalls = {"first"}
  MaxDeploys = 2
SPECIFICATION CallsSpec
INVARIANT FailedIsReleased
CHECK_DEADLOCK FALSE
