CONSTANTS
  Accounts = {"a"}
  RequestKeys = {}
  Routes = {}
  Price <- MCPrice
  Purchases = {"pack", "corePack"}
  PurchaseAccount <- MCPurchaseAccount
  PackCredits <- MCPackCredits
  Opening <- MCOpening
  Seeds = {}
  Grants = {}
  Payments = {"read", "pack", "coreRead", "corePack"}
  Rail <- MCRail
  Whole <- MCWhole
  Requests = {"r1", "r2", "r3"}
  Loads <- LateLoads
SPECIFICATION DeliverySpec
INVARIANT ServedIsPaid
CHECK_DEADLOCK FALSE
