CONSTANTS
  Accounts = {"a"}
  RequestKeys = {}
  Routes = {}
  Price <- MCPrice
  Purchases = {"pack", "corePack"}
  PurchaseAccount <- MCPurchaseAccount
  PackCredits <- MCPackCredits
  Opening <- MCOpening
  Seeds = {}
  Grants = {}
  Payments = {"read", "pack", "coreRead", "corePack"}
  Rail <- MCRail
  Whole <- MCWhole
  Requests = {"r1", "r2", "r3"}
  Loads <- MCLoads
SPECIFICATION DeliverySpec
INVARIANTS DeliveryTypeOK NothingUnpaid ChargesAreJustified ChargedLeavesTrace
CHECK_DEADLOCK FALSE
