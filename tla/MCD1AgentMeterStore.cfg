CONSTANTS
  Accounts = {"a", "b"}
  RequestKeys = {"k1", "pack"}
  Routes = {"accept", "observe"}
  Price <- MCPrice
  Purchases = {"pack"}
  PurchaseAccount <- MCPurchaseAccount
  PackCredits <- MCPackCredits
  Opening <- MCOpening
  Seeds = {3}
  Grants = {1, 2}
  Calls = {"retry1", "retry2", "other", "authorize1", "authorize2", "settle1", "settle2", "credit1", "credit2", "topUp", "revoke", "issue", "claim1", "claim2"}
  Scripts <- MCScripts
SPECIFICATION FairSpec
INVARIANTS D1TypeOK NoMissingCredit HeldByLiveCall ClaimsAreCredited
PROPERTIES ImplementsStore ReservationsSettle
CHECK_DEADLOCK FALSE
