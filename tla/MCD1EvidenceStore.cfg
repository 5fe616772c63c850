CONSTANTS
  Signed = {"payA", "payB", "reuse", "order1", "order2", "edit", "free"}
  Id <- MCId
  Nonce <- MCNonce
  Cloid <- MCCloid
  IntentId <- MCIntentId
  IntentHash <- MCIntentHash
  Times = {1, 2}
  TxHashes = {"t1", "t2"}
  None = None
  Requests = {"r1", "r2", "r3"}
  Loads <- MCLoads
  MaxAttempts = 2
  Savers = {"s1", "s2"}
  Observations <- MCObservations
  Finals <- MCFinals
  Saves <- MCSaves
SPECIFICATION FairSpec
INVARIANTS EvidenceTypeOK CallsAreJustified CallsAreExplained
PROPERTIES ImplementsTables CallsAreAnswered
CHECK_DEADLOCK FALSE
