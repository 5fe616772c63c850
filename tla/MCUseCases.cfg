CONSTANTS
  Signed = {"payA", "payB", "edit", "order", "again"}
  Id <- MCId
  Nonce <- MCNonce
  Cloid <- MCCloid
  IntentId <- MCIntentId
  IntentHash <- MCIntentHash
  Times = {0, 1}
  TxHashes = {"t1", "t2"}
  None = None
  Requests = {"r1", "r2", "r3"}
  Scripts <- MCScripts
  Keys = {"k"}
  Executors <- MCExecutors
  Blocks = {"b1", "b2"}
  Endpoints = 2
  Answers <- MCAnswers
  Retention = 1
  MaxTime = 1
SPECIFICATION UseCasesSpec
INVARIANTS UseCasesTypeOK AnswersAreBacked KeyedAnswersAgree ReorgsAreFlagged
PROPERTIES ImplementsLifecycle
CHECK_DEADLOCK FALSE
