CONSTANTS
  Keys = {"a1", "a2", "a3", "b1"}
  Coalesce <- MCCoalesce
  Requests = {"first", "second", "third", "other"}
  RequestKey <- MCRequestKey
  Consumers = {"queue1"}
  Crons = {"cron1"}
  Limit = 2
  BatchSize = 2
  MaxPrompts = 1
  Scenarios <- MCScenarios
SPECIFICATION FairSpec
INVARIANTS TypeOK AttemptsBounded RequestsCoalesce
PROPERTIES JobsOnlyAdvance JobsFinish
CHECK_DEADLOCK FALSE
