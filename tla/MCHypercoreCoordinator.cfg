CONSTANTS
  Quotes = {"q1", "q2"}
  Actions = {"alice1", "bob1", "alice1x", "alice2"}
  Payer <- MCPayer
  Time <- MCTime
  Chain <- MCChain
  Lifetime = 1
  Skew = 1
  Latency = 1
  MaxClock = 5
  None = None
SPECIFICATION FairSpec
INVARIANTS TypeOK QuoteSubmittedOnce SubmittedIsExecuted UnsharedActionSubmittedOnce SubmissionTimely
PROPERTIES ResultsAreFinal SettlementsFinish
CHECK_DEADLOCK FALSE
