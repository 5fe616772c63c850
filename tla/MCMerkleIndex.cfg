CONSTANTS
  Entries = {"e1", "e2"}
  MaxLength = 8
SPECIFICATION IndexSpec
INVARIANTS IndexIsComplete ProofsVerify
CHECK_DEADLOCK FALSE
