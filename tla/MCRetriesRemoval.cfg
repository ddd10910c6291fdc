SPECIFICATION RetrySpec
CONSTANTS
  Key = {k1, k2}
  FirstKey = k1
  FirstKeyState = "active"
  Operator = {o1}
  TakeTurns = {"stage", "activate", "retire", "abandon", "revoke"}
  KeysTakeTurns = FALSE
  MaxPriority = 3
  MaxCrashes = 2
PROPERTY InterruptedRemovalRunsAgain
