SPECIFICATION WindowsSpec
CONSTANTS
  Key = {k1, k2}
  FirstKey = k1
  FirstKeyState = "active"
  Operator = {o1}
  TakeTurns = {"stage", "activate", "retire", "abandon", "revoke"}
  KeysTakeTurns = FALSE
  MaxPriority = 3
  CacheWindow = 1
  RetirementWindow = 3
  Margin = 1
  Lifetimes = {1, 2, 3}
  Lowering = FALSE
  Emergency = FALSE
PROPERTY KeysAreCachedBeforeTheySign
