SPECIFICATION Spec
CONSTANTS
  Key = {k1, k2, k3}
  FirstKey = k1
  FirstKeyState = "active"
  Operator = {o1}
  TakeTurns = {"stage", "activate", "retire", "abandon", "revoke"}
  KeysTakeTurns = FALSE
  MaxPriority = 4
SYMMETRY Symmetry
PROPERTY AbandonedKeysNeverSigned
