SPECIFICATION Spec
CONSTANTS
  Key = {k1, k2, k3}
  FirstKey = k1
  FirstKeyState = "active"
  Operator = {o1, o2}
  TakeTurns = {"activate"}
  KeysTakeTurns = TRUE
  MaxPriority = 3
SYMMETRY Symmetry
VIEW View
INVARIANTS TypeOK IInv NoMomentWithoutActiveKey OneKeySigns DemotedKeysStayPassive ProvidersAreBacked RecordedKeysAreGone
PROPERTIES OnlyStagedKeysStartSigning ImplementsKeySet
