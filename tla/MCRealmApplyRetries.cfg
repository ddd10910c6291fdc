SPECIFICATION RetrySpec
CONSTANTS
  a = a
  b = b
  c = c
  Nothing = Nothing
  Object <- MCObject
  RealmObject = 1
  Defaults = 2
  Scope = {"s1"}
  Value = {a, b, c}
  Revision = {"r1", "r2", "r3"}
  Declares <- MCDeclares
  Builtin <- MCBuiltin
  Kept <- MCNormalised
  EditsWait = TRUE
INVARIANTS TypeOK NoScopeInBothLists
PROPERTIES GovernedStateIsReplacedAsRecorded OthersAttributesStay RecordedDigestIsLive RecordedRevisionReproduces AdoptedRealmConverges
