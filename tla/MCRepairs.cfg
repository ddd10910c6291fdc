SPECIFICATION RestoresSpec
CONSTANTS
  Key = {k1, k2}
  FirstKey = k1
  FirstKeyState = "active"
  Operator = {o1}
  TakeTurns = {"stage", "activate", "retire", "abandon", "revoke"}
  KeysTakeTurns = FALSE
  MaxPriority = 5
  MaxCrashes = 2
  MaxRestores = 1
INVARIANTS KeystoresHavePasswords RecordedFilesAreGone
PROPERTIES InterruptedActivationHeals UnpublishedStagedKeysComeBack RegistrysKeySignsAgain RestoredDemotedKeysStop
