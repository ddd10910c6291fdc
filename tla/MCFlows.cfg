SPECIFICATION FairSpec
CONSTANTS
  Run = {m1}
  RunsTakeTurns = TRUE
  Flow = {1, 2}
  Builtin = Builtin
  Absent = Absent
  Revision = {"r1", "r2", "r3"}
  Declared <- MCDeclared
  Binds <- MCBinds
  Steps = 2
  MaxCrashes = 2
  MaxEdits = 1
INVARIANTS TypeOK BoundFlowIsWhole
PROPERTIES BoundFlowIsLeftAlone HalfBuiltFlowsAreRebuilt
