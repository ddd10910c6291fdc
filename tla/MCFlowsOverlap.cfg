SPECIFICATION Spec
CONSTANTS
  Run = {m1, m2}
  RunsTakeTurns = FALSE
  Flow = {1, 2}
  Builtin = Builtin
  Absent = Absent
  Revision = {"r1", "r2", "r3"}
  Declared <- MCDeclared
  Binds <- MCBinds
  Steps = 2
  MaxCrashes = 2
  MaxEdits = 0
INVARIANT BoundFlowIsWhole
