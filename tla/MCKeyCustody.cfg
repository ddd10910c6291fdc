SPECIFICATION Spec
CONSTANTS
  Key = {k1, k2, k3}
  Run = {r1, r2}
  TakeTurns = {"ceremony", "place"}
  None = None
SYMMETRY Symmetry
INVARIANTS TypeOK HeldKeysLoad
