SPECIFICATION Spec
CONSTANTS
  Name = {n1, n2, n3}
  Key = {k1, k2, k3, k4}
  Run = {r1, r2}
  OwnerGiven = TRUE
  OperatorsWait = TRUE
  None = None
  MaxSecrets = 5
SYMMETRY Symmetry
INVARIANTS TypeOK InstallableKeysWork DeployableIsAccepted ReplacedSecretsStayDead
