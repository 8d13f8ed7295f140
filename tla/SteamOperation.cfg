SPECIFICATION Spec
CONSTANTS
  a1 = a1
  a2 = a2
  Authenticators = {a1, a2}
  None = None
  MaxOperations = 3
  MaxFaults = 2
SYMMETRY Symmetry
INVARIANTS
  SettledVaultMatchesSteam
PROPERTIES
  KeepsPromise
  AcceptanceIsNotDenied
CHECK_DEADLOCK FALSE
